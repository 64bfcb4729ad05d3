CONSTANTS
  t1 = t1
  t2 = t2
  t3 = t3
  a = a
  b = b
  one = one
  two = two
  user = user
  Task <- MCTask
  Id <- MCId
  Endpoint <- MCEndpoint
  IdOf <- MCIdOf
  EndpointsOf <- MCEndpointsOf
  Caller <- MCCaller
  MaxLimit = 2
  MaxCommands = 3

SPECIFICATION FairSpec

INVARIANTS
  Accounting
  NoGhostEntries
  NoLostWakeup

PROPERTIES
  OldestOfEndpointFirst
  SlotPoolSpec
  EveryEntryIsServed
