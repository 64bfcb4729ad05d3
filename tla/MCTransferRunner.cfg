CONSTANTS
  j1 = j1
  j2 = j2
  nOne = nOne
  nTwo = nTwo
  nThree = nThree
  batch = batch
  old = old
  Job <- MCJob
  Name <- MCName
  DestOf <- MCDestOf
  Numbered <- MCNumbered
  Existing <- MCExisting
  Old = old
  EnqueuePolicy <- MCAnyPolicy
  BatchOf <- MCBatchOf
  Chunks = 2
  Modes <- MCModes
  RetryLimit = 1
  MaxWorkers = 1
  MaxDisturbances = 3

SPECIFICATION Spec

SYMMETRY MCSymmetry

INVARIANTS
  TypeOK
  DestinationsAreWhole
  NothingIsLost
  CompletedWasDelivered

PROPERTIES
  PartialIsKept

CHECK_DEADLOCK FALSE
