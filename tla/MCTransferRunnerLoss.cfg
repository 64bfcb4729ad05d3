CONSTANTS
  j1 = j1
  j2 = j2
  nOne = nOne
  nTwo = nTwo
  nThree = nThree
  batch = batch
  old = old
  Job <- MCOneJob
  Name <- MCName
  DestOf <- MCDestOf
  Numbered <- MCNumbered
  Existing <- MCExisting
  Old = old
  EnqueuePolicy <- MCOverwrite
  BatchOf <- MCBatchOf
  Chunks = 2
  Modes <- MCHashedModes
  RetryLimit = 1
  MaxWorkers = 2
  MaxDisturbances = 3

SPECIFICATION Spec

INVARIANT NothingIsLost

CHECK_DEADLOCK FALSE
