CONSTANTS
  j1 = j1
  j2 = j2
  j3 = j3
  u1 = u1
  u2 = u2
  Job <- MCJob
  Caller <- MCTwoCallers
  StartOf <- MCStart
  MaxChanges = 3
  MaxFaults = 1

SPECIFICATION Spec

SYMMETRY MCSymmetry

INVARIANTS
  TypeOK
  AckedIsDurable
  RestartKeepsState
  QueuedIsServed

PROPERTIES
  OnlyOneMoves

CHECK_DEADLOCK FALSE
