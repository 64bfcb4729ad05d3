CONSTANTS
  Folder <- MCFolder
  File <- MCFile
  Link <- MCLink
  In <- MCIn
  Heavy = {"target"}
  Hits <- MCHits
  Targets <- MCTargets
  MaxSearches = 2
  MaxMatches = 3
  MaxVisited = 2
  MaxDepth = 1
  Batch = 2
SPECIFICATION FairSpec
CHECK_DEADLOCK FALSE
INVARIANTS
  SilenceMeansComplete
  ReportedOnce
  ShownAnswersTheQuery
  NoOrphans
PROPERTY HeldSearchEnds
