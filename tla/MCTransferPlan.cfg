CONSTANTS
  c1 = c1
  c2 = c2
  Calls <- MCCalls
  Folder <- MCFolder
  File <- MCFile
  Link <- MCLink
  In <- MCIn
  LeadsTo <- MCLeadsTo
  Drafts <- MCDrafts
  Foreign <- MCForeign
  MaxDepth = 2
  MaxFiles = 3
  MaxCrashes = 1
SYMMETRY MCSymmetry
SPECIFICATION Spec
CHECK_DEADLOCK FALSE
INVARIANTS
  PlanIsWhole
  JobsHaveFolders
  WholeBatch
  LinksAreItsOwn
