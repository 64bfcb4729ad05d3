CONSTANTS
  Chunk = {"a", "b"}
  Text <- TextDef
  First <- FirstDef
  NoText <- NoTextDef
  MaxSize = 2
  MaxSaves = 2
  MaxWrites = 2
  MaxFaults = 1
SPECIFICATION FairSpec
INVARIANTS
  ContentSurvives
  PathIsBack
  SavedLeavesNothing
  OpenedIsAVersion
PROPERTY EditsAreReported
CHECK_DEADLOCK FALSE
