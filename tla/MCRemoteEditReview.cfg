CONSTANTS
  Chunk = {"a", "b"}
  Text <- TextDef
  First <- FirstDef
  NoText <- NoTextDef
  MaxSize = 2
  MaxSaves = 2
  MaxWrites = 2
  MaxFaults = 0
SPECIFICATION Spec
INVARIANT UploadsWereReviewed
CHECK_DEADLOCK FALSE
