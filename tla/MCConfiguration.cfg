CONSTANTS
  Profile = {"p1", "p2"}
  Bookmark = {"b1", "b2"}
  Action = {"a1"}
  Place = {"home"}
  Version = {"v1", "v2"}
  Libraries <- MCLibraries
  Documents <- MCDocuments
  MaxEdits = 2
  Saves = {"s1", "s2"}
  Limit = {0, 1, 2, 13}
  Greatest = 12
  Default <- MCDefault
  None = None
SPECIFICATION Spec
INVARIANTS
  SettingsAgree
  ImportRestores
  ExportsStandAlone
