--------------------------- MODULE MCConfiguration ---------------------------
(***************************************************************************)
(* Two profiles, two bookmarks that may name the same place and an action; *)
(* a library that holds some of them, an empty one, and two files from     *)
(* elsewhere: a whole library, and a bookmark and a secret of profiles     *)
(* that the file does not hold.                                            *)
(***************************************************************************)
EXTENDS Configuration, TLC

MCLibraries ==
  {Nothing,
   [profiles |-> "p1" :> [version |-> "v1", remember |-> TRUE],
    bookmarks |-> "b1" :> [profile |-> "p1", place |-> "home"],
    actions |-> "a1" :> "v1",
    secrets |-> "p1" :> "v1"]}

MCDocuments ==
  {[profiles |-> "p1" :> [version |-> "v2", remember |-> TRUE]
                 @@ "p2" :> [version |-> "v1", remember |-> TRUE],
    bookmarks |-> "b1" :> [profile |-> "p2", place |-> "home"]
                  @@ "b2" :> [profile |-> "p1", place |-> "home"],
    actions |-> "a1" :> "v2",
    secrets |-> "p2" :> "v2"],
   [profiles |-> <<>>,
    bookmarks |-> "b2" :> [profile |-> "p1", place |-> "home"],
    actions |-> <<>>,
    secrets |-> "p2" :> "v1"]}

MCDefault == [limit |-> 1, diagnostics |-> "off"]
=============================================================================
