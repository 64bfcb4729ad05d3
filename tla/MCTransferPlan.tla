--------------------------- MODULE MCTransferPlan ---------------------------
(***************************************************************************)
(* A folder with a file, a link back to itself and a folder below it that  *)
(* holds a file, a link to a file and an empty folder; and a folder that   *)
(* holds nothing but a link to itself.  Followed, the two loops never end: *)
(* one meets the limit of files first, the other that of depth.            *)
(***************************************************************************)
EXTENDS TransferPlan, TLC

CONSTANTS c1, c2

MCCalls == {c1, c2}
MCSymmetry == Permutations(MCCalls)

MCFolder == {"site", "sub", "empty", "round"}
MCFile == {"index", "logo"}
MCLink == {"loop", "alias", "ring"}

MCIn == [e \in {"sub", "empty", "index", "logo", "loop", "alias", "ring"} |->
           CASE e \in {"sub", "index", "loop"} -> "site"
             [] e = "ring" -> "round"
             [] OTHER -> "sub"]

MCLeadsTo == [l \in MCLink |-> CASE l = "loop" -> "site"
                                  [] l = "ring" -> "round"
                                  [] l = "alias" -> "logo"]

Draft(up, source, include, links) ==
  [up |-> up, source |-> source, include |-> include, links |-> links]

MCDrafts ==
  {Draft(TRUE, "site", TRUE, "copy"),
   Draft(TRUE, "sub", TRUE, "dereference"),
   Draft(TRUE, "round", FALSE, "dereference"),
   Draft(TRUE, "site", FALSE, "dereference"),
   Draft(FALSE, "site", TRUE, "copy"),
   Draft(FALSE, "sub", FALSE, "dereference")}

\* The destination folder alone, and with a file where a folder should be.
MCForeign ==
  {[p \in {<<>>} |-> "folder"],
   [p \in {<<>>, <<"site">>, <<"site", "sub">>} |->
      IF p = <<"site", "sub">> THEN "file" ELSE "folder"]}

=============================================================================
