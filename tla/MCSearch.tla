------------------------------ MODULE MCSearch ------------------------------
(***************************************************************************)
(* A tree four folders deep.  The first search reaches the limit of        *)
(* matches ("many"), or that of folders ("few"), unless a listing fails or *)
(* an entry is passed over; the second reads all it may: "pages" lists a   *)
(* file and a folder on the skip list that holds a match.  "docs" lists    *)
(* only a link.                                                            *)
(***************************************************************************)
EXTENDS Search

MCFolder == {"top", "site", "docs", "pages", "target"}
MCFile == {"c", "d"}
MCLink == {"l"}

MCIn == [e \in {"site", "docs", "pages", "target", "c", "d", "l"} |->
           CASE e \in {"site", "docs"} -> "top"
             [] e = "pages" -> "site"
             [] e \in {"c", "target"} -> "pages"
             [] e = "d" -> "target"
             [] e = "l" -> "docs"]

MCHits == [q \in {"many", "few"} |->
             IF q = "many" THEN {"site", "docs", "pages"} ELSE {"pages", "c", "d", "l"}]

MCTargets ==
  <<{[query |-> "many", root |-> "top", remote |-> TRUE],
     [query |-> "few", root |-> "top", remote |-> FALSE]},
    {[query |-> "few", root |-> "pages", remote |-> TRUE]}>>
=============================================================================
