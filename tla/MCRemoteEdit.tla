----------------------------- MODULE MCRemoteEdit -----------------------------
(* A file of two chunks, and an empty one. *)
EXTENDS RemoteEdit

TextDef == {<<"a", "b">>, << >>}
FirstDef == <<"a", "b">>
NoTextDef == <<"no text">>
===============================================================================
