--------------------------- MODULE MCNotesPublish ---------------------------
(***************************************************************************)
(* A model-checking instance of NotesPublish: two notes that the category  *)
(* aliases bring to the same public path (IT 트렌드/x.md and 트렌드/x.md).   *)
(***************************************************************************)
EXTENDS NotesPublish, TLC

CONSTANTS n1, n2, x, index, s1, s2

TwoNotes == <<n1, n2>>
Aliased  == (n1 :> x) @@ (n2 :> x)

SameSessions == Permutations(Sessions)
=============================================================================
