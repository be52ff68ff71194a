---------------------------- MODULE MCVaultNotes ----------------------------
(* A model-checking instance of VaultNotes: two saves with one title, both  *)
(* of them digests or both tools of agents.                                 *)
EXTENDS VaultNotes, TLC

CONSTANTS s1, s2, x1, x2, a

SameTitle == (s1 :> a) @@ (s2 :> a)

ToolsOrDigests == {{}, {s1, s2}}

Alike == Permutations({s1, s2}) \union Permutations({x1, x2})
=============================================================================
