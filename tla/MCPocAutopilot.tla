--------------------------- MODULE MCPocAutopilot ---------------------------
(* Model-checking instances of PocAutopilot with its sandbox.               *)
EXTENDS PocAutopilot, TLC

CONSTANTS a1, a2, s1

SameSlug == (a1 :> s1) @@ (a2 :> s1)
=============================================================================
