------------------------------ MODULE MCGateway -----------------------------
(* A model-checking instance of Gateway.                                    *)
EXTENDS Gateway, TLC

CONSTANTS j1, j2

APlanAndATask == (j1 :> {"plan"}) @@ (j2 :> {"free", "infra"})

(* Both back ends, one of them, none.                                       *)
AllSettings ==
  [key : BOOLEAN, endpoint : BOOLEAN, routes : {{"general"}}]
=============================================================================
