----------------------------- MODULE MCGitPublish -----------------------------
(* Model-checking instances of GitPublish.                                  *)
EXTENDS GitPublish, TLC

CONSTANTS q1, q2, q3, main, topic

Mixed       == (q1 :> "commit") @@ (q2 :> "push") @@ (q3 :> "publish")
PublishOnly == (q1 :> "publish") @@ (q2 :> "publish")
=============================================================================
