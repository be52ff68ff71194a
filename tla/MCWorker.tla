------------------------------ MODULE MCWorker ------------------------------
(* A model-checking instance of Worker without its bot.                     *)
EXTENDS Worker, TLC

CONSTANTS r1, r2, t1, t2

TwoIds == (r1 :> t1) @@ (r2 :> t2)
=============================================================================
