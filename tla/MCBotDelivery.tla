---------------------------- MODULE MCBotDelivery ----------------------------
(* A model-checking instance of BotDelivery.                                *)
EXTENDS BotDelivery, TLC

CONSTANTS r1, r2, t1, t2

OwnTasks == (r1 :> t1) @@ (r2 :> t2)
=============================================================================
