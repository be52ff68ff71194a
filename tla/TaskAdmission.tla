---------------------------- MODULE TaskAdmission ----------------------------
(***************************************************************************)
(* What the worker promises about POST /run, without its queue, semaphore, *)
(* coroutines or database: at most MaxConcurrent requests run, at most     *)
(* QueueSize wait, a request is turned away as "busy" only when that many  *)
(* wait, and while the process lives every waiting request gets its turn   *)
(* and every running one comes to an end.  A crash drops what waits and    *)
(* what runs: the worker keeps no promise across a restart.                *)
(***************************************************************************)
EXTENDS Integers, FiniteSets

CONSTANTS Requests, MaxConcurrent, QueueSize

VARIABLE phase   (* of each request *)

Phase == {"idle", "waiting", "running", "over", "busy", "refused", "dropped"}

In(p) == {r \in Requests : phase[r] = p}

Init == phase = [r \in Requests |-> "idle"]

Become(r, from, to) == phase[r] = from /\ phase' = [phase EXCEPT ![r] = to]

Admit(r) ==
  /\ QueueSize > 0 => Cardinality(In("waiting")) < QueueSize
  /\ Become(r, "idle", "waiting")

TurnAway(r) ==
  /\ QueueSize > 0 /\ Cardinality(In("waiting")) = QueueSize
  /\ Become(r, "idle", "busy")

Refuse(r) == Become(r, "idle", "refused")

Start(r) ==
  /\ Cardinality(In("running")) < MaxConcurrent
  /\ Become(r, "waiting", "running")

Finish(r) == Become(r, "running", "over")

(* A crash: requests still being handled may be dropped with the rest.      *)
Drop ==
  \E S \in SUBSET In("idle") :
    phase' = [r \in Requests |->
                IF r \in S \union In("waiting") \union In("running")
                THEN "dropped" ELSE phase[r]]

Next ==
  \/ \E r \in Requests :
       Admit(r) \/ TurnAway(r) \/ Refuse(r) \/ Start(r) \/ Finish(r)
  \/ Drop

Safety == Init /\ [][Next]_phase

(* Start(r) is enabled again and again while r waits, as others finish.     *)
Fairness == \A r \in Requests : SF_phase(Start(r)) /\ WF_phase(Finish(r))

Spec == Safety /\ Fairness
=============================================================================
