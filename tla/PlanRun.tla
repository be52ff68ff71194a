------------------------------ MODULE PlanRun -------------------------------
(***************************************************************************)
(* What run_task and run_plan_task promise to the worker, without          *)
(* routes, back ends, caches and tool loops: a task is decomposed into at  *)
(* most PlanLimit parts, the parts run one after the other and each once,  *)
(* and the task succeeds with the results of all of them in their order,   *)
(* or fails with none.  Every task comes to an end.                        *)
(***************************************************************************)
EXTENDS Integers, Sequences

CONSTANTS Jobs, PlanLimit

VARIABLES
  status,   (* of each task                                                 *)
  parts,    (* how many parts it has; 0 while that is not known             *)
  results   (* of the parts that have run                                   *)

vars == <<status, parts, results>>

Init ==
  /\ status = [j \in Jobs |-> "idle"]
  /\ parts = [j \in Jobs |-> 0]
  /\ results = [j \in Jobs |-> <<>>]

Begin(j) ==
  /\ status[j] = "idle"
  /\ status' = [status EXCEPT ![j] = "running"]
  /\ \E n \in {0, 1} : parts' = [parts EXCEPT ![j] = n]
  /\ UNCHANGED results

Decompose(j) ==
  /\ status[j] = "running" /\ parts[j] = 0
  /\ \E n \in 1 .. PlanLimit : parts' = [parts EXCEPT ![j] = n]
  /\ UNCHANGED <<status, results>>

(* The last part ends the task.                                             *)
RunPart(j) ==
  /\ status[j] = "running" /\ Len(results[j]) < parts[j]
  /\ \E text \in {"text", "blank"} : results' = [results EXCEPT ![j] = Append(@, text)]
  /\ status' = [status EXCEPT ![j] = IF Len(results'[j]) = parts[j] THEN "ok" ELSE @]
  /\ UNCHANGED parts

(* Any failure ends the task and takes its results along.                   *)
Fail(j) ==
  /\ status[j] \in {"idle", "running"}
  /\ status' = [status EXCEPT ![j] = "failed"]
  /\ results' = [results EXCEPT ![j] = <<>>]
  /\ UNCHANGED parts

GoOn(j) == Decompose(j) \/ RunPart(j) \/ (status[j] = "running" /\ Fail(j))

Next == \E j \in Jobs : Begin(j) \/ GoOn(j) \/ Fail(j)

Fairness == \A j \in Jobs : WF_vars(GoOn(j))

Spec == Init /\ [][Next]_vars /\ Fairness
=============================================================================
