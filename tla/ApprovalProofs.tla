---------------------------- MODULE ApprovalProofs ----------------------------
(***************************************************************************)
(* Proofs about ApprovalPipeline for any finite set of pipelines and any   *)
(* number of taps and faults.                                              *)
(***************************************************************************)
EXTENDS ApprovalPipeline, TLAPS

USE PipelinesAssumption, BoundsAssumption

-----------------------------------------------------------------------------
(* Type correctness.                                                        *)

LEMMA StageType ==
  ASSUME TypeOK, NEW p \in Pipelines, NEW from, NEW to \in Stage, Goes(p, from, to)
  PROVE  stage' \in [Pipelines -> Stage]
BY DEF TypeOK, Goes

LEMMA FailsType ==
  ASSUME TypeOK, Fails
  PROVE  faults' \in Nat
BY DEF TypeOK, Fails

LEMMA RaiseType ==
  ASSUME TypeOK, NEW p \in Pipelines, NEW from, Raise(p, from)
  PROVE  /\ stage' \in [Pipelines -> Stage]
         /\ running' \in BOOLEAN
         /\ faults' \in Nat
<1>1. "ended" \in Stage /\ "error" \in Stage
  BY DEF Stage, Active, Following
<1>2. stage' \in [Pipelines -> Stage]
  BY <1>1, StageType DEF Raise
<1>3. running' \in BOOLEAN
  BY DEF Raise, Finally, TypeOK
<1>4. QED
  BY <1>2, <1>3, FailsType DEF Raise

(* What may follow a message is a stage, and never the one that writes.     *)
LEMMA FollowingStages ==
  ASSUME NEW m \in DOMAIN Following, NEW to \in Following[m]
  PROVE  to \in Stage /\ to # "execute"
BY DEF Following, Stage, Active

(* Every variable keeps its type in every reachable state.                  *)
THEOREM ApprovalTypeCorrect == Spec => []TypeOK
<1>1. Init => TypeOK
  <2> SUFFICES ASSUME Init PROVE TypeOK
    OBVIOUS
  <2>1. updates \in Seq(Updates) /\ taps \in [Pipelines -> Seq(Choices)]
    BY DEF Init
  <2>2. stage \in [Pipelines -> Stage]
    BY DEF Init, Stage
  <2>3. handler \in {Idle}
    BY DEF Init
  <2>4. /\ approved \in [Pipelines -> Choices \union {Unset}]
        /\ verdict \in [Pipelines -> Choices \union {"timeout", Unset}]
        /\ shown \in [Pipelines -> Choices \union {"asked", Unset}]
    BY DEF Init
  <2>5. running \in BOOLEAN /\ pending \subseteq Pipelines /\ saved \subseteq Pipelines
          /\ faults \in Nat
    BY DEF Init
  <2>6. QED
    BY <2>1, <2>2, <2>3, <2>4, <2>5 DEF TypeOK
<1>2. TypeOK /\ [Next]_vars => TypeOK'
  <2> SUFFICES ASSUME TypeOK, [Next]_vars PROVE TypeOK'
    OBVIOUS
  <2> USE DEF user, bot
  <2>1. ASSUME NEW p \in Pipelines, SendRun(p) PROVE TypeOK'
    <3>1. stage' \in [Pipelines -> Stage]
      <4>1. "sent" \in Stage
        BY DEF Stage
      <4>2. QED
        BY <2>1, <4>1, StageType DEF SendRun
    <3>2. updates' \in Seq(Updates)
      <4>1. [do |-> "run", id |-> p] \in Updates
        BY DEF Updates
      <4>2. QED
        BY <2>1, <4>1 DEF SendRun, TypeOK
    <3>3. QED
      BY <2>1, <3>1, <3>2 DEF SendRun, TypeOK
  <2>2. ASSUME NEW p \in Pipelines, NEW choice \in Choices, Tap(p, choice) PROVE TypeOK'
    <3>1. updates' \in Seq(Updates)
      <4>1. [do |-> choice, id |-> p] \in Updates
        BY DEF Updates
      <4>2. QED
        BY <2>2, <4>1 DEF Tap, TypeOK
    <3>2. taps' \in [Pipelines -> Seq(Choices)]
      <4>1. taps[p] \in Seq(Choices)
        BY DEF TypeOK
      <4>2. Append(taps[p], choice) \in Seq(Choices)
        BY <4>1
      <4>3. QED
        BY <2>2, <4>2 DEF Tap, TypeOK
    <3>3. QED
      BY <2>2, <3>1, <3>2 DEF Tap, TypeOK
  <2>3. ASSUME Dispatch PROVE TypeOK'
    <3>1. Head(updates) \in Updates /\ Tail(updates) \in Seq(Updates)
      BY <2>3 DEF Dispatch, TypeOK
    <3>2. Accepts(Head(updates)) \in BOOLEAN
      <4>1. running \in BOOLEAN
        BY DEF TypeOK
      <4>2. CASE Head(updates).do = "run"
        BY <4>1, <4>2 DEF Accepts
      <4>3. CASE Head(updates).do # "run"
        <5>1. Accepts(Head(updates)) <=> Head(updates).id \in pending
          BY <4>3 DEF Accepts
        <5>2. QED
          BY <4>3 DEF Accepts
      <4>4. QED
        BY <4>2, <4>3
    <3>3. handler' \in [do : {"run"} \union Choices, id : Pipelines, accepted : BOOLEAN]
      BY <2>3, <3>1, <3>2 DEF Dispatch, Updates
    <3>4. approved' \in [Pipelines -> Choices \union {Unset}]
      BY <2>3, <3>1 DEF Dispatch, Updates, TypeOK
    <3>5. QED
      BY <2>3, <3>1, <3>3, <3>4 DEF Dispatch, TypeOK
  <2>4. ASSUME FinishRun PROVE TypeOK'
    <3>1. handler.id \in Pipelines
      BY <2>4 DEF FinishRun, TypeOK, Idle
    <3>2. stage' \in [Pipelines -> Stage]
      <4>1. "created" \in Stage /\ "refused" \in Stage
        BY DEF Stage
      <4>2. QED
        BY <2>4, <3>1, <4>1, StageType DEF FinishRun
    <3>3. faults' \in Nat
      BY <2>4, FailsType DEF FinishRun, TypeOK
    <3>4. QED
      BY <2>4, <3>2, <3>3 DEF FinishRun, TypeOK
  <2>5. ASSUME FinishTap PROVE TypeOK'
    <3>1. handler.id \in Pipelines /\ handler.do \in Choices
      <4>1. handler # Idle
        BY <2>5 DEF FinishTap, Idle, Choices
      <4>2. QED
        BY <2>5, <4>1 DEF FinishTap, TypeOK
    <3>2. shown' \in [Pipelines -> Choices \union {"asked", Unset}]
      BY <2>5, <3>1 DEF FinishTap, TypeOK
    <3>3. faults' \in Nat
      BY <2>5, FailsType DEF FinishTap, TypeOK
    <3>4. QED
      BY <2>5, <3>2, <3>3 DEF FinishTap, TypeOK
  <2>6. ASSUME NEW p \in Pipelines, Begin(p) PROVE TypeOK'
    <3>1. "begin" \in Stage
      BY DEF Stage, Active, Following
    <3>2. stage' \in [Pipelines -> Stage]
      BY <2>6, <3>1, StageType DEF Begin
    <3>3. QED
      BY <2>6, <3>2 DEF Begin, TypeOK
  <2>7. ASSUME NEW p \in Pipelines, Say(p) PROVE TypeOK'
    <3>1. /\ stage' \in [Pipelines -> Stage]
          /\ running' \in BOOLEAN
          /\ faults' \in Nat
      <4>1. CASE Raise(p, stage[p])
        BY <4>1, RaiseType
      <4>2. CASE ~Raise(p, stage[p])
        <5>1. PICK to \in Following[stage[p]] : Goes(p, stage[p], to)
          BY <2>7, <4>2 DEF Say
        <5>2. to \in Stage
          BY <2>7, FollowingStages DEF Say
        <5>3. stage' \in [Pipelines -> Stage]
          BY <5>1, <5>2, StageType
        <5>4. QED
          BY <2>7, <4>2, <5>3 DEF Say, Finally, TypeOK
      <4>3. QED
        BY <4>1, <4>2
    <3>2. QED
      BY <2>7, <3>1 DEF Say, TypeOK
  <2>8. ASSUME NEW p \in Pipelines, Scan(p) PROVE TypeOK'
    <3>1. "scanned" \in Stage /\ "scanfailed" \in Stage
      BY DEF Stage, Active, Following
    <3>2. /\ stage' \in [Pipelines -> Stage]
          /\ running' \in BOOLEAN
          /\ faults' \in Nat
      BY <2>8, <3>1, StageType, RaiseType, FailsType DEF Scan, TypeOK
    <3>3. QED
      BY <2>8, <3>2 DEF Scan, TypeOK
  <2>9. ASSUME NEW p \in Pipelines, Ask(p) PROVE TypeOK'
    <3>1. "asking" \in Stage
      BY DEF Stage, Active
    <3>2. stage' \in [Pipelines -> Stage]
      BY <2>9, <3>1, StageType DEF Ask
    <3>3. QED
      BY <2>9, <3>2 DEF Ask, TypeOK
  <2>10. ASSUME NEW p \in Pipelines, Deliver(p) PROVE TypeOK'
    BY <2>10 DEF Deliver, TypeOK
  <2>11. ASSUME NEW p \in Pipelines, Asked(p) PROVE TypeOK'
    <3>1. "waiting" \in Stage
      BY DEF Stage, Active
    <3>2. /\ stage' \in [Pipelines -> Stage]
          /\ running' \in BOOLEAN
          /\ faults' \in Nat
      BY <2>11, <3>1, StageType, RaiseType DEF Asked, TypeOK
    <3>3. QED
      BY <2>11, <3>2 DEF Asked, TypeOK
  <2>12. ASSUME NEW p \in Pipelines, Wake(p) PROVE TypeOK'
    <3>1. "execute" \in Stage /\ "stopped" \in Stage
      BY DEF Stage, Active, Following
    <3>2. stage' \in [Pipelines -> Stage]
      BY <2>12, <3>1, StageType DEF Wake
    <3>3. QED
      BY <2>12, <3>2 DEF Wake, Forget, TypeOK
  <2>13. ASSUME NEW p \in Pipelines, TimeOut(p) PROVE TypeOK'
    <3>1. "timingout" \in Stage
      BY DEF Stage, Active
    <3>2. stage' \in [Pipelines -> Stage]
      BY <2>13, <3>1, StageType DEF TimeOut
    <3>3. QED
      BY <2>13, <3>2 DEF TimeOut, TypeOK
  <2>14. ASSUME NEW p \in Pipelines, TimedOut(p) PROVE TypeOK'
    <3>1. "stopped" \in Stage
      BY DEF Stage, Active, Following
    <3>2. /\ stage' \in [Pipelines -> Stage]
          /\ running' \in BOOLEAN
          /\ faults' \in Nat
      BY <2>14, <3>1, StageType, RaiseType DEF TimedOut, TypeOK
    <3>3. QED
      BY <2>14, <3>2 DEF TimedOut, Forget, TypeOK
  <2>15. ASSUME NEW p \in Pipelines, Execute(p) PROVE TypeOK'
    <3>1. "executed" \in Stage
      BY DEF Stage, Active, Following
    <3>2. /\ stage' \in [Pipelines -> Stage]
          /\ running' \in BOOLEAN
          /\ faults' \in Nat
      BY <2>15, <3>1, StageType, RaiseType DEF Execute, TypeOK
    <3>3. QED
      BY <2>15, <3>2 DEF Execute, TypeOK
  <2>16. ASSUME Crash PROVE TypeOK'
    <3>1. "lost" \in Stage
      BY DEF Stage
    <3>2. stage' \in [Pipelines -> Stage]
      BY <2>16, <3>1 DEF Crash, TypeOK
    <3>3. faults' \in Nat
      BY <2>16, FailsType DEF Crash
    <3>4. handler' \in {Idle} /\ updates' \in Seq(Updates)
      BY <2>16 DEF Crash
    <3>5. QED
      BY <2>16, <3>2, <3>3, <3>4 DEF Crash, TypeOK
  <2>17. CASE UNCHANGED vars
    BY <2>17 DEF vars, TypeOK
  <2>18. QED
    BY <2>1, <2>2, <2>3, <2>4, <2>5, <2>6, <2>7, <2>8, <2>9, <2>10, <2>11, <2>12,
       <2>13, <2>14, <2>15, <2>16, <2>17 DEF Next, Pipeline, Dispatcher
<1>3. QED
  BY <1>1, <1>2, PTL DEF Spec

-----------------------------------------------------------------------------
(* The approval gate.                                                       *)

(* Every decision on its way from the user to save_report was tapped on the *)
(* message of the request it is applied to: in the queue, in the result of  *)
(* the request, in the stage the pipeline goes on to, and on disk.          *)
QueuedTapped   == \A i \in 1..Len(updates) :
                    updates[i].do \in Choices => updates[i].do \in Tapped(updates[i].id)
RecordedTapped == \A p \in Pipelines : approved[p] \in Choices => approved[p] \in Tapped(p)
ExecuteTapped  == \A p \in Pipelines : stage[p] = "execute" => "approve" \in Tapped(p)
SavedTapped    == \A p \in saved : "approve" \in Tapped(p)
GateInv == QueuedTapped /\ RecordedTapped /\ ExecuteTapped /\ SavedTapped

(* What was tapped stays tapped, and a new tap is among what was tapped.    *)
LEMMA TapAdds ==
  ASSUME TypeOK, NEW p \in Pipelines, NEW choice \in Choices, Tap(p, choice)
  PROVE  /\ \A q \in Pipelines : Tapped(q) \subseteq Tapped(q)'
         /\ choice \in Tapped(p)'
<1>1. taps \in [Pipelines -> Seq(Choices)]
  BY DEF TypeOK
<1>2. taps' = [taps EXCEPT ![p] = Append(taps[p], choice)]
  BY DEF Tap
<1>3. ASSUME NEW q \in Pipelines, q # p PROVE Tapped(q) \subseteq Tapped(q)'
  BY <1>1, <1>2, <1>3 DEF Tapped
<1>4. Tapped(p) \subseteq Tapped(p)' /\ choice \in Tapped(p)'
  <2>1. taps[p] \in Seq(Choices) /\ taps'[p] = Append(taps[p], choice)
    BY <1>1, <1>2
  <2>2. /\ Len(taps'[p]) = Len(taps[p]) + 1
        /\ taps'[p][Len(taps[p]) + 1] = choice
        /\ \A i \in 1..Len(taps[p]) : taps'[p][i] = taps[p][i]
    BY <2>1
  <2>3. Len(taps[p]) \in Nat
    BY <2>1
  <2>4. Tapped(p) \subseteq Tapped(p)'
    BY <2>2, <2>3 DEF Tapped
  <2>5. Len(taps[p]) + 1 \in 1..Len(taps'[p])
    BY <2>2, <2>3
  <2>6. choice \in Tapped(p)'
    BY <2>2, <2>5 DEF Tapped
  <2>7. QED
    BY <2>4, <2>6
<1>5. QED
  BY <1>3, <1>4

(* A step that leaves the taps, the decisions and the reports alone, sends  *)
(* no decision and moves no pipeline into execute, keeps the gate.          *)
LEMMA GateUntouched ==
  ASSUME TypeOK, GateInv, UNCHANGED <<taps, approved, saved>>,
         updates' = updates \/ updates' = <<>>,
         \A p \in Pipelines : stage'[p] = "execute" => stage[p] = "execute"
  PROVE  GateInv'
<1>1. \A p : Tapped(p)' = Tapped(p)
  BY DEF Tapped
<1>2. QueuedTapped'
  BY <1>1 DEF GateInv, QueuedTapped
<1>3. RecordedTapped' /\ ExecuteTapped' /\ SavedTapped'
  BY <1>1 DEF GateInv, RecordedTapped, ExecuteTapped, SavedTapped
<1>4. QED
  BY <1>2, <1>3 DEF GateInv

(* A pipeline that goes elsewhere does not go to execute.                   *)
LEMMA GoesElsewhere ==
  ASSUME TypeOK, NEW p \in Pipelines, NEW from, NEW to, Goes(p, from, to), to # "execute"
  PROVE  \A q \in Pipelines : stage'[q] = "execute" => stage[q] = "execute"
BY DEF Goes, TypeOK

LEMMA RaiseElsewhere ==
  ASSUME TypeOK, NEW p \in Pipelines, NEW from, Raise(p, from)
  PROVE  \A q \in Pipelines : stage'[q] = "execute" => stage[q] = "execute"
BY GoesElsewhere DEF Raise

LEMMA GateHolds == Spec => []GateInv
<1>1. Init => GateInv
  BY DEF Init, GateInv, QueuedTapped, RecordedTapped, ExecuteTapped,
         SavedTapped, Choices, Unset
<1>2. TypeOK /\ GateInv /\ [Next]_vars => GateInv'
  <2> SUFFICES ASSUME TypeOK, GateInv, [Next]_vars PROVE GateInv'
    OBVIOUS
  <2> USE DEF user, bot
  <2>1. ASSUME NEW p \in Pipelines, SendRun(p) PROVE GateInv'
    <3>1. \A q : Tapped(q)' = Tapped(q)
      BY <2>1 DEF SendRun, Tapped
    <3>2. QueuedTapped'
      <4>1. /\ updates \in Seq(Updates)
            /\ [do |-> "run", id |-> p].do \notin Choices
            /\ updates' = Append(updates, [do |-> "run", id |-> p])
        BY <2>1 DEF SendRun, TypeOK, Choices
      <4>2. /\ Len(updates') = Len(updates) + 1
            /\ updates'[Len(updates) + 1] = [do |-> "run", id |-> p]
            /\ \A i \in 1..Len(updates) : updates'[i] = updates[i]
        BY <4>1
      <4>3. QED
        BY <3>1, <4>1, <4>2 DEF GateInv, QueuedTapped
    <3>3. \A q \in Pipelines : stage'[q] = "execute" => stage[q] = "execute"
      BY <2>1, GoesElsewhere DEF SendRun
    <3>4. QED
      BY <2>1, <3>1, <3>2, <3>3
         DEF SendRun, GateInv, RecordedTapped, ExecuteTapped, SavedTapped
  <2>2. ASSUME NEW p \in Pipelines, NEW choice \in Choices, Tap(p, choice) PROVE GateInv'
    <3>1. /\ \A q \in Pipelines : Tapped(q) \subseteq Tapped(q)'
          /\ choice \in Tapped(p)'
      BY <2>2, TapAdds
    <3>2. QueuedTapped'
      <4> DEFINE u == [do |-> choice, id |-> p]
      <4>1. updates \in Seq(Updates) /\ updates' = Append(updates, u)
        BY <2>2 DEF Tap, TypeOK
      <4>2. /\ Len(updates') = Len(updates) + 1
            /\ updates'[Len(updates) + 1] = u
            /\ \A i \in 1..Len(updates) : updates'[i] = updates[i]
        BY <4>1
      <4>3. ASSUME NEW i \in 1..Len(updates) PROVE updates[i].id \in Pipelines
        <5>1. updates[i] \in Updates
          BY <4>1
        <5>2. QED
          BY <5>1 DEF Updates
      <4>4. u.do = choice /\ u.id = p
        OBVIOUS
      <4> HIDE DEF u
      <4>5. QED
        BY <3>1, <4>2, <4>3, <4>4 DEF GateInv, QueuedTapped
    <3>3. UNCHANGED <<approved, stage, saved>>
      BY <2>2 DEF Tap
    <3>4. saved \subseteq Pipelines
      BY DEF TypeOK
    <3>5. RecordedTapped' /\ ExecuteTapped' /\ SavedTapped'
      BY <3>1, <3>3, <3>4 DEF GateInv, RecordedTapped, ExecuteTapped, SavedTapped
    <3>6. QED
      BY <3>2, <3>5 DEF GateInv
  <2>3. ASSUME Dispatch PROVE GateInv'
    <3> DEFINE u == Head(updates)
    <3>1. \A q : Tapped(q)' = Tapped(q)
      BY <2>3 DEF Dispatch, Tapped
    <3>2. /\ updates \in Seq(Updates) /\ updates # <<>> /\ updates' = Tail(updates)
          /\ Len(updates) \in Nat \ {0} /\ u = updates[1]
          /\ Len(updates') = Len(updates) - 1
          /\ \A i \in 1..Len(updates') : updates'[i] = updates[i + 1]
      BY <2>3 DEF Dispatch, TypeOK
    <3>3. QueuedTapped'
      BY <3>1, <3>2 DEF GateInv, QueuedTapped
    <3>4. u.do \in Choices => u.do \in Tapped(u.id)
      BY <3>2 DEF GateInv, QueuedTapped
    <3>5. RecordedTapped'
      <4>1. approved' = approved \/ (u.do \in Choices /\ approved' = [approved EXCEPT ![u.id] = u.do])
        BY <2>3 DEF Dispatch
      <4>2. approved \in [Pipelines -> Choices \union {Unset}]
        BY DEF TypeOK
      <4> HIDE DEF u
      <4>3. QED
        BY <3>1, <3>4, <4>1, <4>2 DEF GateInv, RecordedTapped
    <3>6. ExecuteTapped' /\ SavedTapped'
      BY <2>3, <3>1 DEF Dispatch, GateInv, ExecuteTapped, SavedTapped
    <3>7. QED
      BY <3>3, <3>5, <3>6 DEF GateInv
  <2>4. ASSUME FinishRun PROVE GateInv'
    <3>1. handler.id \in Pipelines
      BY <2>4 DEF FinishRun, TypeOK, Idle
    <3>2. \A q \in Pipelines : stage'[q] = "execute" => stage[q] = "execute"
      BY <2>4, <3>1, GoesElsewhere DEF FinishRun
    <3>3. QED
      BY <2>4, <3>2, GateUntouched DEF FinishRun
  <2>5. ASSUME FinishTap PROVE GateInv'
    BY <2>5, GateUntouched DEF FinishTap
  <2>6. ASSUME NEW p \in Pipelines, Begin(p) PROVE GateInv'
    <3>1. \A q \in Pipelines : stage'[q] = "execute" => stage[q] = "execute"
      BY <2>6, GoesElsewhere DEF Begin
    <3>2. QED
      BY <2>6, <3>1, GateUntouched DEF Begin
  <2>7. ASSUME NEW p \in Pipelines, Say(p) PROVE GateInv'
    <3>1. \A q \in Pipelines : stage'[q] = "execute" => stage[q] = "execute"
      <4>1. CASE Raise(p, stage[p])
        BY <4>1, RaiseElsewhere
      <4>2. CASE ~Raise(p, stage[p])
        <5>1. PICK to \in Following[stage[p]] : Goes(p, stage[p], to)
          BY <2>7, <4>2 DEF Say
        <5>2. to # "execute"
          BY <2>7, FollowingStages DEF Say
        <5>3. QED
          BY <5>1, <5>2, GoesElsewhere
      <4>3. QED
        BY <4>1, <4>2
    <3>2. QED
      BY <2>7, <3>1, GateUntouched DEF Say
  <2>8. ASSUME NEW p \in Pipelines, Scan(p) PROVE GateInv'
    <3>1. \A q \in Pipelines : stage'[q] = "execute" => stage[q] = "execute"
      BY <2>8, GoesElsewhere, RaiseElsewhere DEF Scan
    <3>2. QED
      BY <2>8, <3>1, GateUntouched DEF Scan
  <2>9. ASSUME NEW p \in Pipelines, Ask(p) PROVE GateInv'
    <3>1. \A q \in Pipelines : stage'[q] = "execute" => stage[q] = "execute"
      BY <2>9, GoesElsewhere DEF Ask
    <3>2. QED
      BY <2>9, <3>1, GateUntouched DEF Ask
  <2>10. ASSUME NEW p \in Pipelines, Deliver(p) PROVE GateInv'
    BY <2>10, GateUntouched DEF Deliver
  <2>11. ASSUME NEW p \in Pipelines, Asked(p) PROVE GateInv'
    <3>1. \A q \in Pipelines : stage'[q] = "execute" => stage[q] = "execute"
      BY <2>11, GoesElsewhere, RaiseElsewhere DEF Asked
    <3>2. QED
      BY <2>11, <3>1, GateUntouched DEF Asked
  <2>12. ASSUME NEW p \in Pipelines, Wake(p) PROVE GateInv'
    <3>1. \A q : Tapped(q)' = Tapped(q)
      BY <2>12 DEF Wake, Tapped
    <3>2. QueuedTapped' /\ RecordedTapped' /\ SavedTapped'
      BY <2>12, <3>1 DEF Wake, GateInv, QueuedTapped, RecordedTapped, SavedTapped
    <3>3. ExecuteTapped'
      <4>1. CASE approved[p] = "approve"
        <5>1. "approve" \in Tapped(p)
          BY <4>1 DEF GateInv, RecordedTapped, Choices
        <5>2. \A q \in Pipelines : q # p => stage'[q] = stage[q]
          BY <2>12 DEF Wake, Goes, TypeOK
        <5>3. QED
          BY <3>1, <5>1, <5>2 DEF GateInv, ExecuteTapped
      <4>2. CASE approved[p] # "approve"
        <5>1. \A q \in Pipelines : stage'[q] = "execute" => stage[q] = "execute"
          BY <2>12, <4>2, GoesElsewhere DEF Wake
        <5>2. QED
          BY <3>1, <5>1 DEF GateInv, ExecuteTapped
      <4>3. QED
        BY <4>1, <4>2
    <3>4. QED
      BY <3>2, <3>3 DEF GateInv
  <2>13. ASSUME NEW p \in Pipelines, TimeOut(p) PROVE GateInv'
    <3>1. \A q \in Pipelines : stage'[q] = "execute" => stage[q] = "execute"
      BY <2>13, GoesElsewhere DEF TimeOut
    <3>2. QED
      BY <2>13, <3>1, GateUntouched DEF TimeOut
  <2>14. ASSUME NEW p \in Pipelines, TimedOut(p) PROVE GateInv'
    <3>1. \A q \in Pipelines : stage'[q] = "execute" => stage[q] = "execute"
      BY <2>14, GoesElsewhere, RaiseElsewhere DEF TimedOut
    <3>2. QED
      BY <2>14, <3>1, GateUntouched DEF TimedOut
  <2>15. ASSUME NEW p \in Pipelines, Execute(p) PROVE GateInv'
    <3>1. \A q : Tapped(q)' = Tapped(q)
      BY <2>15 DEF Execute, Tapped
    <3>2. stage[p] = "execute" /\ saved' \subseteq saved \union {p}
      BY <2>15 DEF Execute, Raise, Goes
    <3>3. SavedTapped'
      BY <3>1, <3>2 DEF GateInv, ExecuteTapped, SavedTapped
    <3>4. \A q \in Pipelines : stage'[q] = "execute" => stage[q] = "execute"
      BY <2>15, GoesElsewhere, RaiseElsewhere DEF Execute
    <3>5. QueuedTapped' /\ RecordedTapped' /\ ExecuteTapped'
      BY <2>15, <3>1, <3>4 DEF Execute, GateInv, QueuedTapped, RecordedTapped, ExecuteTapped
    <3>6. QED
      BY <3>3, <3>5 DEF GateInv
  <2>16. ASSUME Crash PROVE GateInv'
    <3>1. \A q \in Pipelines : stage'[q] = "execute" => stage[q] = "execute"
      BY <2>16 DEF Crash
    <3>2. QED
      BY <2>16, <3>1, GateUntouched DEF Crash
  <2>17. CASE UNCHANGED vars
    BY <2>17, GateUntouched DEF vars
  <2>18. QED
    BY <2>1, <2>2, <2>3, <2>4, <2>5, <2>6, <2>7, <2>8, <2>9, <2>10, <2>11, <2>12,
       <2>13, <2>14, <2>15, <2>16, <2>17 DEF Next, Pipeline, Dispatcher
<1>3. QED
  BY <1>1, <1>2, ApprovalTypeCorrect, PTL DEF Spec

-----------------------------------------------------------------------------
(* The steps of a pipeline                                                  *)

Early   == {"created", "begin", "collect", "scan", "scanned", "scanfailed", "clean",
            "analyze"}
Request == {"asking", "waiting", "timingout"}
Late    == {"stopped", "execute", "executed", "completed", "error", "ended"}

Asks(p, to) == stage[p] = "analyze" /\ to = "asking" /\ pending' = pending \union {p}

Holds(p, to) ==
  /\ pending' = pending
  /\ \/ stage[p] \in Early /\ to \in Early \union {"error", "ended"}
     \/ stage[p] \in Request /\ to \in Request \union {"error"}
     \/ /\ stage[p] \in Late \ {"ended"} /\ to \in Late
        /\ stage[p] = "error" => to = "ended"

Decides(p, to) ==
  /\ stage[p] \in {"waiting", "timingout"} /\ to \in Late /\ pending' = pending \ {p}
  /\ \/ verdict' = verdict
     \/ verdict' = [verdict EXCEPT ![p] = "timeout"]
     \/ approved[p] # Unset /\ verdict' = [verdict EXCEPT ![p] = approved[p]]

PipelineStep(p) ==
  /\ \E to \in Stage :
       /\ stage' = [stage EXCEPT ![p] = to]
       /\ to \in Active \union {"ended"}
       /\ to = "ended" => ~running'
       /\ \/ Asks(p, to) /\ verdict' = verdict
          \/ Holds(p, to) /\ verdict' = verdict
          \/ Decides(p, to)
  /\ faults' = 0 => faults = 0
  /\ UNCHANGED <<updates, handler, approved, user>>

(* Where a message leads.                                                   *)
LEMMA AfterMessage ==
  ASSUME NEW m \in DOMAIN Following, NEW to \in Following[m]
  PROVE  /\ to \in Active \union {"ended"} /\ to \in Stage
         /\ \/ m \in Early /\ to \in Early \union {"ended"}
            \/ m \in Late \ {"ended", "error"} /\ to \in Late
            \/ m = "error" /\ to = "ended"
BY DEF Following, Stage, Active, Early, Late

LEMMA NoFaultYet ==
  ASSUME TypeOK, UNCHANGED faults \/ Fails
  PROVE  faults' = 0 => faults = 0
BY DEF TypeOK, Fails

LEMMA RaiseHolds ==
  ASSUME TypeOK, NEW p \in Pipelines,
         stage[p] \in Early \union {"asking"} \union (Late \ {"ended"}),
         Raise(p, stage[p]), UNCHANGED <<updates, handler, bot, user>>
  PROVE  PipelineStep(p)
<1> DEFINE to == IF stage[p] = "error" THEN "ended" ELSE "error"
<1>1. stage' = [stage EXCEPT ![p] = to] /\ (to = "ended" => ~running')
  BY DEF Raise, Goes, Finally, TypeOK
<1>2. to \in Stage /\ to \in Active \union {"ended"}
  BY DEF Stage, Active, Following
<1>3. Holds(p, to)
  BY DEF Holds, Early, Request, Late, bot
<1>4. faults' = 0 => faults = 0
  BY NoFaultYet DEF Raise
<1> HIDE DEF to
<1>5. QED
  BY <1>1, <1>2, <1>3, <1>4 DEF PipelineStep, bot

(* A step that goes on without a fault.                                     *)
LEMMA GoesHolds ==
  ASSUME TypeOK, NEW p \in Pipelines, NEW to, Goes(p, stage[p], to),
         \/ stage[p] \in Early /\ to \in Early
         \/ stage[p] \in Request /\ to \in Request
         \/ stage[p] \in Late \ {"ended", "error"} /\ to \in Late \ {"ended"},
         to # "created",
         UNCHANGED <<updates, handler, bot, user>>, UNCHANGED faults \/ Fails
  PROVE  PipelineStep(p)
<1>1. to \in Active /\ to \in Stage /\ to # "ended"
  BY DEF Stage, Active, Following, Early, Request, Late
<1>2. Holds(p, to)
  BY DEF Holds, bot
<1>3. QED
  BY <1>1, <1>2, NoFaultYet DEF PipelineStep, Goes, bot

LEMMA PipelineShape ==
  ASSUME TypeOK, NEW p \in Pipelines, Pipeline(p)
  PROVE  PipelineStep(p)
<1> USE DEF Early, Request, Late
<1>1. CASE Begin(p)
  BY <1>1, GoesHolds DEF Begin, Goes
<1>2. CASE Say(p)
  <2>1. stage[p] \in Early \union (Late \ {"ended"})
    BY <1>2 DEF Say, Following
  <2>2. CASE Raise(p, stage[p])
    BY <1>2, <2>1, <2>2, RaiseHolds DEF Say
  <2>3. CASE ~Raise(p, stage[p])
    <3>1. PICK to \in Following[stage[p]] : Goes(p, stage[p], to) /\ Finally(p)
      BY <1>2, <2>3 DEF Say
    <3>2. /\ to \in Active \union {"ended"} /\ to \in Stage
          /\ \/ stage[p] \in Early /\ to \in Early \union {"ended"}
             \/ stage[p] \in Late \ {"ended", "error"} /\ to \in Late
             \/ stage[p] = "error" /\ to = "ended"
      BY <1>2, AfterMessage DEF Say
    <3>3. Holds(p, to)
      BY <1>2, <3>2 DEF Holds, Say, bot
    <3>4. to = "ended" => ~running'
      BY <3>1 DEF Goes, Finally, TypeOK
    <3>5. QED
      BY <1>2, <2>3, <3>1, <3>2, <3>3, <3>4 DEF PipelineStep, Goes, Say, bot
  <2>4. QED
    BY <2>2, <2>3
<1>3. CASE Scan(p)
  <2>1. stage[p] = "scan"
    BY <1>3 DEF Scan, Goes, Raise
  <2>2. CASE Raise(p, "scan")
    BY <1>3, <2>1, <2>2, RaiseHolds DEF Scan
  <2>3. CASE ~Raise(p, "scan")
    BY <1>3, <2>1, <2>3, GoesHolds DEF Scan
  <2>4. QED
    BY <2>2, <2>3
<1>4. CASE Ask(p)
  <2>1. stage[p] = "analyze" /\ Asks(p, "asking") /\ "asking" \in Active /\ "asking" \in Stage
    BY <1>4 DEF Ask, Goes, Asks, Active, Stage
  <2>2. QED
    BY <1>4, <2>1 DEF Ask, Goes, PipelineStep
<1>5. CASE Asked(p)
  <2>1. stage[p] = "asking"
    BY <1>5 DEF Asked, Goes, Raise
  <2>2. CASE Raise(p, "asking")
    BY <1>5, <2>1, <2>2, RaiseHolds DEF Asked
  <2>3. CASE ~Raise(p, "asking")
    BY <1>5, <2>1, <2>3, GoesHolds DEF Asked
  <2>4. QED
    BY <2>2, <2>3
<1>6. CASE Wake(p)
  <2>1. PICK to \in {"execute", "stopped"} : Goes(p, "waiting", to)
    BY <1>6 DEF Wake
  <2>2. to \in Active /\ to \in Stage
    BY DEF Active, Stage, Following
  <2>3. Decides(p, to)
    BY <1>6, <2>1 DEF Wake, Goes, Forget, Decides
  <2>4. QED
    BY <1>6, <2>1, <2>2, <2>3 DEF Wake, Goes, PipelineStep
<1>7. CASE TimeOut(p)
  BY <1>7, GoesHolds DEF TimeOut, Goes
<1>8. CASE TimedOut(p)
  <2>1. stage[p] = "timingout"
    BY <1>8 DEF TimedOut, Goes, Raise
  <2>2. PICK to \in {"error", "stopped"} : stage' = [stage EXCEPT ![p] = to]
    BY <1>8, <2>1 DEF TimedOut, Goes, Raise
  <2>3. to \in Active /\ to \in Stage
    BY DEF Active, Stage, Following
  <2>4. Decides(p, to)
    BY <1>8, <2>1, <2>2 DEF TimedOut, Forget, Decides
  <2>5. faults' = 0 => faults = 0
    BY <1>8, NoFaultYet DEF TimedOut, Raise
  <2>6. QED
    BY <1>8, <2>2, <2>3, <2>4, <2>5 DEF TimedOut, PipelineStep
<1>9. CASE Execute(p)
  <2>1. stage[p] = "execute"
    BY <1>9 DEF Execute, Goes, Raise
  <2>2. CASE Raise(p, "execute")
    BY <1>9, <2>1, <2>2, RaiseHolds DEF Execute
  <2>3. CASE ~Raise(p, "execute")
    BY <1>9, <2>1, <2>3, GoesHolds DEF Execute
  <2>4. QED
    BY <2>2, <2>3
<1>10. QED
  BY <1>1, <1>2, <1>3, <1>4, <1>5, <1>6, <1>7, <1>8, <1>9 DEF Pipeline

(* What the steps outside of the pipelines do to their stages.              *)
LEMMA StageOutside ==
  ASSUME TypeOK
  PROVE  /\ \A p \in Pipelines : SendRun(p) =>
              stage' = [stage EXCEPT ![p] = "sent"] /\ stage[p] = "idle"
         /\ FinishRun => \E p \in Pipelines, to \in {"created", "refused"} :
              stage' = [stage EXCEPT ![p] = to] /\ stage[p] = "sent"
<1>1. FinishRun => handler.id \in Pipelines
  BY DEF FinishRun, TypeOK, Idle
<1>2. QED
  BY <1>1 DEF SendRun, FinishRun, Goes

(* For any number of pipelines that overlap, however each of them ends: the *)
(* flag that refuses a /run is down when none is at work.                   *)
THEOREM FlagFalls == Spec => []FlagFallsWithLast
<1>1. Init => FlagFallsWithLast
  BY DEF Init, FlagFallsWithLast
<1>2. TypeOK /\ FlagFallsWithLast /\ [Next]_vars => FlagFallsWithLast'
  <2> SUFFICES ASSUME TypeOK, FlagFallsWithLast, [Next]_vars PROVE FlagFallsWithLast'
    OBVIOUS
  <2>0. stage \in [Pipelines -> Stage]
    BY DEF TypeOK
  <2>1. CASE UNCHANGED <<stage, running>>
    BY <2>1 DEF FlagFallsWithLast
  <2>2. ASSUME NEW p \in Pipelines, SendRun(p) PROVE FlagFallsWithLast'
    BY <2>0, <2>2, StageOutside DEF SendRun, FlagFallsWithLast, Active, Following
  <2>3. CASE FinishRun
    BY <2>0, <2>3, StageOutside DEF FinishRun, FlagFallsWithLast, Active, Following
  <2>4. ASSUME NEW p \in Pipelines, Pipeline(p) PROVE FlagFallsWithLast'
    BY <2>0, <2>4, PipelineShape DEF PipelineStep, FlagFallsWithLast
  <2>5. CASE Crash
    BY <2>5 DEF Crash, FlagFallsWithLast
  <2>6. QED
    BY <2>1, <2>2, <2>3, <2>4, <2>5
       DEF Next, Dispatcher, Dispatch, FinishTap, Deliver, Tap, vars
<1>3. QED
  BY <1>1, <1>2, ApprovalTypeCorrect, PTL DEF Spec

(* A request that has a verdict is behind request_approval for good.        *)
RequestInv ==
  /\ PendingExplained
  /\ \A p \in Pipelines : verdict[p] # Unset => stage[p] \in Late \union {"lost"}

LEMMA RequestHolds == Spec => []RequestInv
<1>1. Init => RequestInv
  BY DEF Init, RequestInv, PendingExplained
<1>2. TypeOK /\ RequestInv /\ [Next]_vars => RequestInv'
  <2> SUFFICES ASSUME TypeOK, RequestInv, [Next]_vars PROVE RequestInv'
    OBVIOUS
  <2> USE DEF RequestInv, PendingExplained
  <2>0. stage \in [Pipelines -> Stage] /\ pending \subseteq Pipelines
          /\ verdict \in [Pipelines -> Choices \union {"timeout", Unset}]
    BY DEF TypeOK
  <2>1. CASE UNCHANGED <<stage, pending, verdict>>
    BY <2>1
  <2>2. ASSUME NEW p \in Pipelines, SendRun(p) PROVE RequestInv'
    BY <2>0, <2>2, StageOutside DEF SendRun, bot, Late
  <2>3. CASE FinishRun
    BY <2>0, <2>3, StageOutside DEF FinishRun, bot, Late
  <2>4. ASSUME NEW p \in Pipelines, Pipeline(p) PROVE RequestInv'
    <3>1. PICK to \in Stage :
            /\ stage' = [stage EXCEPT ![p] = to]
            /\ \/ Asks(p, to) /\ verdict' = verdict
               \/ Holds(p, to) /\ verdict' = verdict
               \/ Decides(p, to)
      BY <2>4, PipelineShape DEF PipelineStep
    <3>2. \A q \in Pipelines : stage'[q] = IF q = p THEN to ELSE stage[q]
      BY <2>0, <3>1
    <3>3. \A q \in Pipelines : q # p => verdict'[q] = verdict[q]
      BY <2>0, <3>1 DEF Decides
    <3>4. CASE Asks(p, to) /\ verdict' = verdict
      <4>1. verdict[p] = Unset
        BY <3>4 DEF Asks, Late
      <4>2. QED
        BY <2>0, <3>2, <3>4, <4>1 DEF Asks
    <3>5. CASE Holds(p, to) /\ verdict' = verdict
      BY <2>0, <3>2, <3>5 DEF Holds, Early, Request, Late
    <3>6. CASE Decides(p, to)
      BY <2>0, <3>2, <3>3, <3>6 DEF Decides, Late
    <3>7. QED
      BY <3>1, <3>4, <3>5, <3>6
  <2>5. CASE Crash
    <3>1. pending' = {} /\ verdict' = verdict
      BY <2>5 DEF Crash
    <3>2. \A p \in Pipelines : stage[p] \in Late \union {"lost"} =>
            stage'[p] \in Late \union {"lost"}
      BY <2>5 DEF Crash
    <3>3. QED
      BY <3>1, <3>2
  <2>6. QED
    BY <2>1, <2>2, <2>3, <2>4, <2>5
       DEF Next, Dispatcher, Dispatch, FinishTap, Deliver, Tap, vars, bot
<1>3. QED
  BY <1>1, <1>2, ApprovalTypeCorrect, PTL DEF Spec

(* For any number of requests: one that was decided has left _pending, and  *)
(* one stays there for good only when its message could not be sent.        *)
THEOREM PendingCleared == Spec => []PendingExplained
BY RequestHolds, PTL DEF RequestInv

-----------------------------------------------------------------------------
(* What the message says                                                    *)

Handles(p) == handler.do \in Choices /\ handler.id = p

(* The handler of the decision of p will edit the message, or has done so.  *)
ShownInv ==
  /\ \A p \in Pipelines : taps[p] # <<>> => shown[p] # Unset
  /\ \A p \in Pipelines : verdict[p] \in Choices => verdict[p] = approved[p]
  /\ Idle # handler /\ handler.do \in Choices /\ handler.accepted =>
       approved[handler.id] = handler.do
  /\ faults = 0 => \A p \in Pipelines : approved[p] \in Choices =>
       \/ handler.accepted /\ Handles(p)
       \/ shown[p] = approved[p]

LEMMA IdleIsNoTap == Idle.do \notin Choices /\ Idle.do # "run"
BY DEF Idle, Choices

LEMMA TappedWasShown ==
  ASSUME TypeOK, ShownInv, GateInv, NEW p \in Pipelines, approved[p] \in Choices
  PROVE  shown[p] # Unset
<1>1. taps[p] \in Seq(Choices) /\ Tapped(p) # {}
  BY DEF TypeOK, GateInv, RecordedTapped
<1>2. taps[p] # <<>>
  BY <1>1 DEF Tapped
<1>3. QED
  BY <1>2 DEF ShownInv

(* Steps that touch neither the handler nor the user nor the decisions.     *)
LEMMA ShownUntouched ==
  ASSUME ShownInv, UNCHANGED <<handler, approved, user>>,
         faults' = 0 => faults = 0,
         \A p \in Pipelines : verdict'[p] \in Choices =>
           verdict'[p] = verdict[p] \/ verdict'[p] = approved[p]
  PROVE  ShownInv'
BY DEF ShownInv, Handles, user

LEMMA ShownNext ==
  TypeOK /\ GateInv /\ RequestInv /\ ShownInv /\ [Next]_vars => ShownInv'
<1> SUFFICES ASSUME TypeOK, GateInv, RequestInv, ShownInv, [Next]_vars PROVE ShownInv'
  OBVIOUS
<1> USE IdleIsNoTap
<1>0. /\ approved \in [Pipelines -> Choices \union {Unset}]
      /\ verdict \in [Pipelines -> Choices \union {"timeout", Unset}]
      /\ shown \in [Pipelines -> Choices \union {"asked", Unset}]
      /\ taps \in [Pipelines -> Seq(Choices)]
      /\ handler \in {Idle} \union [do : {"run"} \union Choices, id : Pipelines,
                                    accepted : BOOLEAN]
  BY DEF TypeOK
<1>1. ASSUME NEW p \in Pipelines, SendRun(p) PROVE ShownInv'
  BY <1>1, ShownUntouched DEF SendRun, bot
<1>2. ASSUME NEW p \in Pipelines, NEW choice \in Choices, Tap(p, choice) PROVE ShownInv'
  <2>1. /\ shown[p] = "asked" /\ taps' = [taps EXCEPT ![p] = Append(@, choice)]
        /\ UNCHANGED <<handler, approved, verdict, shown, faults>>
    BY <1>2 DEF Tap, bot
  <2>2. \A q \in Pipelines : taps'[q] # <<>> => shown[q] # Unset
    BY <1>0, <2>1 DEF ShownInv, Unset
  <2>3. QED
    BY <2>1, <2>2 DEF ShownInv, Handles
<1>3. ASSUME NEW p \in Pipelines, Deliver(p) PROVE ShownInv'
  <2>1. /\ shown[p] = Unset /\ shown' = [shown EXCEPT ![p] = "asked"]
        /\ UNCHANGED <<handler, approved, verdict, taps, faults>>
    BY <1>3 DEF Deliver, bot
  <2>2. approved[p] \notin Choices
    BY <2>1, TappedWasShown
  <2>3. \A q \in Pipelines : shown'[q] = IF q = p THEN "asked" ELSE shown[q]
    BY <1>0, <2>1
  <2>4. QED
    BY <2>1, <2>2, <2>3 DEF ShownInv, Handles, Unset
<1>4. ASSUME NEW p \in Pipelines, Pipeline(p) PROVE ShownInv'
  <2>1. PipelineStep(p)
    BY <1>4, PipelineShape
  <2>2. \A q \in Pipelines : verdict'[q] \in Choices =>
          verdict'[q] = verdict[q] \/ verdict'[q] = approved[q]
    BY <1>0, <2>1 DEF PipelineStep, Decides, Choices
  <2>3. QED
    BY <2>1, <2>2, ShownUntouched DEF PipelineStep
<1>5. CASE Dispatch
  <2> DEFINE u == Head(updates)
  <2>1. /\ handler = Idle /\ UNCHANGED <<verdict, shown, taps, faults>>
        /\ handler' = [do |-> u.do, id |-> u.id, accepted |-> Accepts(u)]
        /\ approved' = IF u.do \in Choices /\ Accepts(u)
                       THEN [approved EXCEPT ![u.id] = u.do] ELSE approved
    BY <1>5 DEF Dispatch, user
  <2>2. u \in Updates
    BY <1>5 DEF Dispatch, TypeOK
  <2>3. u.id \in Pipelines /\ u.do \in {"run"} \union Choices
    BY <2>2 DEF Updates
  <2>4. u.do \in Choices => (Accepts(u) <=> u.id \in pending)
    BY DEF Accepts, Choices
  <2>5. u.id \in pending => verdict[u.id] = Unset
    BY DEF RequestInv, PendingExplained
  <2>6. handler'.do = u.do /\ handler'.id = u.id /\ handler'.accepted = Accepts(u)
    BY <2>1
  <2> HIDE DEF u
  <2>7. CASE u.do \in Choices /\ Accepts(u)
    <3>1. \A q \in Pipelines : approved'[q] = IF q = u.id THEN u.do ELSE approved[q]
      BY <1>0, <2>1, <2>3, <2>7
    <3>2. verdict[u.id] \notin Choices
      BY <2>4, <2>5, <2>7 DEF Unset, Choices
    <3>3. QED
      BY <2>1, <2>3, <2>6, <2>7, <3>1, <3>2 DEF ShownInv, Handles
  <2>8. CASE ~(u.do \in Choices /\ Accepts(u))
    BY <2>1, <2>6, <2>8 DEF ShownInv, Handles
  <2>9. QED
    BY <2>7, <2>8
<1>6. CASE FinishRun
  <2>1. handler.do = "run" /\ handler' = Idle /\ UNCHANGED <<approved, verdict, shown, taps>>
    BY <1>6 DEF FinishRun, bot, user
  <2>2. faults' = 0 => faults = 0
    BY <1>6, NoFaultYet DEF FinishRun
  <2>3. QED
    BY <2>1, <2>2 DEF ShownInv, Handles, Choices
<1>7. CASE FinishTap
  <2>1. /\ handler.do \in Choices /\ handler' = Idle /\ UNCHANGED <<approved, verdict, taps>>
        /\ handler \in [do : {"run"} \union Choices, id : Pipelines, accepted : BOOLEAN]
    BY <1>0, <1>7 DEF FinishTap, bot
  <2>2. handler.id \in Pipelines /\ handler # Idle
    BY <2>1
  <2>3. CASE Fails /\ UNCHANGED shown
    <3>1. faults' # 0
      BY <2>3 DEF Fails, TypeOK
    <3>2. QED
      BY <2>1, <2>3, <3>1 DEF ShownInv
  <2>4. CASE UNCHANGED faults /\ handler.accepted
    <3>1. shown' = [shown EXCEPT ![handler.id] = handler.do] \/ Fails
      BY <1>7, <2>4 DEF FinishTap
    <3>2. ~Fails
      BY <2>4 DEF Fails, TypeOK
    <3>3. \A q \in Pipelines : shown'[q] = IF q = handler.id THEN handler.do ELSE shown[q]
      BY <1>0, <2>2, <3>1, <3>2
    <3>4. approved[handler.id] = handler.do
      BY <2>1, <2>2, <2>4 DEF ShownInv
    <3>5. QED
      BY <2>1, <2>4, <3>3, <3>4 DEF ShownInv, Handles, Unset, Choices
  <2>5. CASE UNCHANGED faults /\ ~handler.accepted /\ UNCHANGED shown
    BY <2>1, <2>5 DEF ShownInv, Handles
  <2>6. QED
    BY <1>7, <2>3, <2>4, <2>5 DEF FinishTap
<1>8. CASE Crash
  <2>1. faults' # 0 /\ handler' = Idle /\ UNCHANGED <<approved, verdict, shown, taps>>
    BY <1>8 DEF Crash, Fails, TypeOK, user
  <2>2. QED
    BY <2>1 DEF ShownInv
<1>9. CASE UNCHANGED vars
  BY <1>9, ShownUntouched DEF vars, bot
<1>10. QED
  BY <1>1, <1>2, <1>3, <1>4, <1>5, <1>6, <1>7, <1>8, <1>9 DEF Next, Dispatcher

(* For any number of requests and taps, as long as nothing fails: the       *)
(* message of a request says what request_approval returned for it.         *)
THEOREM MessageSaysVerdict == Spec => []ShownMatchesVerdict
<1>1. Init => ShownInv
  BY IdleIsNoTap DEF Init, ShownInv, Unset, Choices
<1>2. ShownInv => ShownMatchesVerdict
  BY DEF ShownInv, ShownMatchesVerdict, Handles
<1>3. QED
  BY <1>1, <1>2, ShownNext, ApprovalTypeCorrect, GateHolds, RequestHolds, PTL DEF Spec

-----------------------------------------------------------------------------
(* The decision a report rests on.                                          *)

Closed == Late \union {"lost"}

(* Whoever writes a report, or has, was let through by request_approval.    *)
AnsweredInv ==
  \A p \in Pipelines :
    stage[p] = "execute" \/ p \in saved => verdict[p] = "approve" /\ stage[p] \in Closed

LEMMA OnlyWakeExecutes ==
  ASSUME TypeOK, NEW p \in Pipelines, Pipeline(p), ~Wake(p)
  PROVE  \A q \in Pipelines : stage'[q] = "execute" => stage[q] = "execute"
<1>1. CASE Begin(p) \/ Scan(p) \/ Ask(p) \/ Asked(p) \/ TimeOut(p) \/ TimedOut(p) \/ Execute(p)
  BY <1>1, GoesElsewhere, RaiseElsewhere
     DEF Begin, Scan, Ask, Asked, TimeOut, TimedOut, Execute
<1>2. CASE Say(p)
  <2>1. CASE Raise(p, stage[p])
    BY <2>1, RaiseElsewhere
  <2>2. CASE ~Raise(p, stage[p])
    <3>1. PICK to \in Following[stage[p]] : Goes(p, stage[p], to)
      BY <1>2, <2>2 DEF Say
    <3>2. to # "execute"
      BY <1>2, FollowingStages DEF Say
    <3>3. QED
      BY <3>1, <3>2, GoesElsewhere
  <2>3. QED
    BY <2>1, <2>2
<1>3. QED
  BY <1>1, <1>2 DEF Pipeline

LEMMA OnlyExecuteSaves ==
  ASSUME TypeOK, NEW p \in Pipelines, Pipeline(p)
  PROVE  saved' = saved \/ (stage[p] = "execute" /\ saved' = saved \union {p})
BY DEF Pipeline, Begin, Say, Scan, Ask, Asked, Wake, TimeOut, TimedOut, Execute, Goes, Raise

LEMMA AnsweredStep ==
  ASSUME TypeOK, AnsweredInv, NEW p \in Pipelines, Pipeline(p)
  PROVE  AnsweredInv'
<1>1. PICK to \in Stage :
        /\ stage' = [stage EXCEPT ![p] = to]
        /\ \/ Asks(p, to) /\ verdict' = verdict
           \/ Holds(p, to) /\ verdict' = verdict
           \/ Decides(p, to)
  BY PipelineShape DEF PipelineStep
<1>2. /\ stage'[p] = to
      /\ \A q \in Pipelines \ {p} : stage'[q] = stage[q] /\ verdict'[q] = verdict[q]
  BY <1>1 DEF Decides, TypeOK
<1>3. \A q \in Pipelines \ {p} : q \in saved' => q \in saved
  BY OnlyExecuteSaves
<1>4. ASSUME stage[p] \in Closed PROVE stage'[p] \in Closed /\ verdict'[p] = verdict[p]
  BY <1>1, <1>2, <1>4 DEF Asks, Holds, Decides, Closed, Early, Request, Late
<1>5. CASE stage[p] = "execute" \/ p \in saved
  <2>1. verdict[p] = "approve" /\ stage[p] \in Closed
    BY <1>5 DEF AnsweredInv
  <2>2. QED
    BY <1>2, <1>3, <1>4, <2>1 DEF AnsweredInv
<1>6. CASE ~(stage[p] = "execute" \/ p \in saved) /\ Wake(p)
  <2>1. p \notin saved'
    BY <1>6, OnlyExecuteSaves
  <2>2. stage'[p] = "execute" => verdict'[p] = "approve"
    BY <1>6 DEF Wake, Goes, TypeOK
  <2>3. "execute" \in Closed
    BY DEF Closed, Late
  <2>4. QED
    BY <1>2, <1>3, <2>1, <2>2, <2>3 DEF AnsweredInv
<1>7. CASE ~(stage[p] = "execute" \/ p \in saved) /\ ~Wake(p)
  <2>1. p \notin saved' /\ stage'[p] # "execute"
    BY <1>7, OnlyExecuteSaves, OnlyWakeExecutes
  <2>2. QED
    BY <1>2, <1>3, <2>1 DEF AnsweredInv
<1>8. QED
  BY <1>5, <1>6, <1>7

LEMMA AnsweredHolds == Spec => []AnsweredInv
<1>1. Init => AnsweredInv
  BY DEF Init, AnsweredInv
<1>2. TypeOK /\ AnsweredInv /\ [Next]_vars => AnsweredInv'
  <2> SUFFICES ASSUME TypeOK, AnsweredInv, [Next]_vars PROVE AnsweredInv'
    OBVIOUS
  <2>1. ASSUME NEW p \in Pipelines, Pipeline(p) PROVE AnsweredInv'
    BY <2>1, AnsweredStep
  <2>2. ASSUME NEW p \in Pipelines, SendRun(p) PROVE AnsweredInv'
    <3>1. stage' = [stage EXCEPT ![p] = "sent"] /\ UNCHANGED <<verdict, saved>>
          /\ stage[p] \notin Closed
      BY <2>2, StageOutside DEF SendRun, bot, Closed, Late
    <3>2. QED
      BY <3>1 DEF AnsweredInv, TypeOK
  <2>3. CASE FinishRun
    <3>1. PICK p \in Pipelines, to \in {"created", "refused"} :
            stage' = [stage EXCEPT ![p] = to] /\ stage[p] = "sent"
      BY <2>3, StageOutside
    <3>2. UNCHANGED <<verdict, saved>> /\ stage[p] \notin Closed
      BY <2>3, <3>1 DEF FinishRun, bot, Closed, Late
    <3>3. QED
      BY <3>1, <3>2 DEF AnsweredInv, TypeOK
  <2>4. CASE Crash
    <3>1. \A p \in Pipelines : stage'[p] = stage[p] \/ stage'[p] = "lost"
      BY <2>4 DEF Crash
    <3>2. "lost" \in Closed /\ UNCHANGED <<verdict, saved>>
      BY <2>4 DEF Crash, Closed
    <3>3. QED
      BY <3>1, <3>2 DEF AnsweredInv
  <2>5. CASE UNCHANGED <<stage, verdict, saved>>
    BY <2>5 DEF AnsweredInv
  <2>6. QED
    BY <2>1, <2>2, <2>3, <2>4, <2>5 DEF Next, Dispatcher, Dispatch, FinishTap, Deliver, Tap,
       bot, user, vars
<1>3. QED
  BY <1>1, <1>2, ApprovalTypeCorrect, PTL DEF Spec

(* A report is written only for a pipeline whose own message the user       *)
(* tapped to approve and whose request returned that decision, never one of *)
(* another request, a stale one, a default or one that came after the       *)
(* timeout, whatever fails or crashes on the way.                           *)
THEOREM ReportsApproved == Spec => []ReportOnlyIfApproved
<1>1. TypeOK /\ GateInv /\ AnsweredInv => ReportOnlyIfApproved
  BY DEF GateInv, SavedTapped, AnsweredInv, ReportOnlyIfApproved, TypeOK
<1>2. QED
  BY <1>1, ApprovalTypeCorrect, GateHolds, AnsweredHolds, PTL
=============================================================================
