---------------------------- MODULE WorkerProofs ----------------------------
(***************************************************************************)
(* Proofs about Worker for any requests, any task ids they carry, any      *)
(* number of slots and places in the queue, and any number of faults: the  *)
(* types and the slots, then the task table, then the promises of          *)
(* TaskAdmission that are about safety.                                    *)
(***************************************************************************)
EXTENDS Worker, TLAPS, FiniteSetTheorems

USE RequestsAssumption, TaskOfAssumption, SizesAssumption, BoundsAssumption

-----------------------------------------------------------------------------
(* Type correctness.                                                        *)

LEMMA RunningFinite ==
  /\ IsFiniteSet(Running)
  /\ Cardinality(Running) \in Nat
<1>1. Running \subseteq Requests
  BY DEF Running
<1>2. IsFiniteSet(Running)
  BY <1>1, FS_Subset
<1>3. QED
  BY <1>2, FS_CardinalityType

(* The shapes of steps: what the helpers do to the types.                   *)
LEMMA MoveType ==
  ASSUME TypeOK, NEW r \in Requests, NEW from, NEW to \in PC, Move(r, from, to)
  PROVE  pc' \in [Requests -> PC]
BY DEF TypeOK, Move

LEMMA FaultType ==
  ASSUME TypeOK, Fault
  PROVE  faults' \in Nat
BY DEF TypeOK, Fault

RowType == [status : Status \union {"absent"}, attempts : Nat, summary : BOOLEAN]

LEMMA UpdateType ==
  ASSUME TypeOK, NEW t \in Tasks, NEW new \in RowType, Update(t, new)
  PROVE  row' \in [Tasks -> RowType]
BY DEF TypeOK, Update, RowType

LEMMA ReleaseType ==
  ASSUME TypeOK, Release
  PROVE  slots' \in Nat /\ up' = up /\ loop' = loop /\ queue' = queue
BY DEF TypeOK, Release

(* Every variable keeps its type in every reachable state, for every value  *)
(* of the constants.                                                        *)
THEOREM TypeCorrect == Spec => []TypeOK
<1> USE DEF PC, Live, Active, Settled, Outcomes, Unset, Replies, Status, memory
<1>1. Init => TypeOK
  BY DEF Init, TypeOK, Absent
<1>2. TypeOK /\ [Next]_vars => TypeOK'
  <2> SUFFICES ASSUME TypeOK, [Next]_vars PROVE TypeOK'
    OBVIOUS
  <2>1. ASSUME NEW r \in Requests, HandleRun(r) PROVE TypeOK'
    <3>1. row' \in [Tasks -> RowType]
      <4>1. row' = row \/ Insert(TaskOf[r])
        BY <2>1 DEF HandleRun
      <4>2. row \in [Tasks -> RowType] /\ Pending \in RowType
        BY DEF TypeOK, RowType, Pending
      <4>3. QED
        BY <4>1, <4>2 DEF Insert
    <3>2. pc' \in [Requests -> PC]
      BY <2>1, MoveType DEF HandleRun
    <3>3. faults' \in Nat
      BY <2>1, FaultType DEF HandleRun, TypeOK
    <3>4. QED
      BY <2>1, <3>1, <3>2, <3>3 DEF HandleRun, TypeOK, RowType
  <2>2. ASSUME NEW r \in Requests, PutNowait(r) PROVE TypeOK'
    <3>1. pc' \in [Requests -> PC]
      BY <2>2, MoveType DEF PutNowait
    <3>2. queue' \in Seq(Requests)
      <4>1. Append(queue, r) \in Seq(Requests) /\ queue \in Seq(Requests)
        BY DEF TypeOK
      <4>2. queue' = Append(queue, r) \/ queue' = queue
        BY <2>2 DEF PutNowait
      <4>3. QED
        BY <4>1, <4>2
    <3>3. QED
      BY <2>2, <3>1, <3>2 DEF PutNowait, TypeOK
  <2>3. CASE Acquire
    BY <2>3 DEF Acquire, TypeOK
  <2>4. CASE GetJob
    <3>1. queue \in Seq(Requests) /\ queue # <<>>
      BY <2>4 DEF GetJob, TypeOK
    <3>2. Head(queue) \in Requests /\ Tail(queue) \in Seq(Requests)
      BY <3>1
    <3>3. pc' \in [Requests -> PC]
      BY <2>4, <3>2, MoveType DEF GetJob
    <3>4. QED
      BY <2>4, <3>2, <3>3 DEF GetJob, Move, TypeOK
  <2>5. ASSUME NEW r \in Requests, SetRunning(r) PROVE TypeOK'
    <3>1. pc' \in [Requests -> PC] /\ up' = up /\ loop' = loop /\ queue' = queue
      BY <2>5, MoveType, ReleaseType DEF SetRunning, Raise
    <3>2. row[TaskOf[r]] \in RowType
      BY DEF TypeOK, RowType
    <3>3. [status |-> "running", attempts |-> row[TaskOf[r]].attempts + 1,
           summary |-> row[TaskOf[r]].summary] \in RowType
      BY <3>2 DEF RowType
    <3>4. row' \in [Tasks -> RowType]
      BY <2>5, <3>3, UpdateType DEF SetRunning, TypeOK, RowType
    <3>5. slots' \in Nat /\ faults' \in Nat
      BY <2>5, ReleaseType, FaultType DEF SetRunning, Raise, TypeOK
    <3>6. QED
      BY <2>5, <3>1, <3>4, <3>5 DEF SetRunning, TypeOK, RowType
  <2>6. ASSUME NEW r \in Requests, NotifyStart(r) PROVE TypeOK'
    <3>1. pc' \in [Requests -> PC] /\ up' = up /\ loop' = loop /\ queue' = queue
      BY <2>6, MoveType, ReleaseType DEF NotifyStart, Raise
    <3>2. slots' \in Nat /\ faults' \in Nat
      BY <2>6, ReleaseType, FaultType DEF NotifyStart, Raise, TypeOK
    <3>3. QED
      BY <2>6, <3>1, <3>2 DEF NotifyStart, TypeOK
  <2>7. ASSUME NEW r \in Requests, RunAgent(r) PROVE TypeOK'
    <3>1. pc' \in [Requests -> PC]
      BY <2>7, MoveType DEF RunAgent
    <3>2. QED
      BY <2>7, <3>1 DEF RunAgent, TypeOK
  <2>8. ASSUME NEW r \in Requests, SetDone(r) PROVE TypeOK'
    <3>1. pc' \in [Requests -> PC] /\ up' = up /\ loop' = loop /\ queue' = queue
      BY <2>8, MoveType, ReleaseType DEF SetDone, Raise
    <3>2. row[TaskOf[r]] \in RowType
      BY DEF TypeOK, RowType
    <3>3. [row[TaskOf[r]] EXCEPT !.status = FinalStatus(outcome[r])] \in RowType
      BY <3>2 DEF RowType, FinalStatus
    <3>4. row' \in [Tasks -> RowType]
      BY <2>8, <3>3, UpdateType DEF SetDone, TypeOK, RowType
    <3>5. slots' \in Nat /\ faults' \in Nat
      BY <2>8, ReleaseType, FaultType DEF SetDone, Raise, TypeOK
    <3>6. QED
      BY <2>8, <3>1, <3>4, <3>5 DEF SetDone, TypeOK, RowType
  <2>9. ASSUME NEW r \in Requests, Report(r) PROVE TypeOK'
    <3>1. pc' \in [Requests -> PC] /\ up' = up /\ loop' = loop /\ queue' = queue
      BY <2>9, MoveType, ReleaseType DEF Report, Raise
    <3>2. slots' \in Nat /\ faults' \in Nat
      BY <2>9, ReleaseType, FaultType DEF Report, Raise, TypeOK
    <3>3. told' \in [Requests -> Replies \union {Unset}]
      BY <2>9 DEF Report, TypeOK
    <3>4. QED
      BY <2>9, <3>1, <3>2, <3>3 DEF Report, TypeOK
  <2>10. ASSUME NEW r \in Requests, StoreSummary(r) PROVE TypeOK'
    <3>1. pc' \in [Requests -> PC] /\ up' = up /\ loop' = loop /\ queue' = queue
      BY <2>10, MoveType, ReleaseType DEF StoreSummary
    <3>2. row[TaskOf[r]] \in RowType
      BY DEF TypeOK, RowType
    <3>3. [row[TaskOf[r]] EXCEPT !.summary = TRUE] \in RowType
      BY <3>2 DEF RowType
    <3>4. row' \in [Tasks -> RowType]
      BY <2>10, <3>3, UpdateType DEF StoreSummary, TypeOK, RowType
    <3>5. QED
      BY <2>10, <3>1, <3>4, ReleaseType DEF StoreSummary, TypeOK, RowType
  <2>11. CASE Crash
    <3>1. faults' \in Nat
      BY <2>11, FaultType DEF Crash
    <3>2. QED
      BY <2>11, <3>1 DEF Crash, TypeOK
  <2>12. CASE Restart
    BY <2>12 DEF Restart, TypeOK
  <2>13. CASE UNCHANGED vars
    BY <2>13 DEF vars, TypeOK
  <2>14. QED
    BY <2>1, <2>2, <2>3, <2>4, <2>5, <2>6, <2>7, <2>8, <2>9, <2>10, <2>11,
       <2>12, <2>13 DEF Next, Job
<1>3. QED
  BY <1>1, <1>2, PTL DEF Spec

-----------------------------------------------------------------------------
(* Slots.                                                                   *)

(* What Cardinality(Running) does when one request moves.                   *)
LEMMA StaysRunning ==
  ASSUME TypeOK, NEW r \in Requests, NEW from, NEW to, Move(r, from, to),
         from \in Active <=> to \in Active
  PROVE  Running' = Running
BY DEF TypeOK, Running, Move

LEMMA StartsRunning ==
  ASSUME TypeOK, NEW r \in Requests, NEW from, NEW to, Move(r, from, to),
         from \notin Active, to \in Active
  PROVE  Cardinality(Running') = Cardinality(Running) + 1
<1>1. r \notin Running /\ Running' = Running \union {r}
  BY DEF TypeOK, Running, Move
<1>2. QED
  BY <1>1, RunningFinite, FS_AddElement

LEMMA StopsRunning ==
  ASSUME TypeOK, NEW r \in Requests, NEW from, NEW to, Move(r, from, to),
         from \in Active, to \notin Active
  PROVE  Cardinality(Running') = Cardinality(Running) - 1
<1>1. r \in Running /\ Running' = Running \ {r}
  BY DEF TypeOK, Running, Move
<1>2. QED
  BY <1>1, RunningFinite, FS_RemoveElement

LEMMA RaiseStops ==
  ASSUME TypeOK, NEW r \in Requests, NEW from \in Active, Raise(r, from)
  PROVE  /\ Cardinality(Running') = Cardinality(Running) - 1
         /\ slots' = slots + 1 /\ up' = up /\ loop' = loop
<1>1. Move(r, from, "aborted") /\ "aborted" \notin Active
  BY DEF Raise, Active
<1>2. QED
  BY <1>1, StopsRunning DEF Raise, Release

(* A dead process runs nothing, so that main() may hand out every permit.   *)
DownIsIdle == ~up => Running = {}

SlotInv == SlotConservation /\ DownIsIdle

(* Neither an early raise, nor a crash at any point, nor the restart loses  *)
(* or duplicates a permit of the semaphore: SlotConservation, with          *)
(* DownIsIdle to carry it over a restart, is inductive.                     *)
LEMMA SlotInvariant == Spec => []SlotInv
<1> USE DEF SlotInv, SlotConservation, DownIsIdle, Held
<1>1. Init => SlotInv
  <2> SUFFICES ASSUME Init PROVE SlotInv
    OBVIOUS
  <2>1. Running = {}
    BY DEF Init, Running, Active
  <2>2. QED
    BY <2>1, FS_EmptySet DEF Init
<1>2. TypeOK /\ SlotInv /\ [Next]_vars => SlotInv'
  <2> SUFFICES ASSUME TypeOK, SlotInv, [Next]_vars PROVE SlotInv'
    OBVIOUS
  <2> USE RunningFinite
  <2>1. ASSUME NEW r \in Requests, HandleRun(r) PROVE SlotInv'
    <3>1. Running' = Running
      BY <2>1, StaysRunning DEF HandleRun, Active
    <3>2. QED
      BY <2>1, <3>1 DEF HandleRun, memory
  <2>2. ASSUME NEW r \in Requests, PutNowait(r) PROVE SlotInv'
    <3>1. Running' = Running
      BY <2>2, StaysRunning DEF PutNowait, Active
    <3>2. QED
      BY <2>2, <3>1 DEF PutNowait
  <2>3. CASE Acquire
    BY <2>3 DEF Acquire, Running, TypeOK
  <2>4. CASE GetJob
    <3>1. Head(queue) \in Requests
      BY <2>4 DEF GetJob, TypeOK
    <3>2. Cardinality(Running') = Cardinality(Running) + 1
      BY <2>4, <3>1, StartsRunning DEF GetJob, Active
    <3>3. QED
      BY <2>4, <3>2 DEF GetJob, Move, TypeOK
  <2>5. ASSUME NEW r \in Requests, Job(r), Running' = Running, UNCHANGED memory,
               up
        PROVE  SlotInv'
    BY <2>5 DEF memory
  <2>6. ASSUME NEW r \in Requests, up, up' = up, loop' = loop,
               slots' = slots + 1,
               Cardinality(Running') = Cardinality(Running) - 1
        PROVE  SlotInv'
    <3>1. slots \in Nat /\ Held \in Nat /\ Held' = Held
      BY <2>6 DEF TypeOK
    <3> HIDE DEF Held
    <3>2. slots + Held + Cardinality(Running) = MaxConcurrent
      BY <2>6
    <3>3. slots' + Held' + Cardinality(Running') = MaxConcurrent
      BY <2>6, <3>1, <3>2
    <3>4. QED
      BY <2>6, <3>3
  <2>7. ASSUME NEW r \in Requests, Job(r) PROVE SlotInv'
    <3>1. up
      BY <2>7 DEF Job, SetRunning, NotifyStart, RunAgent, SetDone, Report,
                  StoreSummary, Raise, Move
    <3>2. CASE \E from \in Active : Raise(r, from)
      BY <3>1, <3>2, <2>6, RaiseStops
    <3>3. CASE StoreSummary(r)
      <4>1. Cardinality(Running') = Cardinality(Running) - 1
        BY <3>3, StopsRunning DEF StoreSummary, Active
      <4>2. QED
        BY <3>1, <3>3, <4>1, <2>6 DEF StoreSummary, Release
    <3>4. CASE \E from, to \in Active : Move(r, from, to) /\ UNCHANGED memory
      <4>1. Running' = Running
        BY <3>4, StaysRunning
      <4>2. QED
        BY <2>5, <2>7, <3>1, <3>4, <4>1
    <3>5. \/ \E from \in Active : Raise(r, from)
          \/ StoreSummary(r)
          \/ \E from, to \in Active : Move(r, from, to) /\ UNCHANGED memory
      BY <2>7 DEF Job, SetRunning, NotifyStart, RunAgent, SetDone, Report, Active
    <3>6. QED
      BY <3>2, <3>3, <3>4, <3>5
  <2>8. CASE Crash
    <3>1. Running' = {}
      BY <2>8 DEF Crash, Running, Live, Active, TypeOK
    <3>2. QED
      BY <2>8, <3>1 DEF Crash
  <2>9. CASE Restart
    <3>1. Running' = {}
      BY <2>9 DEF Restart, Running
    <3>2. QED
      BY <2>9, <3>1, FS_EmptySet DEF Restart
  <2>10. CASE UNCHANGED vars
    BY <2>10 DEF vars, Running
  <2>11. QED
    BY <2>1, <2>2, <2>3, <2>4, <2>7, <2>8, <2>9, <2>10 DEF Next
<1>3. QED
  BY <1>1, <1>2, TypeCorrect, PTL DEF Spec

(* However a job ends, its permit comes back exactly once.                  *)
THEOREM SlotsConserved == Spec => []SlotConservation
BY SlotInvariant, PTL DEF SlotInv

(* The limit of WORKER_MAX_CONCURRENT jobs holds whatever else happens.     *)
THEOREM AtMostMaxConcurrent == Spec => []ConcurrencyBound
<1>1. TypeOK /\ SlotInv => ConcurrencyBound
  <2> SUFFICES ASSUME TypeOK, SlotInv PROVE ConcurrencyBound
    OBVIOUS
  <2>1. CASE up
    BY <2>1, RunningFinite
       DEF TypeOK, SlotInv, SlotConservation, Held, ConcurrencyBound
  <2>2. CASE ~up
    <3>1. Cardinality(Running) = 0
      BY <2>2, FS_EmptySet DEF SlotInv, DownIsIdle
    <3>2. QED
      BY <3>1 DEF ConcurrencyBound
  <2>3. QED
    BY <2>1, <2>2
<1>2. QED
  BY <1>1, TypeCorrect, SlotInvariant, PTL

-----------------------------------------------------------------------------
(***************************************************************************)
(* The task table: what a row says of the requests for its task.           *)
(***************************************************************************)

-----------------------------------------------------------------------------
(* The shapes of steps                                                      *)

Table == <<pc, outcome, told, row>>

(* The writes of _handle_run and _process_task, each at its place.          *)
Records(r) ==
  pc[r] = "new" /\ pc'[r] \in {"created", "error"} /\ Insert(TaskOf[r])

Writes(r) ==
  \E new \in RowType :
    /\ Update(TaskOf[r], new)
    /\ \/ pc[r] = "spawned" /\ pc'[r] = "starting" /\ new.status = "running"
       \/ /\ pc[r] = "finishing" /\ pc'[r] = "reporting"
          /\ new.status = FinalStatus(outcome[r])
       \/ /\ pc[r] = "summarizing" /\ pc'[r] = "ended"
          /\ new.status = row[TaskOf[r]].status

WritesNothing(r) ==
  /\ row' = row
  /\ pc[r] = "new" => pc'[r] \in {"badrequest", "error"}
  /\ pc'[r] # "reporting"

(* A place that follows another one.                                        *)
Follows(from, to) ==
  \/ from = "new" /\ to \in {"created", "badrequest", "error"}
  \/ from = "created" /\ to \in {"queued", "rejected"}
  \/ from = "queued" /\ to = "spawned"
  \/ from = "spawned" /\ to \in {"starting", "aborted"}
  \/ from = "starting" /\ to \in {"agent", "aborted"}
  \/ from = "agent" /\ to = "finishing"
  \/ from = "finishing" /\ to \in {"reporting", "aborted"}
  \/ from = "reporting" /\ to \in {"summarizing", "aborted"}
  \/ from = "summarizing" /\ to = "ended"

(* What a step of the handler or job of r does to the table.                *)
StepOf(r) ==
  /\ \E to \in PC : Follows(pc[r], to) /\ pc' = [pc EXCEPT ![r] = to]
  /\ \/ told' = told
     \/ pc[r] = "reporting" /\ \E reply \in Replies : told' = [told EXCEPT ![r] = reply]
  /\ \/ outcome' = outcome
     \/ pc[r] = "agent" /\ \E o \in Outcomes : outcome' = [outcome EXCEPT ![r] = o]
  /\ Records(r) \/ Writes(r) \/ WritesNothing(r)

Dies ==
  /\ pc' = [r \in Requests |-> IF pc[r] \in Live THEN "lost" ELSE pc[r]]
  /\ UNCHANGED <<outcome, told, row>>

LEMMA MoveFollows ==
  ASSUME TypeOK, NEW r \in Requests, NEW from, NEW to \in PC, Move(r, from, to),
         Follows(from, to)
  PROVE  /\ pc[r] = from /\ pc'[r] = to
         /\ \E place \in PC : Follows(pc[r], place) /\ pc' = [pc EXCEPT ![r] = place]
BY DEF Move, TypeOK

LEMMA HandlerStep ==
  ASSUME TypeOK, NEW r \in Requests, HandleRun(r) \/ PutNowait(r)
  PROVE  StepOf(r)
<1> USE DEF PC, Live, Active, Settled
<1>1. CASE HandleRun(r)
  BY <1>1, MoveFollows DEF HandleRun, Follows, StepOf, Records, WritesNothing
<1>2. CASE PutNowait(r)
  BY <1>2, MoveFollows DEF PutNowait, Follows, StepOf, WritesNothing
<1>3. QED
  BY <1>1, <1>2

LEMMA SpawnStep ==
  ASSUME TypeOK, GetJob
  PROVE  \E r \in Requests : StepOf(r)
<1>1. Head(queue) \in Requests
  BY DEF GetJob, TypeOK
<1>2. StepOf(Head(queue))
  BY <1>1, MoveFollows
     DEF GetJob, Follows, StepOf, WritesNothing, PC, Live, Active, Settled
<1>3. QED
  BY <1>1, <1>2

LEMMA JobStep ==
  ASSUME TypeOK, NEW r \in Requests, Job(r)
  PROVE  StepOf(r)
<1> USE DEF PC, Live, Active, Settled
<1>1. row[TaskOf[r]] \in RowType
  BY DEF TypeOK, RowType
<1>2. CASE SetRunning(r)
  <2>1. CASE Raise(r, "spawned") /\ row' = row
    BY <1>2, <2>1, MoveFollows DEF SetRunning, Raise, Follows, StepOf, WritesNothing
  <2>2. CASE Move(r, "spawned", "starting") /\ ~(row' = row /\ Raise(r, "spawned"))
    <3>1. [status |-> "running", attempts |-> row[TaskOf[r]].attempts + 1,
           summary |-> row[TaskOf[r]].summary] \in RowType
      BY <1>1 DEF RowType, Status
    <3>2. Writes(r)
      BY <1>2, <2>2, <3>1, MoveFollows DEF SetRunning, Writes, Follows
    <3>3. QED
      BY <1>2, <2>2, <3>2, MoveFollows DEF SetRunning, Follows, StepOf
  <2>3. QED
    BY <1>2, <2>1, <2>2 DEF SetRunning
<1>3. CASE NotifyStart(r)
  BY <1>3, MoveFollows DEF NotifyStart, Raise, Follows, StepOf, WritesNothing
<1>4. CASE RunAgent(r)
  <2>1. Move(r, "agent", "finishing") /\ Follows("agent", "finishing")
    BY <1>4 DEF RunAgent, Follows
  <2>2. /\ pc[r] = "agent" /\ pc'[r] = "finishing"
        /\ \E place \in PC : Follows(pc[r], place) /\ pc' = [pc EXCEPT ![r] = place]
    BY <2>1, MoveFollows
  <2>3. WritesNothing(r) /\ told' = told
    BY <1>4, <2>2 DEF RunAgent, WritesNothing
  <2>4. \E o \in Outcomes : outcome' = [outcome EXCEPT ![r] = o]
    BY <1>4 DEF RunAgent
  <2>5. QED
    BY <2>2, <2>3, <2>4 DEF StepOf
<1>5. CASE SetDone(r)
  <2>1. CASE Raise(r, "finishing") /\ row' = row
    BY <1>5, <2>1, MoveFollows DEF SetDone, Raise, Follows, StepOf, WritesNothing
  <2>2. CASE Move(r, "finishing", "reporting") /\ ~(row' = row /\ Raise(r, "finishing"))
    <3> DEFINE new == [row[TaskOf[r]] EXCEPT !.status = FinalStatus(outcome[r])]
    <3>1. new \in RowType /\ new.status = FinalStatus(outcome[r])
      BY <1>1 DEF RowType, FinalStatus, Status
    <3>2. Update(TaskOf[r], new)
      BY <1>5, <2>2 DEF SetDone
    <3> HIDE DEF new
    <3>3. Writes(r)
      BY <2>2, <3>1, <3>2, MoveFollows DEF Writes, Follows
    <3>4. QED
      BY <1>5, <2>2, <3>3, MoveFollows DEF SetDone, Follows, StepOf
  <2>3. QED
    BY <1>5, <2>1, <2>2 DEF SetDone
<1>6. CASE Report(r)
  <2>1. \E reply \in Replies : told' = [told EXCEPT ![r] = reply]
    BY <1>6 DEF Report, Replies
  <2>2. PICK to \in {"summarizing", "aborted"} : Move(r, "reporting", to)
    BY <1>6 DEF Report, Raise
  <2>3. Follows("reporting", to)
    BY DEF Follows
  <2>4. /\ pc[r] = "reporting" /\ pc'[r] = to
        /\ \E place \in PC : Follows(pc[r], place) /\ pc' = [pc EXCEPT ![r] = place]
    BY <2>2, <2>3, MoveFollows
  <2>5. WritesNothing(r) /\ outcome' = outcome
    BY <1>6, <2>4 DEF Report, WritesNothing
  <2>6. QED
    BY <2>1, <2>4, <2>5 DEF StepOf
<1>7. CASE StoreSummary(r)
  <2>1. CASE row' = row
    BY <1>7, <2>1, MoveFollows DEF StoreSummary, Follows, StepOf, WritesNothing
  <2>2. CASE row' # row
    <3> DEFINE new == [row[TaskOf[r]] EXCEPT !.summary = TRUE]
    <3>1. new \in RowType /\ new.status = row[TaskOf[r]].status
      BY <1>1 DEF RowType
    <3>2. Update(TaskOf[r], new)
      BY <1>7, <2>2 DEF StoreSummary
    <3> HIDE DEF new
    <3>3. Writes(r)
      BY <1>7, <3>1, <3>2, MoveFollows DEF StoreSummary, Writes, Follows
    <3>4. QED
      BY <1>7, <3>3, MoveFollows DEF StoreSummary, Follows, StepOf
  <2>3. QED
    BY <2>1, <2>2
<1>8. QED
  BY <1>2, <1>3, <1>4, <1>5, <1>6, <1>7 DEF Job

LEMMA TableStep ==
  ASSUME TypeOK, [Next]_vars
  PROVE  (\E r \in Requests : StepOf(r)) \/ Dies \/ UNCHANGED Table
BY HandlerStep, SpawnStep, JobStep DEF Next, Acquire, Crash, Restart, Dies, Table, vars

-----------------------------------------------------------------------------
(* Rows and requests                                                        *)

Recorded == Live \union {"rejected", "aborted", "ended"}

Told(r) == told[r] # Unset

(* What a handler or job knows of its row, between and after its writes.    *)
RowsInv ==
  /\ RecordedBeforeQueued
  /\ \A r \in Requests :
       /\ Told(r) => pc[r] \in {"summarizing", "aborted", "ended", "lost"}
       /\ Alone(r) /\ (Told(r) \/ pc[r] = "reporting")
            => row[TaskOf[r]].status = FinalStatus(outcome[r])
       /\ pc[r] = "reporting" => ~Told(r)
  /\ \A t \in Tasks : row[t].status \in {"pending", "running"} =>
       \E r \in Requests :
         /\ TaskOf[r] = t
         /\ \/ pc[r] \in Live \ {"reporting", "summarizing"}
            \/ pc[r] \in {"error", "rejected", "aborted", "lost"}

LEMMA RowsInit == Init => RowsInv
BY DEF Init, RowsInv, RecordedBeforeQueued, Told, Absent, Live, Active, Unset

(* A request that was started once has been started ever after.             *)
LEMMA StaysStarted ==
  ASSUME TypeOK, NEW q \in Requests, StepOf(q), NEW r \in Requests, Alone(r)'
  PROVE  Alone(r)
BY DEF TypeOK, StepOf, Follows, Alone, Active

LEMMA StepKeepsRecorded ==
  ASSUME TypeOK, RecordedBeforeQueued, NEW q \in Requests, StepOf(q)
  PROVE  RecordedBeforeQueued'
<1>1. TaskOf[q] \in Tasks /\ \A r \in Requests : TaskOf[r] \in Tasks
  OBVIOUS
<1>2. \A t \in Tasks : row[t].status # "absent" => row'[t].status # "absent"
  BY <1>1 DEF StepOf, Records, Insert, Pending, Writes, Update, WritesNothing,
         FinalStatus, TypeOK
<1>3. pc'[q] = "created" => row'[TaskOf[q]].status # "absent"
  BY <1>1 DEF StepOf, Records, Insert, Pending, Writes, WritesNothing, TypeOK, Follows
<1>4. ASSUME NEW r \in Requests, pc'[r] \in Recorded, r # q \/ pc'[q] # "created"
      PROVE  pc[r] \in Recorded
  BY <1>4 DEF StepOf, Follows, Recorded, Live, Active, TypeOK
<1>5. QED
  BY <1>1, <1>2, <1>3, <1>4 DEF RecordedBeforeQueued, Recorded

LEMMA StepKeepsReports ==
  ASSUME TypeOK, RowsInv, NEW q \in Requests, StepOf(q), NEW r \in Requests
  PROVE  /\ Told(r)' => pc'[r] \in {"summarizing", "aborted", "ended", "lost"}
         /\ Alone(r)' /\ (Told(r)' \/ pc'[r] = "reporting")
              => row'[TaskOf[r]].status = FinalStatus(outcome'[r])
         /\ pc'[r] = "reporting" => ~Told(r)'
<1> USE DEF Told, Unset
<1>1. TaskOf[q] \in Tasks /\ TaskOf[r] \in Tasks
  OBVIOUS
<1>2. PICK to \in PC : Follows(pc[q], to) /\ pc' = [pc EXCEPT ![q] = to]
  BY DEF StepOf
<1>3. /\ r # q => pc'[r] = pc[r] /\ told'[r] = told[r] /\ outcome'[r] = outcome[r]
      /\ pc'[q] = to
  BY <1>2 DEF StepOf, TypeOK
<1>4. pc[q] # "reporting" => told'[q] = told[q]
  BY DEF StepOf
<1>5. pc[q] # "agent" => outcome'[q] = outcome[q]
  BY DEF StepOf
<1>6. Told(q)' => pc'[q] \in {"summarizing", "aborted", "ended", "lost"}
  BY <1>2, <1>3, <1>4 DEF Follows, RowsInv
<1>7. pc'[q] = "reporting" => ~Told(q)'
  BY <1>2, <1>3, <1>4, <1>6
<1>8. ASSUME Alone(r)', Told(r)' \/ pc'[r] = "reporting"
      PROVE  row'[TaskOf[r]].status = FinalStatus(outcome'[r])
  <2>1. Alone(r)
    BY <1>8, StaysStarted
  <2>2. CASE r = q /\ pc[q] = "finishing"
    <3>1. Writes(q) \/ pc'[q] = "aborted"
      BY <1>2, <1>3, <2>2 DEF StepOf, Records, WritesNothing, Follows
    <3>2. row[TaskOf[q]].status # "absent"
      BY <2>2 DEF RowsInv, RecordedBeforeQueued, Live, Active
    <3>3. ~Told(q)'
      BY <1>4, <2>2 DEF RowsInv
    <3>4. PICK new \in RowType : /\ row' = [row EXCEPT ![TaskOf[q]] = new]
                                 /\ new.status = FinalStatus(outcome[q])
      BY <1>8, <2>2, <3>1, <3>2, <3>3 DEF Writes, Update
    <3>5. QED
      BY <1>1, <1>5, <2>2, <3>4 DEF TypeOK
  <2>3. CASE r = q /\ pc[q] # "finishing"
    <3>1. pc[q] \in {"reporting", "summarizing"}
      BY <1>2, <1>3, <1>4, <1>8, <2>3 DEF Follows, RowsInv
    <3>2. row[TaskOf[q]].status = FinalStatus(outcome[q])
      <4>1. pc'[q] # "reporting"
        BY <1>2, <1>3, <2>3 DEF Follows
      <4>2. Told(q) \/ pc[q] = "reporting"
        BY <1>4, <1>8, <2>3, <4>1
      <4>3. QED
        BY <2>1, <2>3, <4>2 DEF RowsInv
    <3>3. QED
      BY <1>1, <1>5, <2>3, <3>1, <3>2
         DEF StepOf, Records, Writes, Update, WritesNothing, TypeOK
  <2>4. CASE r # q
    <3>1. row[TaskOf[r]].status = FinalStatus(outcome[r])
      BY <1>3, <1>8, <2>1, <2>4 DEF RowsInv
    <3>2. CASE TaskOf[q] # TaskOf[r]
      BY <1>1, <1>3, <2>4, <3>1, <3>2
         DEF StepOf, Records, Insert, Writes, Update, WritesNothing, TypeOK
    <3>3. CASE TaskOf[q] = TaskOf[r]
      <4>1. ~Writes(q)
        BY <2>1, <2>4, <3>3 DEF Alone, Writes, Active
      <4>2. row[TaskOf[q]].status # "absent"
        BY <3>1, <3>3 DEF FinalStatus
      <4>3. row' = row
        BY <4>1, <4>2 DEF StepOf, Records, Insert, WritesNothing
      <4>4. QED
        BY <1>3, <2>4, <3>1, <4>3
    <3>4. QED
      BY <3>2, <3>3
  <2>5. QED
    BY <2>2, <2>3, <2>4
<1>9. QED
  BY <1>3, <1>6, <1>7, <1>8 DEF RowsInv

(* Who is going to move the row of t, or was kept from it.                  *)
Accounts(r, t) ==
  /\ TaskOf[r] = t
  /\ \/ pc[r] \in Live \ {"reporting", "summarizing"}
     \/ pc[r] \in {"error", "rejected", "aborted", "lost"}

LEMMA StepKeepsAccounts ==
  ASSUME TypeOK, RowsInv, NEW q \in Requests, StepOf(q), NEW t \in Tasks,
         row'[t].status \in {"pending", "running"}
  PROVE  \E r \in Requests : Accounts(r, t)'
<1>1. TaskOf[q] \in Tasks
  OBVIOUS
<1>2. PICK to \in PC : Follows(pc[q], to) /\ pc' = [pc EXCEPT ![q] = to]
  BY DEF StepOf
<1>3. CASE TaskOf[q] = t /\ pc'[q] \in {"created", "error", "starting"}
  BY <1>3 DEF Accounts, Live, Active
<1>4. CASE TaskOf[q] = t /\ pc'[q] = "reporting"
  <2>1. Writes(q)
    BY <1>4 DEF StepOf, Records, WritesNothing
  <2>2. row[TaskOf[q]].status # "absent"
    BY <1>2, <1>4 DEF Follows, RowsInv, RecordedBeforeQueued, Live, Active, TypeOK
  <2>3. row'[t].status = FinalStatus(outcome[q])
    BY <1>1, <1>4, <2>1, <2>2 DEF Writes, Update, TypeOK
  <2>4. QED
    BY <2>3 DEF FinalStatus
<1>5. CASE TaskOf[q] # t \/ pc'[q] \notin {"created", "error", "starting", "reporting"}
  <2>1. row'[t].status = row[t].status
    BY <1>1, <1>5 DEF StepOf, Records, Insert, Writes, Update, WritesNothing, TypeOK
  <2>2. PICK r \in Requests : Accounts(r, t)
    BY <2>1 DEF RowsInv, Accounts
  <2>3. CASE r # q
    BY <1>2, <2>2, <2>3 DEF Accounts, TypeOK
  <2>4. CASE r = q
    BY <1>2, <1>5, <2>2, <2>4 DEF Accounts, TypeOK, Follows, Live, Active
  <2>5. QED
    BY <2>3, <2>4
<1>6. QED
  BY <1>3, <1>4, <1>5

LEMMA RowsStep ==
  ASSUME TypeOK, RowsInv, NEW q \in Requests, StepOf(q)
  PROVE  RowsInv'
<1>1. RecordedBeforeQueued'
  BY StepKeepsRecorded DEF RowsInv
<1>2. QED
  BY <1>1, StepKeepsReports, StepKeepsAccounts DEF RowsInv, Accounts

LEMMA RowsCrash ==
  ASSUME TypeOK, RowsInv, Dies
  PROVE  RowsInv'
<1>1. \A r \in Requests : pc'[r] = IF pc[r] \in Live THEN "lost" ELSE pc[r]
  BY DEF Dies
<1>2. RecordedBeforeQueued'
  BY <1>1 DEF RowsInv, RecordedBeforeQueued, Dies, Live, Active
<1>3. \A r \in Requests : Alone(r)' => Alone(r)
  BY <1>1 DEF Alone, Live, Active
<1>4. QED
  BY <1>1, <1>2, <1>3 DEF RowsInv, Told, Dies, Live, Active

LEMMA RowsNext == TypeOK /\ RowsInv /\ [Next]_vars => RowsInv'
<1> SUFFICES ASSUME TypeOK, RowsInv, [Next]_vars PROVE RowsInv'
  OBVIOUS
<1>1. CASE UNCHANGED Table
  BY <1>1 DEF Table, RowsInv, RecordedBeforeQueued, Told, Alone
<1>2. QED
  BY <1>1, TableStep, RowsStep, RowsCrash

LEMMA RowsHold == Spec => []RowsInv
BY RowsInit, RowsNext, TypeCorrect, PTL DEF Spec

(* The row of a request exists from before it is queued, whatever the       *)
(* database, the queue and the process do: no UPDATE of its job is lost.    *)
THEOREM RequestsRecorded == Spec => []RecordedBeforeQueued
BY RowsHold, PTL DEF RowsInv

(* For any number of requests for a task: what the bot was told of the      *)
(* only one that was started is in the table, also after a crash.           *)
THEOREM ReportsStored == Spec => []ReportedIsStored
<1>1. RowsInv => ReportedIsStored
  BY DEF RowsInv, ReportedIsStored, Told
<1>2. QED
  BY <1>1, RowsHold, PTL

(* A row stays pending or running only for a request that is under way, was *)
(* turned away, failed in the database, raised or died with the process.    *)
THEOREM StrandedRows == Spec => []StrandedRowsExplained
<1>1. RowsInv => StrandedRowsExplained
  BY DEF RowsInv, StrandedRowsExplained
<1>2. QED
  BY <1>1, RowsHold, PTL

Owned ==
  \A t \in Tasks :
    /\ row'[t] # row[t] => \E r \in Requests : TaskOf[r] = t /\ pc'[r] # pc[r]
    /\ row[t].status \in Terminal /\ row'[t].status # row[t].status
         => \E r \in Requests : TaskOf[r] = t /\ pc[r] \in {"spawned", "finishing"}

(* For any tasks: no step of a request touches the row of another task, and *)
(* only a job that starts or finishes moves a row that was finished.        *)
THEOREM OwnersOnly == Spec => RowsOwned
<1>1. ASSUME TypeOK, NEW q \in Requests, StepOf(q) PROVE Owned
  <2>1. TaskOf[q] \in Tasks /\ pc'[q] # pc[q]
    BY <1>1 DEF StepOf, Follows, TypeOK
  <2>2. \A t \in Tasks : row'[t] # row[t] => t = TaskOf[q]
    BY <1>1, <2>1 DEF StepOf, Records, Insert, Writes, Update, WritesNothing, TypeOK
  <2>3. row'[TaskOf[q]].status # row[TaskOf[q]].status =>
          row[TaskOf[q]].status = "absent" \/ pc[q] \in {"spawned", "finishing"}
    BY <1>1, <2>1 DEF StepOf, Records, Insert, Writes, Update, WritesNothing, TypeOK
  <2>4. QED
    BY <2>1, <2>2, <2>3 DEF Owned, Terminal
<1>2. TypeOK /\ [Next]_vars => [Owned]_vars
  BY <1>1, TableStep DEF Dies, Table, Owned
<1>3. QED
  BY <1>2, TypeCorrect, PTL DEF Spec, RowsOwned, Owned

-----------------------------------------------------------------------------
(***************************************************************************)
(* TaskAdmission: the promises of the worker that are about safety.        *)
(***************************************************************************)

-----------------------------------------------------------------------------
(* The queue and the requests in "queued"                                   *)

Waiting == At("queued")

LEMMA WaitingFinite ==
  /\ IsFiniteSet(Waiting)
  /\ Cardinality(Waiting) \in Nat
<1>1. Waiting \subseteq Requests
  BY DEF Waiting, At
<1>2. QED
  BY <1>1, FS_Subset, FS_CardinalityType

LEMMA StaysWaiting ==
  ASSUME TypeOK, NEW r \in Requests, NEW from, NEW to, Move(r, from, to),
         from # "queued", to # "queued"
  PROVE  Waiting' = Waiting
BY DEF TypeOK, Waiting, At, Move

LEMMA StartsWaiting ==
  ASSUME TypeOK, NEW r \in Requests, Move(r, "created", "queued")
  PROVE  Cardinality(Waiting') = Cardinality(Waiting) + 1
<1>1. r \notin Waiting /\ Waiting' = Waiting \union {r}
  BY DEF TypeOK, Waiting, At, Move
<1>2. QED
  BY <1>1, WaitingFinite, FS_AddElement

LEMMA StopsWaiting ==
  ASSUME TypeOK, NEW r \in Requests, Move(r, "queued", "spawned")
  PROVE  Cardinality(Waiting') = Cardinality(Waiting) - 1
<1>1. r \in Waiting /\ Waiting' = Waiting \ {r}
  BY DEF TypeOK, Waiting, At, Move
<1>2. QED
  BY <1>1, WaitingFinite, FS_RemoveElement

(* The queue is as long as there are requests waiting in it.                *)
QueueInv ==
  /\ up => /\ Cardinality(Waiting) = Len(queue)
           /\ QueueSize > 0 => Len(queue) <= QueueSize
  /\ ~up => Waiting = {}

LEMMA JobMoves ==
  ASSUME NEW r \in Requests, Job(r)
  PROVE  /\ up /\ UNCHANGED <<up, queue>>
         /\ \E from \in Active, to \in Active \union {"aborted", "ended"} :
              Move(r, from, to)
<1> USE DEF Active, memory
<1>1. up /\ UNCHANGED <<up, queue>>
  BY DEF Job, SetRunning, NotifyStart, RunAgent, SetDone, Report, StoreSummary, Raise,
         Release, Move
<1>2. \E from \in Active, to \in Active \union {"aborted", "ended"} : Move(r, from, to)
  BY DEF Job, SetRunning, NotifyStart, RunAgent, SetDone, Report, StoreSummary, Raise
<1>3. QED
  BY <1>1, <1>2

LEMMA QueueInvariant == Spec => []QueueInv
<1>1. Init => QueueInv
  <2> SUFFICES ASSUME Init PROVE QueueInv
    OBVIOUS
  <2>1. Waiting = {}
    BY DEF Init, Waiting, At
  <2>2. QED
    BY <2>1, FS_EmptySet DEF Init, QueueInv
<1>2. TypeOK /\ QueueInv /\ [Next]_vars => QueueInv'
  <2> SUFFICES ASSUME TypeOK, QueueInv, [Next]_vars PROVE QueueInv'
    OBVIOUS
  <2> USE DEF QueueInv
  <2>1. ASSUME Waiting' = Waiting, UNCHANGED <<up, queue>> PROVE QueueInv'
    BY <2>1
  <2>2. ASSUME NEW r \in Requests, HandleRun(r) PROVE QueueInv'
    BY <2>1, <2>2, StaysWaiting DEF HandleRun, memory
  <2>3. ASSUME NEW r \in Requests, PutNowait(r) PROVE QueueInv'
    <3>1. queue \in Seq(Requests) /\ Len(queue) \in Nat /\ up /\ up' = up
      BY <2>3 DEF TypeOK, PutNowait, Move
    <3>2. CASE Move(r, "created", "queued") /\ ~QueueFull /\ queue' = Append(queue, r)
      <4>1. Len(queue') = Len(queue) + 1
        BY <3>1, <3>2
      <4>2. QED
        BY <3>1, <3>2, <4>1, StartsWaiting DEF QueueFull
    <3>3. CASE Move(r, "created", "rejected") /\ UNCHANGED queue
      BY <2>1, <3>1, <3>3, StaysWaiting
    <3>4. QED
      BY <2>3, <3>2, <3>3 DEF PutNowait
  <2>4. CASE Acquire
    BY <2>1, <2>4 DEF Acquire, Waiting, At
  <2>5. CASE GetJob
    <3>1. queue \in Seq(Requests) /\ queue # <<>> /\ up /\ up' = up
      BY <2>5 DEF GetJob, TypeOK, Move
    <3>2. Head(queue) \in Requests /\ Len(queue') = Len(queue) - 1 /\ Len(queue) \in Nat
      BY <2>5, <3>1 DEF GetJob
    <3>3. Cardinality(Waiting') = Cardinality(Waiting) - 1
      BY <2>5, <3>2, StopsWaiting DEF GetJob
    <3>4. QED
      BY <3>1, <3>2, <3>3
  <2>6. ASSUME NEW r \in Requests, Job(r) PROVE QueueInv'
    BY <2>1, <2>6, JobMoves, StaysWaiting DEF Active
  <2>7. CASE Crash
    BY <2>7 DEF Crash, Waiting, At, Live, TypeOK
  <2>8. CASE Restart
    <3>1. Waiting' = {} /\ queue' = <<>> /\ up'
      BY <2>8 DEF Restart, Waiting, At
    <3>2. QED
      BY <3>1, FS_EmptySet
  <2>9. CASE UNCHANGED vars
    BY <2>1, <2>9 DEF vars, Waiting, At
  <2>10. QED
    BY <2>2, <2>3, <2>4, <2>5, <2>6, <2>7, <2>8, <2>9 DEF Next
<1>3. QED
  BY <1>1, <1>2, TypeCorrect, PTL DEF Spec

-----------------------------------------------------------------------------
(* The refinement                                                           *)

Phases == [r \in Requests |-> PhaseOf(pc[r])]

LEMMA PhaseValues ==
  /\ PhaseOf("new") = "idle" /\ PhaseOf("created") = "idle"
  /\ PhaseOf("queued") = "waiting"
  /\ \A place \in Active : PhaseOf(place) = "running"
  /\ PhaseOf("aborted") = "over" /\ PhaseOf("ended") = "over"
  /\ PhaseOf("rejected") = "busy"
  /\ PhaseOf("badrequest") = "refused" /\ PhaseOf("error") = "refused"
  /\ PhaseOf("lost") = "dropped"
BY DEF PhaseOf, Active

LEMMA Populations ==
  ASSUME TypeOK
  PROVE  /\ Admission!In("waiting") = Waiting
         /\ Admission!In("running") = Running
         /\ At("created") \subseteq Admission!In("idle")
<1>1. \A r \in Requests :
        /\ pc[r] \in PC
        /\ PhaseOf(pc[r]) = "waiting" <=> pc[r] = "queued"
        /\ PhaseOf(pc[r]) = "running" <=> pc[r] \in Active
        /\ pc[r] = "created" => PhaseOf(pc[r]) = "idle"
  BY PhaseValues DEF TypeOK, PC, Live, Settled
<1>2. QED
  BY <1>1 DEF Admission!In, Waiting, At, Running

LEMMA PhaseUpdate ==
  ASSUME TypeOK, NEW r \in Requests, NEW from, NEW to, Move(r, from, to)
  PROVE  /\ Phases[r] = PhaseOf(from)
         /\ Phases' = [Phases EXCEPT ![r] = PhaseOf(to)]
BY DEF TypeOK, Move, Phases

LEMMA Becomes ==
  ASSUME TypeOK, NEW r \in Requests, NEW from, NEW to, Move(r, from, to)
  PROVE  /\ Admission!Become(r, PhaseOf(from), PhaseOf(to))
         /\ PhaseOf(from) = PhaseOf(to) => UNCHANGED Phases
<1>1. Phases[r] = PhaseOf(from) /\ Phases' = [Phases EXCEPT ![r] = PhaseOf(to)]
  BY PhaseUpdate
<1>2. Admission!Become(r, PhaseOf(from), PhaseOf(to))
  BY <1>1 DEF Admission!Become, Phases
<1>3. PhaseOf(from) = PhaseOf(to) => Phases' = Phases
  BY <1>1 DEF Phases
<1>4. QED
  BY <1>2, <1>3

LEMMA SameCount == \A S : Admission!Cardinality(S) = Cardinality(S)
BY DEF Admission!Cardinality, Cardinality

LEMMA AdmissionInit == Init => Admission!Init
BY PhaseValues DEF Init, Admission!Init

LEMMA AdmissionNext ==
  ASSUME TypeOK, SlotInv, QueueInv, [Next]_vars
  PROVE  [Admission!Next]_Phases
<1>1. ASSUME NEW r \in Requests, HandleRun(r) PROVE [Admission!Next]_Phases
  <2>1. CASE Move(r, "new", "created")
    BY <2>1, Becomes, PhaseValues
  <2>2. CASE \E to \in {"badrequest", "error"} : Move(r, "new", to)
    BY <2>2, Becomes, PhaseValues DEF Admission!Next, Admission!Refuse
  <2>3. QED
    BY <1>1, <2>1, <2>2 DEF HandleRun
<1>2. ASSUME NEW r \in Requests, PutNowait(r) PROVE [Admission!Next]_Phases
  <2>1. /\ Cardinality(Admission!In("waiting")) = Len(queue)
        /\ Len(queue) \in Nat
        /\ QueueSize > 0 => Len(queue) <= QueueSize
    BY <1>2, Populations, SameCount DEF QueueInv, PutNowait, Move, TypeOK
  <2>2. CASE ~QueueFull /\ Move(r, "created", "queued")
    <3>1. Admission!Admit(r)
      BY <2>1, <2>2, Becomes, PhaseValues, SameCount DEF QueueFull, Admission!Admit
    <3>2. QED
      BY <3>1 DEF Admission!Next
  <2>3. CASE QueueFull /\ Move(r, "created", "rejected")
    <3>1. Admission!TurnAway(r)
      BY <2>1, <2>3, Becomes, PhaseValues, SameCount DEF QueueFull, Admission!TurnAway
    <3>2. QED
      BY <3>1 DEF Admission!Next
  <2>4. QED
    BY <1>2, <2>2, <2>3 DEF PutNowait
<1>3. CASE GetJob
  <2>1. Head(queue) \in Requests /\ Move(Head(queue), "queued", "spawned")
    BY <1>3 DEF GetJob, TypeOK
  <2>2. Cardinality(Running) < MaxConcurrent
    BY <1>3, RunningFinite DEF GetJob, Move, SlotInv, SlotConservation, Held, TypeOK
  <2>3. Admission!Start(Head(queue))
    BY <2>1, <2>2, Becomes, PhaseValues, Populations, SameCount
       DEF Admission!Start, Active
  <2>4. QED
    BY <2>1, <2>3 DEF Admission!Next
<1>4. ASSUME NEW r \in Requests, Job(r) PROVE [Admission!Next]_Phases
  <2>1. PICK from \in Active, to \in Active \union {"aborted", "ended"} : Move(r, from, to)
    BY <1>4, JobMoves
  <2>2. CASE to \in Active
    BY <2>1, <2>2, Becomes, PhaseValues
  <2>3. CASE to \notin Active
    BY <2>1, <2>3, Becomes, PhaseValues DEF Admission!Next, Admission!Finish
  <2>4. QED
    BY <2>2, <2>3
<1>5. CASE Crash
  <2> DEFINE S == At("created")
  <2>1. S \in SUBSET Admission!In("idle")
    BY Populations
  <2>2. \A r \in Requests :
          Phases'[r] = IF r \in S \union Admission!In("waiting") \union Admission!In("running")
                       THEN "dropped" ELSE Phases[r]
    BY <1>5, Populations, PhaseValues DEF Crash, Phases, Live, At, Waiting, Running
  <2>3. Admission!Drop
    BY <2>1, <2>2 DEF Admission!Drop, Phases
  <2>4. QED
    BY <2>3 DEF Admission!Next
<1>6. CASE UNCHANGED pc
  BY <1>6 DEF Phases
<1>7. QED
  BY <1>1, <1>2, <1>3, <1>4, <1>5, <1>6 DEF Next, Acquire, Restart, vars

(* For any requests and limits, whatever fails: a request is turned away    *)
(* only when QueueSize others wait, and is started only when fewer than     *)
(* MaxConcurrent run.  (That those who wait get their turn is only          *)
(* model-checked.)                                                          *)
THEOREM AdmissionImplemented == Spec => Admission!Safety
<1>1. TypeOK /\ SlotInv /\ QueueInv /\ [Next]_vars => [Admission!Next]_Phases
  BY AdmissionNext
<1>2. QED
  BY <1>1, AdmissionInit, TypeCorrect, SlotInvariant, QueueInvariant, PTL
     DEF Spec, Admission!Safety, Phases
=============================================================================
