------------------------------- MODULE Worker -------------------------------
(***************************************************************************)
(* The worker process (app/worker/server.py) with its task table           *)
(* (app/worker/store.py): the POST /run handlers, the bounded queue, the   *)
(* semaphore that limits concurrency, the loop that spawns jobs, the jobs  *)
(* themselves, and the crash and restart of the whole process.             *)
(*                                                                         *)
(* A request is one POST /run; TaskOf names the task_id in its body.  The  *)
(* bot draws a fresh id for every POST (TaskOf injective); the endpoint    *)
(* also accepts a second POST with the id of the first one.                *)
(*                                                                         *)
(* Every step is what runs between two awaits that other coroutines can    *)
(* overtake.  Everything but  row  is memory of the process and lost with  *)
(* it;  row  is the database table.                                        *)
(***************************************************************************)
EXTENDS Integers, Sequences, FiniteSets

CONSTANTS
  Requests,        (* POST /run requests                                    *)
  Tasks,           (* task ids                                              *)
  TaskOf,          (* the task id a request carries                         *)
  MaxConcurrent,   (* WORKER_MAX_CONCURRENT: permits of the semaphore       *)
  QueueSize,       (* WORKER_QUEUE_SIZE: maxsize of the queue, 0: unbounded *)
  MaxFaults        (* bound: crashes of the worker, database statements     *)
                   (* that raise, bot replies slower than the timeout       *)

ASSUME RequestsAssumption == IsFiniteSet(Requests)
ASSUME TaskOfAssumption == TaskOf \in [Requests -> Tasks]
ASSUME SizesAssumption == MaxConcurrent \in Nat /\ QueueSize \in Nat
ASSUME BoundsAssumption == MaxFaults \in Nat

VARIABLES
  up,        (* the process runs                                            *)
  loop,      (* _worker_loop: about to acquire a slot, or holding one       *)
  slots,     (* free permits of _semaphore                                  *)
  queue,     (* _queue                                                      *)
  pc,        (* where the handler, then the job, of a request stands        *)
  outcome,   (* the Outcome the agent returned                              *)
  told,      (* what _report_result saw of the bot's answer                 *)
  row,       (* the tasks table                                             *)
  faults     (* faults so far; only bounds the model                        *)

memory == <<up, loop, slots, queue>>
vars == <<up, loop, slots, queue, pc, outcome, told, row, faults>>

-----------------------------------------------------------------------------

(* A handler runs in "created", waits in "queued", and is a spawned job in  *)
(* Active.  The other places are final.                                     *)
Active  == {"spawned", "starting", "agent", "finishing", "reporting",
            "summarizing"}
Live    == {"created", "queued"} \union Active
Settled == {"badrequest", "error", "rejected", "aborted", "ended", "lost"}
PC      == {"new"} \union Live \union Settled

Unset    == "none"
Outcomes == {"ok", "blank", "failed"}       (* blank: ok with an empty text *)
Replies  == {"sent", "refused", "error", "timeout"}

Status     == {"pending", "running", "done", "failed"}
Terminal   == {"done", "failed"}
Absent     == [status |-> "absent", attempts |-> 0, summary |-> FALSE]
Pending    == [status |-> "pending", attempts |-> 0, summary |-> FALSE]

At(place)    == {r \in Requests : pc[r] = place}
Running      == {r \in Requests : pc[r] \in Active}
Held         == IF loop = "get" THEN 1 ELSE 0

(* Mutant of QueueFull: the last place of the queue is never used.          *)
QueueAlmostFull == QueueSize > 0 /\ Len(queue) + 1 >= QueueSize

QueueFull == QueueSize > 0 /\ Len(queue) >= QueueSize

Move(r, from, to) ==
  /\ up
  /\ pc[r] = from
  /\ pc' = [pc EXCEPT ![r] = to]

Fault == faults < MaxFaults /\ faults' = faults + 1

(* An UPDATE ... WHERE task_id = t: rows that do not exist stay absent.     *)
Update(t, new) ==
  row' = IF row[t].status = "absent" THEN row ELSE [row EXCEPT ![t] = new]

-----------------------------------------------------------------------------

Init ==
  /\ up = TRUE
  /\ loop = "acquire"
  /\ slots = MaxConcurrent
  /\ queue = <<>>
  /\ pc = [r \in Requests |-> "new"]
  /\ outcome = [r \in Requests |-> Unset]
  /\ told = [r \in Requests |-> Unset]
  /\ row = [t \in Tasks |-> Absent]
  /\ faults = 0

(* store.create: INSERT, an existing row is kept.                           *)
Insert(t) ==
  row' = IF row[t].status = "absent" THEN [row EXCEPT ![t] = Pending] ELSE row

(* Mutant of HandleRun: a store error does not keep the request out.        *)
HandleRunSwallowing(r) ==
  /\ \/ Move(r, "new", "badrequest") /\ UNCHANGED <<row, faults>>
     \/ Move(r, "new", "created") /\ Insert(TaskOf[r]) /\ UNCHANGED faults
     \/ Move(r, "new", "created") /\ Fault /\ (Insert(TaskOf[r]) \/ UNCHANGED row)
  /\ UNCHANGED <<memory, outcome, told>>

(* _handle_run up to and including the await of store.create, which may     *)
(* raise after the database has committed.                                  *)
HandleRun(r) ==
  /\ \/ Move(r, "new", "badrequest") /\ UNCHANGED <<row, faults>>
     \/ Move(r, "new", "created") /\ Insert(TaskOf[r]) /\ UNCHANGED faults
     \/ Move(r, "new", "error") /\ Fault /\ (Insert(TaskOf[r]) \/ UNCHANGED row)
  /\ UNCHANGED <<memory, outcome, told>>

(* The rest of _handle_run: put_nowait and 202, or QueueFull and 429.       *)
PutNowait(r) ==
  /\ \/ /\ ~QueueFull
        /\ Move(r, "created", "queued")
        /\ queue' = Append(queue, r)
     \/ /\ QueueFull
        /\ Move(r, "created", "rejected")
        /\ UNCHANGED queue
  /\ UNCHANGED <<up, loop, slots, outcome, told, row, faults>>

(* _worker_loop takes the slot first ...                                    *)
Acquire ==
  /\ up
  /\ loop = "acquire"
  /\ slots > 0
  /\ slots' = slots - 1
  /\ loop' = "get"
  /\ UNCHANGED <<up, queue, pc, outcome, told, row, faults>>

(* ... and then a job, which it spawns.                                     *)
GetJob ==
  /\ loop = "get"
  /\ queue # <<>>
  /\ Move(Head(queue), "queued", "spawned")
  /\ queue' = Tail(queue)
  /\ loop' = "acquire"
  /\ UNCHANGED <<up, slots, outcome, told, row, faults>>

(* The finally of _run_and_release.                                         *)
Release == slots' = slots + 1 /\ UNCHANGED <<up, loop, queue>>

(* Mutant of Raise: the permit is released on the normal path only.         *)
RaiseWithoutFinally(r, from) == Move(r, from, "aborted") /\ UNCHANGED memory

(* An exception nothing in _process_task catches.                           *)
Raise(r, from) == Move(r, from, "aborted") /\ Release

SetRunning(r) ==
  /\ \/ /\ Move(r, "spawned", "starting")
        /\ LET t == TaskOf[r]
           IN  Update(t, [status |-> "running", attempts |-> row[t].attempts + 1,
                          summary |-> row[t].summary])
        /\ UNCHANGED <<memory, faults>>
     \/ Raise(r, "spawned") /\ Fault /\ UNCHANGED row
  /\ UNCHANGED <<outcome, told>>

(* _notify swallows every aiohttp.ClientError and every status, but not the *)
(* TimeoutError of its own total timeout.                                   *)
NotifyStart(r) ==
  /\ \/ Move(r, "starting", "agent") /\ UNCHANGED <<memory, faults>>
     \/ Raise(r, "starting") /\ Fault
  /\ UNCHANGED <<outcome, told, row>>

(* run_task or run_plan_task; every exception becomes a failed outcome.     *)
RunAgent(r) ==
  /\ Move(r, "agent", "finishing")
  /\ \E o \in Outcomes : outcome' = [outcome EXCEPT ![r] = o]
  /\ UNCHANGED <<memory, told, row, faults>>

(* Mutant of FinalStatus: the outcome is stored as it came.                 *)
RawStatus(o) == o

FinalStatus(o) == IF o = "failed" THEN "failed" ELSE "done"

(* Mutant of SetDone: a store error does not keep the result back.          *)
SetDoneBestEffort(r) ==
  /\ Move(r, "finishing", "reporting")
  /\ \/ /\ LET t == TaskOf[r]
           IN  Update(t, [row[t] EXCEPT !.status = FinalStatus(outcome[r])])
        /\ UNCHANGED faults
     \/ Fault /\ UNCHANGED row
  /\ UNCHANGED <<memory, outcome, told>>

SetDone(r) ==
  /\ \/ /\ Move(r, "finishing", "reporting")
        /\ LET t == TaskOf[r]
           IN  Update(t, [row[t] EXCEPT !.status = FinalStatus(outcome[r])])
        /\ UNCHANGED <<memory, faults>>
     \/ Raise(r, "finishing") /\ Fault /\ UNCHANGED row
  /\ UNCHANGED <<outcome, told>>

(* _report_result posts once.  The bot refuses an empty result (400); 503,  *)
(* other statuses and client errors are logged; the timeout is not caught.  *)
Report(r) ==
  /\ \/ /\ Move(r, "reporting", "summarizing")
        /\ \E reply \in {IF outcome[r] = "blank" THEN "refused" ELSE "sent",
                         "error"} :
             told' = [told EXCEPT ![r] = reply]
        /\ UNCHANGED <<memory, faults>>
     \/ /\ Raise(r, "reporting")
        /\ Fault
        /\ told' = [told EXCEPT ![r] = "timeout"]
  /\ UNCHANGED <<outcome, row>>

(* _store_summary swallows every error; returning releases the slot.        *)
StoreSummary(r) ==
  /\ Move(r, "summarizing", "ended")
  /\ Release
  /\ \/ LET t == TaskOf[r] IN Update(t, [row[t] EXCEPT !.summary = TRUE])
     \/ UNCHANGED row
  /\ UNCHANGED <<outcome, told, faults>>

Job(r) == SetRunning(r) \/ NotifyStart(r) \/ RunAgent(r) \/ SetDone(r)
            \/ Report(r) \/ StoreSummary(r)

(* The process dies: handlers, queued requests and jobs die with it.        *)
Crash ==
  /\ up
  /\ Fault
  /\ up' = FALSE
  /\ pc' = [r \in Requests |-> IF pc[r] \in Live THEN "lost" ELSE pc[r]]
  /\ UNCHANGED <<loop, slots, queue, outcome, told, row>>

(* Mutant of Restart: every row is put back to pending.                     *)
RestartResets ==
  /\ ~up
  /\ up' = TRUE
  /\ loop' = "acquire"
  /\ slots' = MaxConcurrent
  /\ queue' = <<>>
  /\ row' = [t \in Tasks |-> IF row[t] = Absent THEN Absent ELSE Pending]
  /\ UNCHANGED <<pc, outcome, told, faults>>

(* main() builds a new queue and semaphore and spawns the loop; no row is   *)
(* read back.                                                               *)
Restart ==
  /\ ~up
  /\ up' = TRUE
  /\ loop' = "acquire"
  /\ slots' = MaxConcurrent
  /\ queue' = <<>>
  /\ UNCHANGED <<pc, outcome, told, row, faults>>

Next ==
  \/ \E r \in Requests : HandleRun(r) \/ PutNowait(r) \/ Job(r)
  \/ Acquire
  \/ GetJob
  \/ Crash
  \/ Restart

(* The event loop runs every coroutine that can go on: handlers, the loop   *)
(* and jobs are weakly fair.  The container is restarted when it died       *)
(* (docker-compose.yml, restart: unless-stopped).  Requests come at will.   *)
Fairness ==
  /\ WF_vars(Acquire)
  /\ WF_vars(GetJob)
  /\ WF_vars(Restart)
  /\ \A r \in Requests : WF_vars(PutNowait(r)) /\ WF_vars(Job(r))

Spec == Init /\ [][Next]_vars
FairSpec == Spec /\ Fairness

-----------------------------------------------------------------------------

TypeOK ==
  /\ up \in BOOLEAN
  /\ loop \in {"acquire", "get"}
  /\ slots \in Nat
  /\ queue \in Seq(Requests)
  /\ pc \in [Requests -> PC]
  /\ outcome \in [Requests -> Outcomes \union {Unset}]
  /\ told \in [Requests -> Replies \union {Unset}]
  /\ row \in [Tasks -> [status : Status \union {"absent"},
                        attempts : Nat, summary : BOOLEAN]]
  /\ faults \in Nat

(* Every permit is free, held by the loop or used by one job, whichever way *)
(* jobs end (the finally of _run_and_release): a leaked permit narrows the  *)
(* worker for good, a double release overruns the limit.                    *)
SlotConservation == up => slots + Held + Cardinality(Running) = MaxConcurrent

(* At most WORKER_MAX_CONCURRENT jobs are in _process_task.                 *)
ConcurrencyBound == Cardinality(Running) <= MaxConcurrent

(* The row of every accepted request exists before any job can UPDATE it:   *)
(* _handle_run awaits store.create before put_nowait, whatever the store    *)
(* does.                                                                    *)
RecordedBeforeQueued ==
  \A r \in Requests :
    pc[r] \in (Live \union {"rejected", "aborted", "ended"})
      => row[TaskOf[r]].status # "absent"

(* No other request for the task of r has been started.                     *)
Alone(r) ==
  \A q \in Requests \ {r} :
    TaskOf[q] = TaskOf[r] => pc[q] \notin Active \union {"aborted", "ended", "lost"}

(* What the bot was told is what the table says, and stays so: the result   *)
(* is stored before it is reported (_process_task), so a crash between the  *)
(* two never leaves a delivered result without its row.                     *)
ReportedIsStored ==
  \A r \in Requests :
    told[r] # Unset /\ Alone(r)
      => row[TaskOf[r]].status = FinalStatus(outcome[r])

(* A row that is neither done nor failed has a handler or job that is still *)
(* going to move it, or a request that was turned away (429), failed (500), *)
(* raised, or died with the process: nothing else strands a row.            *)
StrandedRowsExplained ==
  \A t \in Tasks : row[t].status \in {"pending", "running"} =>
    \E r \in Requests :
      TaskOf[r] = t /\ pc[r] \in Live \union {"error", "rejected", "aborted", "lost"}

(* Only handlers and jobs of an id touch its row, and a finished row keeps  *)
(* its status through other jobs, crashes and restarts until a second POST  *)
(* of the same id is started.                                               *)
RowsOwned ==
  [][\A t \in Tasks :
       /\ row'[t] # row[t] => \E r \in Requests : TaskOf[r] = t /\ pc'[r] # pc[r]
       /\ row[t].status \in Terminal /\ row'[t].status # row[t].status
            => \E r \in Requests :
                 TaskOf[r] = t /\ pc[r] \in {"spawned", "finishing"}]_vars

(* app/agent/runtime.py, _notify: "실패해도 작업 계속" (the job goes on      *)
(* when the notification fails): a job leaves the notification for the      *)
(* agent, unless the process dies.                                          *)
NotifyNeverStopsJob ==
  [][\A r \in Requests :
       pc[r] = "starting" /\ pc'[r] # "starting" => pc'[r] \in {"agent", "lost"}]_vars

(* The phase a client could tell a request to be in.                        *)
PhaseOf(place) ==
  CASE place \in {"new", "created"}      -> "idle"
    [] place = "queued"                  -> "waiting"
    [] place \in Active                  -> "running"
    [] place \in {"aborted", "ended"}    -> "over"
    [] place = "rejected"                -> "busy"
    [] place \in {"badrequest", "error"} -> "refused"
    [] place = "lost"                    -> "dropped"

Admission == INSTANCE TaskAdmission WITH
               phase <- [r \in Requests |-> PhaseOf(pc[r])]

(* The worker implements the admission policy: it turns a request away only *)
(* when the queue is full (429), starts one only within the limit, and      *)
(* every waiting request is eventually started.                             *)
ImplementsAdmission == Admission!Spec
=============================================================================
