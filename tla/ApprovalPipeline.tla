--------------------------- MODULE ApprovalPipeline ---------------------------
(***************************************************************************)
(* /run: the dependency audit of the bot (app/pipeline/runner.py), started *)
(* by a command (app/bot/commands/pipeline_cmd.py) and gated by an inline  *)
(* button (app/bot/notifier.py).                                           *)
(*                                                                         *)
(* Three kinds of actors share one event loop: the dispatcher of           *)
(* python-telegram-bot, which handles one update at a time and may be held *)
(* up by another handler for as long as that one awaits a network call;    *)
(* one task per pipeline; and the user, who taps a button from the moment  *)
(* the message is delivered until an edit removes its keyboard.  The state *)
(* is the memory of the bot, except for the messages the user sees and the *)
(* reports on disk.                                                        *)
(***************************************************************************)
EXTENDS Integers, Sequences, FiniteSets

CONSTANTS
  Pipelines,         (* /run commands, and the pipelines they start         *)
  MaxTaps,           (* bound: taps on one message                          *)
  MaxFaults          (* bound: crashes of the bot, calls of the Telegram    *)
                     (* API, scans or writes that raise                     *)

ASSUME PipelinesAssumption == IsFiniteSet(Pipelines)
ASSUME BoundsAssumption == MaxTaps \in Nat /\ MaxFaults \in Nat

VARIABLES
  updates,   (* received by the bot, not dispatched yet                     *)
  handler,   (* the update in the hands of the dispatcher, and whether the  *)
             (* handler took it up or found it out of date                  *)
  running,   (* _state.running                                              *)
  stage,     (* where a pipeline stands                                     *)
  pending,   (* keys of notifier._pending                                   *)
  approved,  (* result["approved"] of a request; set means the event is set *)
  verdict,   (* how request_approval ended: a decision, or its timeout      *)
  saved,     (* pipelines whose report is on disk                           *)
  shown,     (* the message of a request as the user sees it                *)
  taps,      (* what the user tapped on it, in order                        *)
  faults     (* faults so far; only bounds the model                        *)

bot  == <<pending, approved, verdict>>
user == <<shown, taps>>
vars == <<updates, handler, running, stage, bot, saved, user, faults>>

-----------------------------------------------------------------------------

Unset   == "none"
Choices == {"approve", "reject"}
Updates == [do : {"run"} \union Choices, id : Pipelines]
Idle    == [do |-> "nothing"]

(* The messages a pipeline sends, each with the stages that may follow.     *)
Following ==
  [begin      |-> {"collect"},
   collect    |-> {"scan"},
   scanned    |-> {"clean", "analyze"},
   scanfailed |-> {"ended"},
   clean      |-> {"ended"},
   stopped    |-> {"ended"},
   executed   |-> {"completed"},
   completed  |-> {"ended"},
   error      |-> {"ended"}]

Active == DOMAIN Following
            \union {"scan", "analyze", "asking", "waiting", "timingout", "execute"}
Stage  == {"idle", "sent", "created", "refused", "ended", "lost"} \union Active

Goes(p, from, to) == stage[p] = from /\ stage' = [stage EXCEPT ![p] = to]

(* Mutant of Finally: the flag is reset where the pipeline is complete.     *)
FinallyWhenComplete(p) ==
  running' = IF stage[p] = "completed" /\ stage'[p] = "ended" THEN FALSE ELSE running

(* The finally of _run_pipeline, when p ends.                               *)
Finally(p) == running' = IF stage'[p] = "ended" THEN FALSE ELSE running

Fails == faults < MaxFaults /\ faults' = faults + 1

-----------------------------------------------------------------------------

Init ==
  /\ updates = <<>>
  /\ handler = Idle
  /\ running = FALSE
  /\ stage = [p \in Pipelines |-> "idle"]
  /\ pending = {}
  /\ approved = [p \in Pipelines |-> Unset]
  /\ verdict = [p \in Pipelines |-> Unset]
  /\ saved = {}
  /\ shown = [p \in Pipelines |-> Unset]
  /\ taps = [p \in Pipelines |-> <<>>]
  /\ faults = 0

(* The user.                                                                *)
SendRun(p) ==
  /\ Goes(p, "idle", "sent")
  /\ updates' = Append(updates, [do |-> "run", id |-> p])
  /\ UNCHANGED <<handler, running, bot, saved, user, faults>>

Tap(p, choice) ==
  /\ shown[p] = "asked"
  /\ Len(taps[p]) < MaxTaps
  /\ taps' = [taps EXCEPT ![p] = Append(@, choice)]
  /\ updates' = Append(updates, [do |-> choice, id |-> p])
  /\ UNCHANGED <<handler, running, stage, bot, saved, shown, faults>>

(* Mutant of Accepts: the callback does not look the request up.            *)
AcceptsEveryTap(u) == u.do = "run" => ~running

(* cmd_run looks at the flag, _handle_callback at the pending requests.     *)
Accepts(u) == IF u.do = "run" THEN ~running ELSE u.id \in pending

(* The dispatcher runs a handler up to its first await; a callback records  *)
(* the decision and wakes the waiter before it awaits anything.             *)
Dispatch ==
  /\ handler = Idle
  /\ updates # <<>>
  /\ updates' = Tail(updates)
  /\ LET u == Head(updates)
     IN  /\ handler' = [do |-> u.do, id |-> u.id, accepted |-> Accepts(u)]
         /\ approved' = IF u.do \in Choices /\ Accepts(u)
                        THEN [approved EXCEPT ![u.id] = u.do] ELSE approved
  /\ UNCHANGED <<running, stage, pending, verdict, saved, user, faults>>

(* The rest of cmd_run: the reply and create_task, or only the reply.       *)
FinishRun ==
  /\ handler.do = "run"
  /\ handler' = Idle
  /\ \/ /\ Goes(handler.id, "sent", IF handler.accepted THEN "created" ELSE "refused")
        /\ UNCHANGED faults
     \/ Goes(handler.id, "sent", "refused") /\ Fails
  /\ UNCHANGED <<updates, running, bot, saved, user>>

(* The rest of _handle_callback: the edit, which removes the keyboard; for  *)
(* a request that is not pending only query.answer.  A waiter that was      *)
(* woken runs before the edit is answered over the network.                 *)
FinishTap ==
  /\ handler.do \in Choices
  /\ ~(stage[handler.id] = "waiting" /\ approved[handler.id] # Unset)
  /\ handler' = Idle
  /\ \/ /\ shown' = IF handler.accepted
                    THEN [shown EXCEPT ![handler.id] = handler.do] ELSE shown
        /\ UNCHANGED faults
     \/ UNCHANGED shown /\ Fails
  /\ UNCHANGED <<updates, running, stage, bot, saved, taps>>

(* The first step of _run_pipeline.                                         *)
Begin(p) ==
  /\ Goes(p, "created", "begin")
  /\ running' = TRUE
  /\ UNCHANGED <<updates, handler, bot, saved, user, faults>>

(* Mutant of Raise: a stage nothing knows.                                  *)
RaiseAsFailed(p, from) == Fails /\ Goes(p, from, "failed") /\ UNCHANGED running

(* Any exception ends pipeline.run; the message about it may fail as well.  *)
Raise(p, from) ==
  /\ Fails
  /\ Goes(p, from, IF from = "error" THEN "ended" ELSE "error")
  /\ Finally(p)

(* notifier.send_message: twice, the second time without Markdown.          *)
Say(p) ==
  /\ stage[p] \in DOMAIN Following
  /\ \/ /\ \E to \in Following[stage[p]] : Goes(p, stage[p], to)
        /\ Finally(p)
        /\ UNCHANGED faults
     \/ Raise(p, stage[p])
  /\ UNCHANGED <<updates, handler, bot, saved, user>>

(* security_audit.scan: aiohttp.ClientError is told to the user, any other  *)
(* exception ends the pipeline.                                             *)
Scan(p) ==
  /\ \/ Goes(p, "scan", "scanned") /\ UNCHANGED <<running, faults>>
     \/ Goes(p, "scan", "scanfailed") /\ Fails /\ UNCHANGED running
     \/ Raise(p, "scan")
  /\ UNCHANGED <<updates, handler, bot, saved, user>>

(* analyze_with_llm never raises; then request_approval registers the       *)
(* request and sends the message.                                           *)
Ask(p) ==
  /\ Goes(p, "analyze", "asking")
  /\ pending' = pending \union {p}
  /\ UNCHANGED <<updates, handler, running, approved, verdict, saved, user, faults>>

Deliver(p) ==
  /\ stage[p] = "asking"
  /\ shown[p] = Unset
  /\ shown' = [shown EXCEPT ![p] = "asked"]
  /\ UNCHANGED <<updates, handler, running, stage, bot, saved, taps, faults>>

(* The send returns; when it raises, delivered or not, it does so before    *)
(* the try block whose finally forgets the request.                         *)
Asked(p) ==
  /\ \/ Goes(p, "asking", "waiting") /\ shown[p] # Unset /\ UNCHANGED <<running, faults>>
     \/ Raise(p, "asking")
  /\ UNCHANGED <<updates, handler, bot, saved, user>>

(* Mutant of Forget: the finally is missing.                                *)
ForgetNothing(p) == UNCHANGED pending

Forget(p) == pending' = pending \ {p}

Wake(p) ==
  /\ approved[p] # Unset
  /\ Goes(p, "waiting", IF approved[p] = "approve" THEN "execute" ELSE "stopped")
  /\ verdict' = [verdict EXCEPT ![p] = approved[p]]
  /\ Forget(p)
  /\ UNCHANGED <<updates, handler, running, approved, saved, user, faults>>

(* Mutant of TimeOut: event.wait() without wait_for.                        *)
NoTimeOut(p) == FALSE

(* wait_for gives up, whatever is queued for the dispatcher or was recorded *)
(* since the waiter last ran.                                               *)
TimeOut(p) ==
  /\ Goes(p, "waiting", "timingout")
  /\ UNCHANGED <<updates, handler, running, bot, saved, user, faults>>

(* Mutant of TimedOut: a tap taken meanwhile is returned after all.         *)
TimedOutLate(p) ==
  /\ \/ /\ Goes(p, "timingout", IF approved[p] = "approve" THEN "execute" ELSE "stopped")
        /\ verdict' = [verdict EXCEPT ![p] = "timeout"]
        /\ UNCHANGED <<running, faults>>
     \/ Raise(p, "timingout") /\ UNCHANGED verdict
  /\ Forget(p)
  /\ UNCHANGED <<updates, handler, approved, saved, user>>

(* The message about the timeout is out, and request_approval returns False.*)
TimedOut(p) ==
  /\ \/ /\ Goes(p, "timingout", "stopped")
        /\ verdict' = [verdict EXCEPT ![p] = "timeout"]
        /\ UNCHANGED <<running, faults>>
     \/ Raise(p, "timingout") /\ UNCHANGED verdict
  /\ Forget(p)
  /\ UNCHANGED <<updates, handler, approved, saved, user>>

(* step_execute up to save_report.                                          *)
Execute(p) ==
  /\ \/ /\ Goes(p, "execute", "executed")
        /\ saved' = saved \union {p}
        /\ UNCHANGED <<running, faults>>
     \/ Raise(p, "execute") /\ UNCHANGED saved
  /\ UNCHANGED <<updates, handler, bot, user>>

(* The bot dies and is started again: updates it has received are lost.     *)
Crash ==
  /\ Fails
  /\ updates' = <<>>
  /\ handler' = Idle
  /\ running' = FALSE
  /\ pending' = {}
  /\ stage' = [p \in Pipelines |->
                 IF stage[p] \in Active \union {"sent", "created"} THEN "lost" ELSE stage[p]]
  /\ UNCHANGED <<approved, verdict, saved, user>>

Dispatcher == Dispatch \/ FinishRun \/ FinishTap

Pipeline(p) ==
  Begin(p) \/ Say(p) \/ Scan(p) \/ Ask(p) \/ Asked(p) \/ Wake(p) \/ TimeOut(p)
    \/ TimedOut(p) \/ Execute(p)

Next ==
  \/ \E p \in Pipelines : SendRun(p) \/ Deliver(p) \/ Pipeline(p)
                          \/ \E choice \in Choices : Tap(p, choice)
  \/ Dispatcher
  \/ Crash

(* The event loop runs every task; the user need not do anything.           *)
Fairness ==
  /\ WF_vars(Dispatcher)
  /\ \A p \in Pipelines : WF_vars(Pipeline(p)) /\ WF_vars(Deliver(p))

Spec == Init /\ [][Next]_vars
FairSpec == Spec /\ Fairness

-----------------------------------------------------------------------------

TypeOK ==
  /\ updates \in Seq(Updates)
  /\ handler \in {Idle} \union [do : {"run"} \union Choices, id : Pipelines,
                                accepted : BOOLEAN]
  /\ running \in BOOLEAN
  /\ stage \in [Pipelines -> Stage]
  /\ pending \subseteq Pipelines
  /\ approved \in [Pipelines -> Choices \union {Unset}]
  /\ verdict \in [Pipelines -> Choices \union {"timeout", Unset}]
  /\ saved \subseteq Pipelines
  /\ shown \in [Pipelines -> Choices \union {"asked", Unset}]
  /\ taps \in [Pipelines -> Seq(Choices)]
  /\ faults \in Nat

Tapped(p) == {taps[p][i] : i \in 1..Len(taps[p])}

(* The approval gate: a report is written only for a pipeline whose own     *)
(* message the user tapped to approve, whatever else was tapped, failed or  *)
(* crashed, and whose request_approval returned that decision: once it has  *)
(* given up ("⏰ 타임아웃 - 작업이 자동 중단되었습니다", the task was stopped    *)
(* automatically), a tap that is still accepted while the timeout is being  *)
(* told has no effect.                                                      *)
ReportOnlyIfApproved == \A p \in saved : verdict[p] = "approve" /\ "approve" \in Tapped(p)

(* Once taps are handled, the message says what request_approval returned:  *)
(* later taps find the request gone and edit nothing, and the last of those *)
(* that arrive before request_approval waits wins both.                     *)
ShownMatchesVerdict ==
  faults = 0 =>
    \A p \in Pipelines :
      verdict[p] \in Choices /\ ~(handler.do \in Choices /\ handler.id = p)
        => shown[p] = verdict[p]

(* A request that was decided has left _pending; one stays there for good   *)
(* only when its own message could not be sent, which no finally covers.    *)
PendingExplained ==
  \A p \in pending :
    verdict[p] = Unset /\ stage[p] \in {"asking", "waiting", "timingout", "error", "ended"}

(* /run is never refused for good: when no pipeline is at work the flag is  *)
(* down, however the last one ended.                                        *)
FlagFallsWithLast ==
  (\A p \in Pipelines : stage[p] \notin Active) => ~running

(* Every /run comes to an end, without any tap and whatever raises.         *)
EveryRunEnds ==
  \A p \in Pipelines : stage[p] = "sent" ~> stage[p] \in {"refused", "ended", "lost"}

(* app/bot/commands/pipeline_cmd.py, cmd_run: "파이프라인이 이미 실행 중입니다" *)
(* (a second /run is refused while a pipeline runs): at most one at work.   *)
OnePipeline == Cardinality({p \in Pipelines : stage[p] \in Active}) <= 1
=============================================================================
