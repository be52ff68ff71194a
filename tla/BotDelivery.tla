----------------------------- MODULE BotDelivery -----------------------------
(***************************************************************************)
(* The bot in front of the worker: the commands that post a task           *)
(* (app/bot/commands/__init__.py, worker_cmd.py), and the endpoints        *)
(* through which the worker talks to the chat (app/bot/server.py).         *)
(*                                                                         *)
(* The worker is the module Worker, each of its steps joined with what the *)
(* bot has to have done for it.  The bot handles one update at a time; its *)
(* HTTP handlers run next to that, and go on when the worker has stopped   *)
(* waiting for them.                                                       *)
(*                                                                         *)
(* A call of the Telegram API delivers its message or not, and raises or   *)
(* not, independently: a time-out may come after the delivery.             *)
(***************************************************************************)
EXTENDS Worker

CONSTANTS
  PocCommands,   (* the commands that are /poc                              *)
  MaxAllFaults   (* bound: the worker's faults and, on the side of the bot, *)
                 (* crashes and POSTs to /run that time out, all together   *)

ASSUME PocAssumption == PocCommands \subseteq Requests
ASSUME BotBoundsAssumption == MaxAllFaults \in Nat

VARIABLES
  botUp,
  cmd,       (* where the handler of a command stands                       *)
  resp,      (* what became of its POST to /run                             *)
  heard,     (* what the user read in reply to the command                  *)
  http,      (* the handlers of /notify and /worker-result                  *)
  chat,      (* those of their messages that are in the chat                *)
  refused,   (* results that Telegram did not take as plain text either     *)
  offers,    (* results that were followed by an offer of an autopilot      *)
  botFaults

command  == <<cmd, resp, heard>>
delivery == <<http, chat, refused, offers>>
botVars  == <<botUp, command, delivery, botFaults>>
all      == <<vars, botVars>>

-----------------------------------------------------------------------------

Posts    == {"notify", "result"} \X Requests
Results  == {"result"} \X Requests
InFlight == {"sending", "retrying", "offering"}
Replied  == {"sent", "refused", "error"}

(* The update handlers take turns.                                          *)
Free == botUp /\ \A r \in Requests : cmd[r] # "posting"

Step(r, from, to) == cmd[r] = from /\ cmd' = [cmd EXCEPT ![r] = to]

BotFault == faults + botFaults < MaxAllFaults /\ botFaults' = botFaults + 1

DeliveryInit ==
  /\ Init
  /\ botUp = TRUE
  /\ cmd = [r \in Requests |-> "idle"]
  /\ resp = [r \in Requests |-> Unset]
  /\ heard = [r \in Requests |-> Unset]
  /\ http = [p \in Posts |-> Unset]
  /\ chat = {}
  /\ refused = {}
  /\ offers = {}
  /\ botFaults = 0

-----------------------------------------------------------------------------
(* Commands.                                                                *)

(* /task, /code, /doc, /infra, /plan, /ci, /diff, /stack and /poc post to   *)
(* the worker.  Without a description only the usage is sent.               *)
PostCommand(r) ==
  /\ Free
  /\ Step(r, "idle", "posting")
  /\ resp' = [resp EXCEPT ![r] = IF up THEN "posted" ELSE "cut"]
  /\ UNCHANGED <<vars, botUp, heard, delivery, botFaults>>

ReplyTo == [accepted |-> "started", declined |-> "warned", cut |-> "broken"]

(* The response, or the ClientError, and the reply, which may raise.        *)
Reply(r) ==
  /\ resp[r] \in DOMAIN ReplyTo
  /\ Step(r, "posting", "over")
  /\ heard' \in {heard, [heard EXCEPT ![r] = ReplyTo[resp[r]]]}
  /\ resp' = [resp EXCEPT ![r] = Unset]
  /\ UNCHANGED <<vars, botUp, delivery, botFaults>>

(* Mutant of PostTimesOut: the TimeoutError is handled as a ClientError.    *)
TimeoutCaught(r) ==
  /\ resp[r] = "posted"
  /\ BotFault
  /\ Step(r, "posting", "over")
  /\ heard' = [heard EXCEPT ![r] = "broken"]
  /\ UNCHANGED <<vars, botUp, resp, delivery>>

(* The total timeout of 5 s: its TimeoutError is no aiohttp.ClientError and *)
(* ends the handler without a word.                                         *)
PostTimesOut(r) ==
  /\ resp[r] = "posted"
  /\ BotFault
  /\ Step(r, "posting", "over")
  /\ UNCHANGED <<vars, botUp, resp, heard, delivery>>

-----------------------------------------------------------------------------
(* The worker, and its calls of the bot.                                    *)

Receive(r) ==
  /\ resp[r] = "posted"
  /\ HandleRun(r)
  /\ pc'[r] # "badrequest"      (* the description is never empty here *)
  /\ resp' = IF pc'[r] = "error" THEN [resp EXCEPT ![r] = "declined"] ELSE resp
  /\ UNCHANGED <<botUp, cmd, heard, delivery, botFaults>>

Enqueue(r) ==
  /\ PutNowait(r)
  /\ resp' = [resp EXCEPT ![r] = IF pc'[r] = "queued" THEN "accepted" ELSE "declined"]
  /\ UNCHANGED <<botUp, cmd, heard, delivery, botFaults>>

(* A POST of the worker reaches the bot, which refuses an empty result.     *)
CallBot(post, r, place) ==
  /\ up
  /\ pc[r] = place
  /\ http[<<post, r>>] = Unset
  /\ http' = [http EXCEPT ![<<post, r>>] =
                IF ~botUp THEN "error"
                ELSE IF post = "result" /\ outcome[r] = "blank" THEN "refused"
                ELSE "sending"]
  /\ UNCHANGED <<vars, botUp, command, chat, refused, offers, botFaults>>

(* The worker takes the answer, or leaves the handler alone with its work.  *)
Answered(p) ==
  /\ http[p] # Unset
  /\ http' = IF http[p] \in Replied THEN [http EXCEPT ![p] = Unset] ELSE http
  /\ UNCHANGED <<botUp, command, chat, refused, offers, botFaults>>

Notified(r) ==
  /\ Answered(<<"notify", r>>)
  /\ NotifyStart(r)
  /\ pc'[r] = "agent" <=> http[<<"notify", r>>] \in Replied

Reported(r) ==
  /\ Answered(<<"result", r>>)
  /\ Report(r)
  /\ told'[r] = IF http[<<"result", r>>] \in Replied THEN http[<<"result", r>>] ELSE "timeout"

WorkerCrash ==
  /\ Crash
  /\ resp' = [r \in Requests |-> IF resp[r] = "posted" THEN "cut" ELSE resp[r]]
  /\ UNCHANGED <<botUp, cmd, heard, delivery, botFaults>>

OwnJob(r) == SetRunning(r) \/ RunAgent(r) \/ SetDone(r) \/ StoreSummary(r)

-----------------------------------------------------------------------------
(* The HTTP handlers of the bot.                                            *)

Deliver(p) == chat' = chat \union {p}

(* A result of /poc may name the directory of a PoC; then a button follows. *)
AfterSend(p) ==
  IF p[1] = "result" /\ p[2] \in PocCommands /\ outcome[p[2]] = "ok"
  THEN {"offering", "sent"} ELSE {"sent"}

(* Mutant of SendMarkdown: no second attempt.                               *)
SendMarkdownOnly(p) ==
  /\ http[p] = "sending"
  /\ \/ Deliver(p) /\ \E next \in AfterSend(p) : http' = [http EXCEPT ![p] = next]
     \/ (Deliver(p) \/ UNCHANGED chat) /\ http' = [http EXCEPT ![p] = "error"]
  /\ UNCHANGED <<vars, botUp, command, refused, offers, botFaults>>

(* _send: every TelegramError, not only one of the parser, is answered by a *)
(* second attempt ...                                                       *)
SendMarkdown(p) ==
  /\ http[p] = "sending"
  /\ \/ Deliver(p) /\ \E next \in AfterSend(p) : http' = [http EXCEPT ![p] = next]
     \/ (Deliver(p) \/ UNCHANGED chat) /\ http' = [http EXCEPT ![p] = "retrying"]
  /\ UNCHANGED <<vars, botUp, command, refused, offers, botFaults>>

(* Mutant of SendPlain: its error is swallowed.                             *)
SendPlainSwallowing(p) ==
  /\ http[p] = "retrying"
  /\ \/ Deliver(p) /\ UNCHANGED refused
     \/ UNCHANGED chat /\ refused' = refused \union ({p} \cap Results)
  /\ \E next \in AfterSend(p) : http' = [http EXCEPT ![p] = next]
  /\ UNCHANGED <<vars, botUp, command, offers, botFaults>>

(* ... as plain text; its error is answered with 503.                       *)
SendPlain(p) ==
  /\ http[p] = "retrying"
  /\ \/ /\ Deliver(p)
        /\ \E next \in AfterSend(p) : http' = [http EXCEPT ![p] = next]
        /\ UNCHANGED refused
     \/ /\ Deliver(p) \/ UNCHANGED chat
        /\ http' = [http EXCEPT ![p] = "error"]
        /\ refused' = refused \union ({p} \cap Results)
  /\ UNCHANGED <<vars, botUp, command, offers, botFaults>>

(* _send_autopilot_offer: the message may fail; it is not sent again.       *)
SendOffer(r) ==
  /\ http[<<"result", r>>] = "offering"
  /\ http' = [http EXCEPT ![<<"result", r>>] = "sent"]
  /\ offers' \in {offers, offers \union {r}}
  /\ UNCHANGED <<vars, botUp, command, chat, refused, botFaults>>

BotHandler(p) == SendMarkdown(p) \/ SendPlain(p) \/ (p[1] = "result" /\ SendOffer(p[2]))

-----------------------------------------------------------------------------

(* Handlers and connections go; the chat stays.                             *)
BotCrash ==
  /\ botUp
  /\ BotFault
  /\ botUp' = FALSE
  /\ cmd' = [r \in Requests |-> IF cmd[r] = "posting" THEN "over" ELSE cmd[r]]
  /\ http' = [p \in Posts |-> IF http[p] \in InFlight THEN "error" ELSE http[p]]
  /\ UNCHANGED <<vars, resp, heard, chat, refused, offers>>

BotRestart ==
  /\ ~botUp
  /\ botUp' = TRUE
  /\ UNCHANGED <<vars, command, delivery, botFaults>>

JobWithBot(r) ==
  \/ OwnJob(r) /\ UNCHANGED botVars
  \/ CallBot("notify", r, "starting") \/ Notified(r)
  \/ CallBot("result", r, "reporting") \/ Reported(r)

WorkerLoop == (Acquire \/ GetJob) /\ UNCHANGED botVars

DeliveryStep ==
  \/ \E r \in Requests :
       \/ PostCommand(r) \/ PostTimesOut(r) \/ Reply(r)
       \/ Receive(r) \/ Enqueue(r) \/ JobWithBot(r)
  \/ \E p \in Posts : BotHandler(p)
  \/ WorkerLoop
  \/ WorkerCrash
  \/ Restart /\ UNCHANGED botVars
  \/ BotCrash
  \/ BotRestart

DeliveryNext == DeliveryStep /\ faults' + botFaults' <= MaxAllFaults

(* Both processes run what can run, and are restarted when they die.        *)
DeliveryFairness ==
  /\ WF_all(WorkerLoop)
  /\ WF_all(Restart /\ UNCHANGED botVars)
  /\ WF_all(BotRestart)
  /\ \A r \in Requests :
       WF_all(Receive(r)) /\ WF_all(Enqueue(r)) /\ WF_all(JobWithBot(r)) /\ WF_all(Reply(r))
  /\ \A p \in Posts : WF_all(BotHandler(p))

DeliverySpec == DeliveryInit /\ [][DeliveryNext]_all /\ DeliveryFairness

-----------------------------------------------------------------------------

(* What the worker takes for sent is in the chat, and what is in the chat   *)
(* is in the table, through crashes of either process and answers that come *)
(* after the worker has stopped waiting (_report_result, _send); and an     *)
(* autopilot of generated code is offered only below the result of a /poc   *)
(* task that is done in the table.                                          *)
SentIsDelivered ==
  \A r \in Requests :
    /\ told[r] = "sent" => <<"result", r>> \in chat
    /\ <<"result", r>> \in chat => row[TaskOf[r]].status = FinalStatus(outcome[r])
    /\ r \in offers => /\ r \in PocCommands /\ row[TaskOf[r]].status = "done"
                       /\ <<"result", r>> \in chat

(* A command that was answered with a failure has no consequence: the       *)
(* worker never runs it and no message about it follows.                    *)
FailureMeansNothing ==
  \A r \in Requests :
    heard[r] \in {"warned", "broken"} =>
      /\ pc[r] \in {"new", "error", "rejected", "lost"}
      /\ \A post \in {"notify", "result"} : <<post, r>> \notin chat

(* "처리 후 알림 드립니다" (you will be told when it is done), in             *)
(* app/bot/commands/__init__.py, and "메시지 유실 방지" (no message is lost)  *)
(* in app/bot/server.py: a command that was accepted is followed by its     *)
(* result, whatever Markdown makes of it, unless a process fails, the plain *)
(* text is refused as well, or the result is blank.                         *)
PromiseKept ==
  \A r \in Requests :
    heard[r] = "started" ~>
      \/ <<"result", r>> \in chat
      \/ faults > 0 \/ botFaults > 0
      \/ <<"result", r>> \in refused
      \/ outcome[r] = "blank"
=============================================================================
