----------------------------- MODULE BotProofs -----------------------------
(***************************************************************************)
(* Proofs about BotDelivery for any requests and limits and any number of  *)
(* faults on either side: the safety part of the refinement of Worker, and *)
(* what the chat says of the task table.                                   *)
(***************************************************************************)
EXTENDS BotDelivery, WorkerProofs

USE RequestsAssumption, TaskOfAssumption, SizesAssumption, BoundsAssumption,
    PocAssumption, BotBoundsAssumption

-----------------------------------------------------------------------------
(* The worker in front of which the bot stands                              *)

LEMMA RequestStep ==
  ASSUME NEW r \in Requests,
         PostCommand(r) \/ PostTimesOut(r) \/ Reply(r) \/ Receive(r) \/ Enqueue(r)
           \/ JobWithBot(r)
  PROVE  [Next]_vars
<1>1. CASE PostCommand(r) \/ PostTimesOut(r) \/ Reply(r)
  BY <1>1 DEF PostCommand, PostTimesOut, Reply
<1>2. CASE Receive(r) \/ Enqueue(r)
  BY <1>2 DEF Receive, Enqueue, Next
<1>3. CASE JobWithBot(r)
  BY <1>3 DEF JobWithBot, OwnJob, CallBot, Notified, Reported, Next, Job
<1>4. QED
  BY <1>1, <1>2, <1>3

LEMMA WorkerStep == [DeliveryNext]_all => [Next]_vars
<1> SUFFICES ASSUME DeliveryStep \/ UNCHANGED all PROVE [Next]_vars
  BY DEF DeliveryNext
<1>1. ASSUME NEW p \in Posts, BotHandler(p) PROVE [Next]_vars
  BY <1>1 DEF BotHandler, SendMarkdown, SendPlain, SendOffer
<1>2. CASE WorkerLoop \/ WorkerCrash \/ (Restart /\ UNCHANGED botVars)
  BY <1>2 DEF WorkerLoop, WorkerCrash, Next
<1>3. CASE BotCrash \/ BotRestart \/ UNCHANGED all
  BY <1>3 DEF BotCrash, BotRestart, all
<1>4. QED
  BY <1>1, <1>2, <1>3, RequestStep DEF DeliveryStep

(* Whatever the bot does or fails to do, the worker behind it takes only    *)
(* the steps of Worker.  (Its fairness is only model-checked.)              *)
THEOREM WorkerImplemented == DeliverySpec => Spec
<1>1. DeliveryInit => Init
  BY DEF DeliveryInit
<1>2. QED
  BY <1>1, WorkerStep, PTL DEF DeliverySpec, Spec

(* So commands that come through the bot are admitted by the policy of the  *)
(* worker: turned away only when the queue is full, started only when a     *)
(* slot is free, whatever the bot gives up, repeats or forgets.             *)
THEOREM DeliveryAdmits == DeliverySpec => Admission!Safety
BY WorkerImplemented, AdmissionImplemented, PTL

-----------------------------------------------------------------------------
(* Types of the bot                                                         *)

Handlings  == {Unset} \union InFlight \union Replied
Responses  == {Unset, "posted", "cut", "accepted", "declined"}
UserReads  == {Unset, "started", "warned", "broken"}

CommandTypes ==
  /\ cmd \in [Requests -> {"idle", "posting", "over"}]
  /\ resp \in [Requests -> Responses]
  /\ heard \in [Requests -> UserReads]

PostTypes ==
  /\ http \in [Posts -> Handlings]
  /\ chat \in SUBSET Posts
  /\ offers \in SUBSET Requests

LEMMA PostsOf == \A r \in Requests : <<"result", r>> \in Posts /\ <<"notify", r>> \in Posts
BY DEF Posts

(* Every step of a handler of a POST is one of these.                       *)
Handles(p) ==
  /\ http[p] \in InFlight
  /\ \E next \in {"sent", "offering", "retrying", "error"} :
       /\ http' = [http EXCEPT ![p] = next]
       /\ next \in {"sent", "offering"} => p \in chat'
       /\ next = "offering" => p[1] = "result" /\ p[2] \in PocCommands /\ outcome[p[2]] = "ok"
  /\ chat' = chat \/ chat' = chat \union {p}
  /\ offers' = offers
  /\ UNCHANGED <<vars, command>>

Offers(r) ==
  /\ http[<<"result", r>>] = "offering"
  /\ http' = [http EXCEPT ![<<"result", r>>] = "sent"]
  /\ offers' = offers \/ offers' = offers \union {r}
  /\ UNCHANGED <<vars, command, chat>>

LEMMA HandlerShape ==
  ASSUME NEW p \in Posts, BotHandler(p)
  PROVE  Handles(p) \/ \E r \in Requests : Offers(r)
<1>0. \A next \in AfterSend(p) :
        /\ next \in {"sent", "offering"}
        /\ next = "offering" => p[1] = "result" /\ p[2] \in PocCommands /\ outcome[p[2]] = "ok"
  BY DEF AfterSend
<1>1. CASE SendMarkdown(p)
  <2>1. http[p] = "sending" /\ UNCHANGED <<vars, command, offers>>
    BY <1>1 DEF SendMarkdown
  <2>2. CASE Deliver(p) /\ \E next \in AfterSend(p) : http' = [http EXCEPT ![p] = next]
    BY <1>0, <2>1, <2>2 DEF Deliver, Handles, InFlight
  <2>3. CASE (Deliver(p) \/ UNCHANGED chat) /\ http' = [http EXCEPT ![p] = "retrying"]
    BY <2>1, <2>3 DEF Deliver, Handles, InFlight
  <2>4. QED
    BY <1>1, <2>2, <2>3 DEF SendMarkdown
<1>2. CASE SendPlain(p)
  <2>1. http[p] = "retrying" /\ UNCHANGED <<vars, command, offers>>
    BY <1>2 DEF SendPlain
  <2>2. CASE Deliver(p) /\ \E next \in AfterSend(p) : http' = [http EXCEPT ![p] = next]
    BY <1>0, <2>1, <2>2 DEF Deliver, Handles, InFlight
  <2>3. CASE (Deliver(p) \/ UNCHANGED chat) /\ http' = [http EXCEPT ![p] = "error"]
    BY <2>1, <2>3 DEF Deliver, Handles, InFlight
  <2>4. QED
    BY <1>2, <2>2, <2>3 DEF SendPlain
<1>3. CASE p[1] = "result" /\ SendOffer(p[2])
  <2>1. p[2] \in Requests
    BY DEF Posts
  <2>2. Offers(p[2])
    BY <1>3 DEF SendOffer, Offers
  <2>3. QED
    BY <2>1, <2>2
<1>4. QED
  BY <1>1, <1>2, <1>3 DEF BotHandler

(* A step of the worker that the bot takes part in, but for the POST to     *)
(* /run and its answer.                                                     *)
Calls(post, r, place) ==
  /\ pc[r] = place
  /\ http[<<post, r>>] = Unset
  /\ \E next \in {"sending", "refused", "error"} : http' = [http EXCEPT ![<<post, r>>] = next]
  /\ UNCHANGED <<vars, command, chat, offers>>

Answers(p) ==
  /\ http' = http \/ http' = [http EXCEPT ![p] = Unset]
  /\ UNCHANGED <<command, chat, offers>>

LEMMA CallShape ==
  ASSUME NEW r \in Requests, NEW post, NEW place, CallBot(post, r, place)
  PROVE  Calls(post, r, place)
BY DEF CallBot, Calls

LEMMA AnswerShape ==
  ASSUME NEW p \in Posts, Answered(p)
  PROVE  Answers(p)
BY DEF Answered, Answers

BotDies ==
  /\ cmd' = [r \in Requests |-> IF cmd[r] = "posting" THEN "over" ELSE cmd[r]]
  /\ http' = [p \in Posts |-> IF http[p] \in InFlight THEN "error" ELSE http[p]]
  /\ UNCHANGED <<vars, resp, heard, chat, offers>>

(* Steps that touch none of the posts.                                      *)
Posted == <<http, chat, offers>>

LEMMA StepShapes ==
  ASSUME [DeliveryNext]_all
  PROVE  \/ UNCHANGED Posted
         \/ \E p \in Posts : Handles(p)
         \/ \E r \in Requests : Offers(r) \/ Calls("notify", r, "starting")
                                 \/ Calls("result", r, "reporting")
                                 \/ Notified(r) \/ Reported(r)
         \/ BotDies
<1> USE DEF Posted
<1>1. CASE UNCHANGED all
  BY <1>1 DEF all, botVars, delivery
<1>2. ASSUME NEW r \in Requests, PostCommand(r) \/ PostTimesOut(r) \/ Reply(r)
        \/ Receive(r) \/ Enqueue(r) PROVE UNCHANGED Posted
  BY <1>2 DEF PostCommand, PostTimesOut, Reply, Receive, Enqueue, delivery
<1>3. ASSUME NEW r \in Requests, JobWithBot(r)
      PROVE  \/ UNCHANGED Posted
             \/ Calls("notify", r, "starting") \/ Calls("result", r, "reporting")
             \/ Notified(r) \/ Reported(r)
  BY <1>3, CallShape DEF JobWithBot, botVars, delivery
<1>4. CASE WorkerLoop \/ WorkerCrash \/ (Restart /\ UNCHANGED botVars) \/ BotRestart
  BY <1>4 DEF WorkerLoop, WorkerCrash, BotRestart, botVars, delivery
<1>5. CASE BotCrash
  BY <1>5 DEF BotCrash, BotDies
<1>6. QED
  BY <1>1, <1>2, <1>3, <1>4, <1>5, HandlerShape DEF DeliveryNext, DeliveryStep

-----------------------------------------------------------------------------
(* What is in the chat is in the table                                      *)

(* The ids of commands are theirs alone (uuid4 in _dispatch_to_worker).     *)
OwnTaskIds == \A r, q \in Requests : TaskOf[r] = TaskOf[q] => r = q

WorkerInv == TypeOK /\ RowsInv

LEMMA WorkerHolds == DeliverySpec => []WorkerInv
<1>1. Spec => []WorkerInv
  BY TypeCorrect, RowsHold, PTL DEF WorkerInv
<1>2. QED
  BY <1>1, WorkerImplemented, PTL

ResultOf(r) == <<"result", r>>

(* The result of r is in the table, for good.                               *)
Stored(r) ==
  /\ pc[r] \in {"reporting", "summarizing", "aborted", "ended", "lost"}
  /\ row[TaskOf[r]].status = FinalStatus(outcome[r])

LEMMA StoredStays ==
  ASSUME OwnTaskIds, TypeOK, [Next]_vars, NEW r \in Requests, Stored(r)
  PROVE  Stored(r)' /\ outcome'[r] = outcome[r]
<1> USE DEF Stored
<1>0. TaskOf[r] \in Tasks
  OBVIOUS
<1>1. ASSUME StepOf(r) PROVE Stored(r)' /\ outcome'[r] = outcome[r]
  <2>1. pc[r] \in {"reporting", "summarizing"}
          /\ pc'[r] \in {"summarizing", "aborted", "ended"}
    BY <1>1 DEF StepOf, Follows, TypeOK
  <2>2. outcome'[r] = outcome[r]
    BY <1>1, <2>1 DEF StepOf
  <2>3. row'[TaskOf[r]].status = row[TaskOf[r]].status
    BY <1>0, <1>1, <2>1 DEF StepOf, Records, Writes, Update, WritesNothing, TypeOK
  <2>4. QED
    BY <2>1, <2>2, <2>3
<1>2. ASSUME NEW q \in Requests, StepOf(q), q # r PROVE Stored(r)' /\ outcome'[r] = outcome[r]
  <2>1. TaskOf[q] # TaskOf[r] /\ TaskOf[q] \in Tasks
    BY <1>2 DEF OwnTaskIds
  <2>2. pc'[r] = pc[r] /\ outcome'[r] = outcome[r]
    BY <1>2 DEF StepOf, TypeOK
  <2>3. row'[TaskOf[r]] = row[TaskOf[r]]
    BY <1>0, <1>2, <2>1 DEF StepOf, Records, Insert, Writes, Update, WritesNothing, TypeOK
  <2>4. QED
    BY <2>2, <2>3
<1>3. CASE Dies
  BY <1>3 DEF Dies, Live, Active
<1>4. QED
  BY <1>1, <1>2, <1>3, TableStep DEF Table

LEMMA ReportingIsStored ==
  ASSUME OwnTaskIds, RowsInv, NEW r \in Requests, pc[r] = "reporting"
  PROVE  Stored(r)
BY DEF OwnTaskIds, RowsInv, Stored, Alone

Offerable(r) == r \in PocCommands /\ outcome[r] = "ok" /\ ResultOf(r) \in chat

DeliveredInv ==
  /\ \A p \in Posts : http[p] \in {"sent", "offering"} => p \in chat
  /\ \A r \in Requests :
       /\ http[ResultOf(r)] # Unset \/ ResultOf(r) \in chat \/ r \in offers => Stored(r)
       /\ http[ResultOf(r)] = "offering" \/ r \in offers => Offerable(r)
       /\ told[r] = "sent" => ResultOf(r) \in chat

LEMMA PostsDiffer ==
  \A r, q \in Requests : /\ ResultOf(r) \in Posts /\ <<"notify", r>> \in Posts
                         /\ ResultOf(r) = ResultOf(q) => r = q
                         /\ ResultOf(r) # <<"notify", q>>
BY DEF ResultOf, Posts

LEMMA PostTypesNext ==
  ASSUME PostTypes, [DeliveryNext]_all
  PROVE  PostTypes'
<1> USE DEF PostTypes, Handlings, Replied, InFlight
<1>1. ASSUME UNCHANGED Posted PROVE PostTypes'
  BY <1>1 DEF Posted
<1>2. ASSUME NEW p \in Posts, Handles(p) PROVE PostTypes'
  BY <1>2 DEF Handles
<1>3. ASSUME NEW r \in Requests, Offers(r) PROVE PostTypes'
  BY <1>3, PostsOf DEF Offers
<1>4. ASSUME NEW r \in Requests, NEW post, NEW place, Calls(post, r, place) PROVE PostTypes'
  BY <1>4 DEF Calls
<1>5. ASSUME NEW p \in Posts, Answers(p) PROVE PostTypes'
  BY <1>5 DEF Answers
<1>6. CASE BotDies
  BY <1>6 DEF BotDies
<1>7. ASSUME NEW r \in Requests, Notified(r) \/ Reported(r) PROVE PostTypes'
  BY <1>5, <1>7, AnswerShape, PostsOf DEF Notified, Reported
<1>8. QED
  BY <1>1, <1>2, <1>3, <1>4, <1>6, <1>7, StepShapes

LEMMA PostTypesHold == DeliverySpec => []PostTypes
<1>1. DeliveryInit => PostTypes
  BY DEF DeliveryInit, PostTypes, Handlings
<1>2. QED
  BY <1>1, PostTypesNext, PTL DEF DeliverySpec

(* The worker has been told "sent" only by the answer to its POST.          *)
LEMMA ToldByAnswer ==
  ASSUME TypeOK, [DeliveryNext]_all, NEW r \in Requests, told'[r] = "sent", told[r] # "sent"
  PROVE  http[ResultOf(r)] = "sent"
<1>1. \A q \in Requests : HandleRun(q) \/ PutNowait(q) \/ SetRunning(q) \/ NotifyStart(q)
        \/ RunAgent(q) \/ SetDone(q) \/ StoreSummary(q) => told' = told
  BY DEF HandleRun, PutNowait, SetRunning, NotifyStart, RunAgent, SetDone, StoreSummary
<1>2. Acquire \/ GetJob \/ Crash \/ Restart \/ UNCHANGED vars => told' = told
  BY DEF Acquire, GetJob, Crash, Restart, vars
<1>3. PICK q \in Requests : Reported(q)
  <2>1. ASSUME NEW q \in Requests, PostCommand(q) \/ PostTimesOut(q) \/ Reply(q) PROVE told' = told
    BY <1>2, <2>1 DEF PostCommand, PostTimesOut, Reply
  <2>2. ASSUME NEW q \in Requests, Receive(q) \/ Enqueue(q) PROVE told' = told
    BY <1>1, <2>2 DEF Receive, Enqueue
  <2>3. ASSUME NEW q \in Requests, JobWithBot(q), ~Reported(q) PROVE told' = told
    BY <1>1, <1>2, <2>3 DEF JobWithBot, OwnJob, CallBot, Notified
  <2>4. ASSUME NEW p \in Posts, BotHandler(p) PROVE told' = told
    BY <1>2, <2>4 DEF BotHandler, SendMarkdown, SendPlain, SendOffer
  <2>5. WorkerLoop \/ WorkerCrash \/ (Restart /\ UNCHANGED botVars) => told' = told
    BY <1>2 DEF WorkerLoop, WorkerCrash
  <2>6. BotCrash \/ BotRestart \/ UNCHANGED all => told' = told
    BY <1>2 DEF BotCrash, BotRestart, all
  <2>7. QED
    BY <2>1, <2>2, <2>3, <2>4, <2>5, <2>6 DEF DeliveryNext, DeliveryStep
<1>4. \E reply \in Replies : told' = [told EXCEPT ![q] = reply]
  BY <1>3 DEF Reported, Report, Replies
<1>5. q = r
  BY <1>4 DEF TypeOK
<1>6. QED
  BY <1>3, <1>5 DEF Reported, ResultOf

LEMMA StoredUnchanged == UNCHANGED vars => \A r \in Requests : Stored(r)' <=> Stored(r)
BY DEF vars, Stored

(* Requests whose posts rest keep what is known of them.                    *)
DeliveredOf(r) ==
  /\ http[ResultOf(r)] # Unset \/ ResultOf(r) \in chat \/ r \in offers => Stored(r)
  /\ http[ResultOf(r)] = "offering" \/ r \in offers => Offerable(r)
  /\ told[r] = "sent" => ResultOf(r) \in chat

LEMMA RestDelivered ==
  ASSUME PostTypes, OwnTaskIds, WorkerInv, DeliveredInv, [DeliveryNext]_all, NEW r \in Requests,
         http'[ResultOf(r)] \in {http[ResultOf(r)], Unset},
         ResultOf(r) \in chat' <=> ResultOf(r) \in chat,
         r \in offers' <=> r \in offers
  PROVE  DeliveredOf(r)'
<1>1. Stored(r) => Stored(r)' /\ outcome'[r] = outcome[r]
  BY StoredStays, WorkerStep DEF WorkerInv
<1>2. told'[r] = "sent" => ResultOf(r) \in chat
  BY ToldByAnswer, PostsDiffer DEF DeliveredInv, WorkerInv
<1>3. Unset # "offering"
  BY DEF Unset
<1>4. QED
  BY <1>1, <1>2, <1>3 DEF DeliveredInv, DeliveredOf, Offerable

LEMMA DeliveredByHandler ==
  ASSUME PostTypes, DeliveredInv, NEW p \in Posts, Handles(p)
  PROVE  DeliveredInv'
<1> USE DEF DeliveredInv, PostTypes
<1>1. PICK next \in {"sent", "offering", "retrying", "error"} :
        /\ http' = [http EXCEPT ![p] = next]
        /\ next \in {"sent", "offering"} => p \in chat'
        /\ next = "offering" => p[1] = "result" /\ p[2] \in PocCommands /\ outcome[p[2]] = "ok"
  BY DEF Handles
<1>2. /\ http[p] \in InFlight /\ chat \subseteq chat' /\ chat' \subseteq chat \union {p}
      /\ offers' = offers /\ UNCHANGED vars
  BY DEF Handles
<1>3. http'[p] = next /\ \A q \in Posts \ {p} : http'[q] = http[q]
  BY <1>1
<1>4. \A q \in Posts : http'[q] \in {"sent", "offering"} => q \in chat'
  BY <1>1, <1>2, <1>3
<1>5. ASSUME NEW r \in Requests PROVE DeliveredOf(r)'
  <2>0. UNCHANGED <<outcome, told>> /\ (Stored(r)' <=> Stored(r))
    BY <1>2, StoredUnchanged DEF vars
  <2>1. CASE ResultOf(r) = p
    <3>1. Stored(r)
      BY <1>2, <2>1 DEF InFlight, Unset
    <3>2. next = "offering" => r \in PocCommands /\ outcome[r] = "ok" /\ p \in chat'
      BY <1>1, <2>1 DEF ResultOf
    <3>3. QED
      BY <1>2, <1>3, <2>0, <2>1, <3>1, <3>2 DEF DeliveredOf, Offerable
  <2>2. CASE ResultOf(r) # p
    BY <1>2, <1>3, <2>0, <2>2, PostsDiffer DEF DeliveredOf, Offerable
  <2>3. QED
    BY <2>1, <2>2
<1>6. QED
  BY <1>4, <1>5 DEF DeliveredOf

LEMMA DeliveredByOffer ==
  ASSUME PostTypes, DeliveredInv, NEW r \in Requests, Offers(r)
  PROVE  DeliveredInv'
<1> USE DEF DeliveredInv, PostTypes
<1>0. ResultOf(r) \in Posts
  BY PostsDiffer
<1>1. /\ http[ResultOf(r)] = "offering"
      /\ http' = [http EXCEPT ![ResultOf(r)] = "sent"]
      /\ chat' = chat /\ offers \subseteq offers' /\ offers' \subseteq offers \union {r}
      /\ UNCHANGED vars
  BY DEF Offers, ResultOf
<1>2. http'[ResultOf(r)] = "sent" /\ \A q \in Posts \ {ResultOf(r)} : http'[q] = http[q]
  BY <1>0, <1>1
<1>3. \A q \in Posts : http'[q] \in {"sent", "offering"} => q \in chat'
  BY <1>0, <1>1, <1>2
<1>4. Stored(r) /\ Offerable(r)
  BY <1>1 DEF Unset
<1>5. ASSUME NEW q \in Requests PROVE DeliveredOf(q)'
  <2>0. UNCHANGED <<outcome, told>> /\ (Stored(q)' <=> Stored(q))
    BY <1>1, StoredUnchanged DEF vars
  <2>1. CASE q = r
    BY <1>1, <1>2, <1>4, <2>0, <2>1 DEF DeliveredOf, Offerable
  <2>2. CASE q # r
    BY <1>1, <1>2, <2>0, <2>2, PostsDiffer DEF DeliveredOf, Offerable
  <2>3. QED
    BY <2>1, <2>2
<1>6. QED
  BY <1>3, <1>5 DEF DeliveredOf

LEMMA DeliveredByCall ==
  ASSUME PostTypes, OwnTaskIds, WorkerInv, DeliveredInv, NEW r \in Requests,
         NEW post \in {"notify", "result"}, NEW place,
         Calls(post, r, place), post = "result" => place = "reporting"
  PROVE  DeliveredInv'
<1> USE DEF DeliveredInv, PostTypes
<1> DEFINE p == <<post, r>>
<1>0. p \in Posts
  BY DEF Posts
<1>1. PICK next \in {"sending", "refused", "error"} : http' = [http EXCEPT ![p] = next]
  BY DEF Calls
<1>2. chat' = chat /\ offers' = offers /\ UNCHANGED vars /\ pc[r] = place
  BY DEF Calls
<1>3. http'[p] = next /\ \A q \in Posts \ {p} : http'[q] = http[q]
  BY <1>0, <1>1
<1>4. \A q \in Posts : http'[q] \in {"sent", "offering"} => q \in chat'
  BY <1>2, <1>3
<1>5. ASSUME NEW q \in Requests PROVE DeliveredOf(q)'
  <2>0. UNCHANGED <<outcome, told>> /\ (Stored(q)' <=> Stored(q))
    BY <1>2, StoredUnchanged DEF vars
  <2>1. CASE ResultOf(q) = p
    <3>1. Stored(r) /\ q = r
      BY <1>2, <2>1, ReportingIsStored DEF ResultOf, WorkerInv
    <3>2. QED
      BY <1>2, <1>3, <2>0, <2>1, <3>1 DEF DeliveredOf, Offerable
  <2>2. CASE ResultOf(q) # p
    BY <1>2, <1>3, <2>0, <2>2, PostsDiffer DEF DeliveredOf, Offerable
  <2>3. QED
    BY <2>1, <2>2
<1>6. QED
  BY <1>4, <1>5 DEF DeliveredOf

LEMMA DeliveredByAnswer ==
  ASSUME PostTypes, OwnTaskIds, WorkerInv, DeliveredInv, [DeliveryNext]_all, NEW p \in Posts, Answers(p)
  PROVE  DeliveredInv'
<1>1. \A q \in Posts : http'[q] \in {http[q], Unset}
  BY DEF Answers, PostTypes
<1>2. \A q \in Posts : http'[q] \in {"sent", "offering"} => q \in chat'
  BY <1>1 DEF Answers, DeliveredInv, Unset
<1>3. \A r \in Requests : DeliveredOf(r)'
  BY <1>1, RestDelivered, PostsDiffer DEF Answers
<1>4. QED
  BY <1>2, <1>3 DEF DeliveredInv, DeliveredOf

LEMMA DeliveredAtCrash ==
  ASSUME PostTypes, DeliveredInv, BotDies
  PROVE  DeliveredInv'
<1> USE DEF DeliveredInv, PostTypes
<1>1. /\ http' = [p \in Posts |-> IF http[p] \in InFlight THEN "error" ELSE http[p]]
      /\ chat' = chat /\ offers' = offers /\ UNCHANGED vars
  BY DEF BotDies
<1>2. \A p \in Posts : /\ http'[p] # Unset => http[p] # Unset
                       /\ http'[p] \in {"sent", "offering"} => http'[p] = http[p]
  BY <1>1 DEF InFlight, Unset
<1>3. ASSUME NEW r \in Requests PROVE DeliveredOf(r)'
  <2>1. UNCHANGED <<outcome, told>> /\ (Stored(r)' <=> Stored(r)) /\ ResultOf(r) \in Posts
    BY <1>1, StoredUnchanged, PostsDiffer DEF vars
  <2>2. QED
    BY <1>1, <1>2, <2>1 DEF DeliveredOf, Offerable
<1>4. QED
  BY <1>1, <1>2, <1>3 DEF DeliveredOf

LEMMA DeliveredNext ==
  ASSUME PostTypes, OwnTaskIds, WorkerInv, DeliveredInv, [DeliveryNext]_all
  PROVE  DeliveredInv'
<1>1. CASE UNCHANGED Posted
  <2>1. \A r \in Requests : DeliveredOf(r)'
    BY <1>1, RestDelivered DEF Posted
  <2>2. QED
    BY <1>1, <2>1 DEF Posted, DeliveredInv, DeliveredOf
<1>2. ASSUME NEW r \in Requests, Notified(r) \/ Reported(r) PROVE DeliveredInv'
  BY <1>2, AnswerShape, DeliveredByAnswer, PostsOf DEF Notified, Reported
<1>3. QED
  BY <1>1, <1>2, StepShapes, DeliveredByHandler, DeliveredByOffer, DeliveredByCall,
     DeliveredAtCrash

(* When no two commands share an id, and through crashes of either process  *)
(* and late answers: "sent" means in the chat, in the chat means stored,    *)
(* and an autopilot is offered below a stored result of /poc only.          *)
THEOREM SentDelivered == ASSUME OwnTaskIds PROVE DeliverySpec => []SentIsDelivered
<1>1. DeliveryInit => DeliveredInv
  BY PostsDiffer DEF DeliveryInit, Init, DeliveredInv, Unset
<1>2. PostTypes /\ WorkerInv /\ DeliveredInv /\ [DeliveryNext]_all => DeliveredInv'
  BY DeliveredNext
<1>3. DeliveredInv => SentIsDelivered
  BY DEF DeliveredInv, SentIsDelivered, Stored, Offerable, ResultOf, FinalStatus
<1>4. QED
  BY <1>1, <1>2, <1>3, WorkerHolds, PostTypesHold, PTL DEF DeliverySpec

-----------------------------------------------------------------------------
(* What a failure that the user reads says                                  *)

Before == {"new", "created", "error", "rejected"}

Quiet(r) ==
  \A post \in {"notify", "result"} :
    http[<<post, r>>] = Unset /\ <<post, r>> \notin chat

LEMMA QuietStays ==
  ASSUME PostTypes, [DeliveryNext]_all, NEW r \in Requests, Quiet(r),
         pc[r] \in Before \union {"lost"}
  PROVE  Quiet(r)'
<1> USE DEF PostTypes
<1>0. /\ \A p \in Posts : p = <<p[1], p[2]>> /\ p[1] \in {"notify", "result"} /\ p[2] \in Requests
      /\ \A post \in {"notify", "result"} : <<post, r>> \in Posts
  BY DEF Posts
<1>1. ASSUME UNCHANGED Posted PROVE Quiet(r)'
  BY <1>1 DEF Posted, Quiet
<1>2. ASSUME NEW p \in Posts, Handles(p) PROVE Quiet(r)'
  <2>1. p[2] # r
    BY <1>0, <1>2 DEF Handles, Quiet, InFlight, Unset
  <2>2. \A post \in {"notify", "result"} : <<post, r>> # p
    BY <1>0, <2>1
  <2>3. QED
    BY <1>0, <1>2, <2>2 DEF Handles, Quiet
<1>3. ASSUME NEW q \in Requests, Offers(q) PROVE Quiet(r)'
  <2>1. q # r
    BY <1>3 DEF Offers, Quiet, Unset
  <2>2. \A post \in {"notify", "result"} : <<post, r>> # <<"result", q>>
    BY <2>1
  <2>3. QED
    BY <1>0, <1>3, <2>2 DEF Offers, Quiet
<1>4. ASSUME NEW q \in Requests, NEW post \in {"notify", "result"},
             NEW place \in {"starting", "reporting"}, Calls(post, q, place)
      PROVE  Quiet(r)'
  <2>1. q # r
    BY <1>4 DEF Calls, Before
  <2>2. \A other \in {"notify", "result"} : <<other, r>> # <<post, q>>
    BY <2>1
  <2>3. QED
    BY <1>0, <1>4, <2>2 DEF Calls, Quiet
<1>5. ASSUME NEW q \in Requests, Notified(q) \/ Reported(q) PROVE Quiet(r)'
  <2>1. PICK p \in Posts : Answers(p)
    BY <1>5, AnswerShape, PostsOf DEF Notified, Reported
  <2>2. QED
    BY <1>0, <2>1 DEF Answers, Quiet
<1>6. CASE BotDies
  BY <1>0, <1>6 DEF BotDies, Quiet, InFlight, Unset
<1>7. QED
  BY <1>1, <1>2, <1>3, <1>4, <1>5, <1>6, StepShapes

SilenceOf(r) ==
  /\ resp[r] = "posted" => pc[r] \in {"new", "created"}
  /\ pc[r] = "created" => resp[r] = "posted"
  /\ resp[r] = "declined" => pc[r] \in {"error", "rejected"}
  /\ cmd[r] = "idle" => pc[r] = "new" /\ resp[r] = Unset /\ heard[r] = Unset
  /\ heard[r] # Unset => resp[r] = Unset /\ cmd[r] = "over"
  /\ pc[r] \in Before => Quiet(r)
  /\ resp[r] = "cut" \/ heard[r] \in {"warned", "broken"} =>
       Quiet(r) /\ pc[r] \in {"new", "error", "rejected", "lost"}

SilenceInv == CommandTypes /\ PostTypes /\ \A r \in Requests : SilenceOf(r)

(* The ways a step may move the request of a command.                       *)
Stands(r)  == pc'[r] = pc[r]
GoesOn(r)  == pc[r] \notin Before \union {"lost"} /\ pc'[r] \notin Before
CommandRests(r) == resp'[r] = resp[r] /\ cmd'[r] = cmd[r] /\ heard'[r] = heard[r]

LEMMA SilenceRests ==
  ASSUME SilenceInv, [DeliveryNext]_all, NEW r \in Requests, CommandRests(r),
         Stands(r) \/ GoesOn(r)
  PROVE  SilenceOf(r)'
BY QuietStays DEF SilenceInv, SilenceOf, CommandRests, Stands, GoesOn, Before

Follow(r) == Stands(r) \/ GoesOn(r)

(* Loop and jobs move requests that were queued.                            *)
LEMMA LaterSteps ==
  ASSUME TypeOK, NEW q \in Requests,
         GetJob \/ SetRunning(q) \/ NotifyStart(q) \/ RunAgent(q) \/ SetDone(q)
           \/ Report(q) \/ StoreSummary(q)
  PROVE  \A r \in Requests : Follow(r)
<1> USE DEF Follow, Stands, GoesOn, Before
<1>1. ASSUME NEW x \in Requests, NEW from, NEW to, Move(x, from, to),
             from \notin Before \union {"lost"}, to \notin Before
      PROVE  \A r \in Requests : Follow(r)
  BY <1>1 DEF Move, TypeOK
<1>2. CASE GetJob
  <2>1. Head(queue) \in Requests
    BY <1>2 DEF GetJob, TypeOK
  <2>2. Move(Head(queue), "queued", "spawned")
    BY <1>2 DEF GetJob
  <2>3. QED
    BY <1>1, <2>1, <2>2
<1>3. ASSUME ~GetJob
      PROVE  \E from \in Active, to \in Active \union {"aborted", "ended"} : Move(q, from, to)
  BY <1>3 DEF SetRunning, NotifyStart, RunAgent, SetDone, Report, StoreSummary, Raise, Active
<1>4. QED
  BY <1>1, <1>2, <1>3 DEF Active

LEMMA SilenceCommand ==
  ASSUME SilenceInv, [DeliveryNext]_all, NEW q \in Requests,
         PostCommand(q) \/ PostTimesOut(q) \/ Reply(q), NEW r \in Requests
  PROVE  SilenceOf(r)'
<1> USE DEF SilenceInv, SilenceOf, CommandTypes
<1>1. UNCHANGED pc /\ (Quiet(r) => Quiet(r)')
  BY DEF PostCommand, PostTimesOut, Reply, vars, delivery, Quiet
<1>2. CASE r # q
  BY <1>1, <1>2 DEF PostCommand, PostTimesOut, Reply, Step
<1>3. CASE PostCommand(r)
  BY <1>1, <1>3 DEF PostCommand, Step, Before, Unset
<1>4. CASE PostTimesOut(r)
  BY <1>1, <1>4 DEF PostTimesOut, Step, Unset
<1>5. CASE Reply(r)
  <2>1. resp[r] \in {"accepted", "declined", "cut"}
    BY <1>5 DEF Reply, ReplyTo
  <2>2. /\ ReplyTo["accepted"] = "started" /\ ReplyTo["declined"] = "warned"
        /\ ReplyTo["cut"] = "broken"
    BY DEF ReplyTo
  <2>3. /\ cmd'[r] = "over" /\ resp'[r] = Unset
        /\ heard'[r] \in {heard[r], ReplyTo[resp[r]]}
    BY <1>5 DEF Reply, Step
  <2>4. heard[r] = Unset /\ pc[r] # "created"
    BY <2>1 DEF Unset
  <2>5. QED
    BY <1>1, <2>1, <2>2, <2>3, <2>4 DEF Before, Unset
<1>6. QED
  BY <1>2, <1>3, <1>4, <1>5

LEMMA SilenceHandler ==
  ASSUME SilenceInv, TypeOK, [DeliveryNext]_all, NEW q \in Requests,
         Receive(q) \/ Enqueue(q), NEW r \in Requests
  PROVE  SilenceOf(r)'
<1> USE DEF SilenceInv, SilenceOf, CommandTypes
<1>1. UNCHANGED <<cmd, heard>> /\ (Quiet(r) => Quiet(r)')
  BY DEF Receive, Enqueue, delivery, Quiet
<1>2. CASE r # q
  <2>1. pc'[r] = pc[r]
    BY <1>2 DEF Receive, Enqueue, HandleRun, PutNowait, Move, TypeOK
  <2>2. resp'[r] = resp[r]
    BY <1>2 DEF Receive, Enqueue
  <2>3. QED
    BY <1>1, <2>1, <2>2
<1>3. CASE Receive(r)
  <2>1. resp[r] = "posted" /\ pc[r] = "new" /\ pc'[r] \in {"created", "error"}
    BY <1>3 DEF Receive, HandleRun, Move, TypeOK
  <2>2. resp'[r] = IF pc'[r] = "error" THEN "declined" ELSE "posted"
    BY <1>3, <2>1 DEF Receive
  <2>3. QED
    BY <1>1, <2>1, <2>2 DEF Before, Unset
<1>4. CASE Enqueue(r)
  <2>1. resp[r] = "posted" /\ pc[r] = "created" /\ pc'[r] \in {"queued", "rejected"}
    BY <1>4 DEF Enqueue, PutNowait, Move, TypeOK
  <2>2. resp'[r] = IF pc'[r] = "queued" THEN "accepted" ELSE "declined"
    BY <1>4 DEF Enqueue
  <2>3. QED
    BY <1>1, <2>1, <2>2 DEF Before, Unset
<1>5. QED
  BY <1>2, <1>3, <1>4

LEMMA SilenceCrash ==
  ASSUME SilenceInv, TypeOK, [DeliveryNext]_all, WorkerCrash, NEW r \in Requests
  PROVE  SilenceOf(r)'
<1>1. /\ pc'[r] = IF pc[r] \in Live THEN "lost" ELSE pc[r]
      /\ resp'[r] = IF resp[r] = "posted" THEN "cut" ELSE resp[r]
      /\ UNCHANGED <<cmd, heard>> /\ (Quiet(r) => Quiet(r)')
  BY DEF WorkerCrash, Crash, delivery, Quiet
<1>2. QED
  BY <1>1 DEF SilenceInv, SilenceOf, Before, Live, Active, Unset

LEMMA SilenceBotDies ==
  ASSUME SilenceInv, [DeliveryNext]_all, BotDies, NEW r \in Requests
  PROVE  SilenceOf(r)'
<1>1. /\ cmd'[r] = IF cmd[r] = "posting" THEN "over" ELSE cmd[r]
      /\ UNCHANGED <<pc, resp, heard>>
  BY DEF BotDies, vars
<1>2. pc[r] \in Before \union {"lost"} /\ Quiet(r) => Quiet(r)'
  BY QuietStays DEF SilenceInv
<1>3. QED
  BY <1>1, <1>2 DEF SilenceInv, SilenceOf, Before

LEMMA SilenceJob ==
  ASSUME SilenceInv, TypeOK, [DeliveryNext]_all, NEW q \in Requests, JobWithBot(q),
         NEW r \in Requests
  PROVE  SilenceOf(r)'
<1>1. CommandRests(r)
  BY DEF JobWithBot, CallBot, Notified, Reported, Answered, CommandRests, command, botVars
<1>2. CASE OwnJob(q) \/ Notified(q) \/ Reported(q)
  BY <1>1, <1>2, LaterSteps, SilenceRests DEF OwnJob, Notified, Reported, Follow
<1>3. CASE CallBot("notify", q, "starting") \/ CallBot("result", q, "reporting")
  <2>1. Stands(r)
    BY <1>3 DEF CallBot, vars, Stands
  <2>2. QED
    BY <1>1, <2>1, SilenceRests
<1>4. QED
  BY <1>2, <1>3 DEF JobWithBot

(* Everything else leaves the commands and their requests where they are.   *)
LEMMA SilenceElsewhere ==
  ASSUME SilenceInv, TypeOK, [DeliveryNext]_all, NEW r \in Requests,
         \/ \E p \in Posts : BotHandler(p)
         \/ WorkerLoop \/ (Restart /\ UNCHANGED botVars) \/ BotRestart \/ UNCHANGED all
  PROVE  SilenceOf(r)'
<1>1. CommandRests(r)
  BY DEF BotHandler, SendMarkdown, SendPlain, SendOffer, WorkerLoop, BotRestart,
         CommandRests, all, botVars, command
<1>2. CASE GetJob
  BY <1>1, <1>2, LaterSteps, SilenceRests DEF Follow
<1>3. ASSUME ~GetJob PROVE Stands(r)
  BY <1>3 DEF BotHandler, SendMarkdown, SendPlain, SendOffer, WorkerLoop, Acquire, Restart,
              BotRestart, Stands, all, vars
<1>4. QED
  BY <1>1, <1>2, <1>3, SilenceRests

LEMMA CommandTypesNext == CommandTypes /\ [DeliveryNext]_all => CommandTypes'
<1> SUFFICES ASSUME CommandTypes, DeliveryStep \/ UNCHANGED all PROVE CommandTypes'
  BY DEF DeliveryNext
<1> USE DEF CommandTypes, Responses, UserReads
<1>1. ASSUME UNCHANGED command PROVE CommandTypes'
  BY <1>1 DEF command
<1>2. ASSUME NEW r \in Requests, PostCommand(r) \/ PostTimesOut(r) PROVE CommandTypes'
  BY <1>2 DEF PostCommand, PostTimesOut, Step
<1>3. ASSUME NEW r \in Requests, Reply(r) PROVE CommandTypes'
  <2>1. resp[r] \in {"accepted", "declined", "cut"}
    BY <1>3 DEF Reply, ReplyTo
  <2>2. ReplyTo[resp[r]] \in {"started", "warned", "broken"}
    BY <2>1 DEF ReplyTo
  <2>3. heard' = heard \/ heard' = [heard EXCEPT ![r] = ReplyTo[resp[r]]]
    BY <1>3 DEF Reply
  <2>4. heard' \in [Requests -> UserReads]
    BY <2>2, <2>3
  <2>5. QED
    BY <1>3, <2>4 DEF Reply, Step
<1>4. ASSUME NEW r \in Requests, Receive(r) \/ Enqueue(r) PROVE CommandTypes'
  BY <1>4 DEF Receive, Enqueue
<1>5. ASSUME NEW r \in Requests, JobWithBot(r) PROVE UNCHANGED command
  BY <1>5 DEF JobWithBot, CallBot, Notified, Reported, Answered, botVars
<1>6. ASSUME NEW p \in Posts, BotHandler(p) PROVE UNCHANGED command
  BY <1>6 DEF BotHandler, SendMarkdown, SendPlain, SendOffer
<1>7. CASE WorkerLoop \/ (Restart /\ UNCHANGED botVars) \/ BotRestart \/ UNCHANGED all
  BY <1>1, <1>7 DEF WorkerLoop, BotRestart, all, botVars
<1>8. CASE WorkerCrash
  BY <1>8 DEF WorkerCrash
<1>9. CASE BotCrash
  BY <1>9 DEF BotCrash
<1>10. QED
  BY <1>1, <1>2, <1>3, <1>4, <1>5, <1>6, <1>7, <1>8, <1>9 DEF DeliveryStep

LEMMA SilenceNext == TypeOK /\ SilenceInv /\ [DeliveryNext]_all => SilenceInv'
<1> SUFFICES ASSUME TypeOK, SilenceInv, [DeliveryNext]_all PROVE SilenceInv'
  OBVIOUS
<1>1. CommandTypes' /\ PostTypes'
  BY CommandTypesNext, PostTypesNext DEF SilenceInv
<1>2. ASSUME NEW r \in Requests PROVE SilenceOf(r)'
  <2>1. ASSUME NEW q \in Requests,
               PostCommand(q) \/ PostTimesOut(q) \/ Reply(q) \/ Receive(q) \/ Enqueue(q)
                 \/ JobWithBot(q)
        PROVE  SilenceOf(r)'
    BY <2>1, SilenceCommand, SilenceHandler, SilenceJob
  <2>2. CASE WorkerCrash
    BY <2>2, SilenceCrash
  <2>3. CASE BotCrash
    <3>1. BotDies
      BY <2>3 DEF BotCrash, BotDies
    <3>2. QED
      BY <3>1, SilenceBotDies
  <2>4. CASE \/ \E p \in Posts : BotHandler(p)
             \/ WorkerLoop \/ (Restart /\ UNCHANGED botVars) \/ BotRestart \/ UNCHANGED all
    BY ONLY <2>4, TypeOK, SilenceInv, [DeliveryNext]_all, r \in Requests, SilenceElsewhere
  <2>5. QED
    BY <2>1, <2>2, <2>3, <2>4 DEF DeliveryNext, DeliveryStep
<1>3. QED
  BY <1>1, <1>2 DEF SilenceInv

(* A command that the user was told had failed (the warning or the          *)
(* connection error of _dispatch_to_worker) is never run and never reported *)
(* on, whenever either process crashes and whichever POST times out.        *)
THEOREM FailureIsSilent == DeliverySpec => []FailureMeansNothing
<1>1. DeliveryInit => SilenceInv
  BY DEF DeliveryInit, Init, SilenceInv, SilenceOf, CommandTypes, Responses, UserReads,
         PostTypes, Handlings, Quiet, Posts, Before, Unset
<1>2. SilenceInv => FailureMeansNothing
  BY DEF SilenceInv, SilenceOf, FailureMeansNothing, Quiet
<1>3. WorkerInv => TypeOK
  BY DEF WorkerInv
<1>4. QED
  BY <1>1, <1>2, <1>3, SilenceNext, WorkerHolds, PTL DEF DeliverySpec
=============================================================================
