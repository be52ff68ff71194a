------------------------------ MODULE Gateway -------------------------------
(***************************************************************************)
(* The agent behind a task (app/agent/graph.py): a plan is decomposed and  *)
(* its parts run one by one; a part is retrieved for, routed and executed  *)
(* by a loop of model calls and tools on one back end.  An exception at    *)
(* any await leaves run_task and run_plan_task; _process_task of the       *)
(* worker turns it into a failed outcome.                                  *)
(*                                                                         *)
(* The tools that one message of the model asks for are one step: their    *)
(* announcement may raise, execute() turns every error into text.          *)
(***************************************************************************)
EXTENDS LlmRuntime, Sequences

CONSTANTS
  Requests,       (* job -> what it may be asked: "plan", a prefix or "free" *)
  Subtasks,       (* what the parts of a plan may be                         *)
  Classes,        (* what the classification may answer                      *)
  Replies,        (* how many tasks the planner may list                     *)
  PlanLimit,      (* sub_tasks[:5]                                           *)
  MaxIterations   (* WORKER_MAX_ITERATIONS                                   *)

Route    == {"code", "doc", "infra", "stack", "poc", "general"}
Prefixes == Route \ {"general"}
NoRag    == {"code", "infra", "poc"}

ASSUME RequestsAssumption ==
  /\ Requests \in [Jobs -> SUBSET (Prefixes \union {"plan", "free"})]
  /\ Subtasks \subseteq Prefixes \union {"free"}
ASSUME GatewayAssumption ==
  /\ Replies \subseteq Nat
  /\ PlanLimit \in Nat \ {0}
  /\ MaxIterations \in Nat \ {0}

VARIABLES
  at,        (* where the coroutine of a job stands                         *)
  kind,      (* prefix of the description at hand, or "free"                *)
  route,     (* where it is routed to; "none" stands for None               *)
  parts,     (* len(sub_tasks), 1 for a task that is no plan                *)
  results,   (* results of the parts that have run                          *)
  turns,     (* model calls in the loop at hand                             *)
  calm       (* history: vLLM stable from a TTL before the job on, no fault *)

gatewayVars == <<at, kind, route, parts, results, turns>>
vars        == <<runtimeVars, gatewayVars, calm>>

Waiting == {"plan", "planned", "announce", "retrieve", "route", "routed",
            "agent", "tools"}
Over    == {"ok", "failed"}

Init ==
  /\ RuntimeInit
  /\ at = [j \in Jobs |-> "idle"]
  /\ kind = [j \in Jobs |-> "free"]
  /\ route = [j \in Jobs |-> "none"]
  /\ parts = [j \in Jobs |-> 0]
  /\ results = [j \in Jobs |-> <<>>]
  /\ turns = [j \in Jobs |-> 0]
  /\ calm = [j \in Jobs |-> FALSE]

Go(j, place) == at' = [at EXCEPT ![j] = place]

Forget(j) == choice' = [choice EXCEPT ![j] = "none"]

(* Mutant of Raise: the rest of a plan runs without the part that failed.   *)
RaisePastPart(j) ==
  /\ IF parts[j] > 1 /\ Len(results[j]) + 1 < parts[j]
     THEN Go(j, "announce") /\ parts' = [parts EXCEPT ![j] = @ - 1] /\ UNCHANGED results
     ELSE Go(j, "failed") /\ results' = [results EXCEPT ![j] = <<>>] /\ UNCHANGED parts
  /\ Forget(j)
  /\ UNCHANGED <<config, world, cache, probe, kind, route, turns>>

(* An exception: what earlier parts of a plan have found is not reported.   *)
Raise(j) ==
  /\ Go(j, "failed")
  /\ results' = [results EXCEPT ![j] = <<>>]
  /\ Forget(j)
  /\ UNCHANGED <<config, world, cache, probe, kind, route, parts, turns>>

(* The total timeout of _notify or of the web search: client errors are     *)
(* swallowed there, a TimeoutError is not.                                  *)
TimesOut(j) == Fault /\ Raise(j)

Notify(j, from, to) ==
  /\ at[j] = from
  /\ \/ Go(j, to) /\ UNCHANGED <<runtimeVars, kind, route, parts, results, turns>>
     \/ TimesOut(j)

-----------------------------------------------------------------------------

Steady == upAgo = TTL \/ badAgo = TTL

(* run_task and run_plan_task up to their first await.                      *)
Begin(j) ==
  /\ at[j] = "idle"
  /\ \E r \in Requests[j] :
       /\ Go(j, IF ~Configured THEN "failed" ELSE IF r = "plan" THEN "plan" ELSE "retrieve")
       /\ kind' = [kind EXCEPT ![j] = IF r = "plan" THEN "free" ELSE r]
       /\ parts' = [parts EXCEPT ![j] = IF Configured /\ r # "plan" THEN 1 ELSE 0]
  /\ UNCHANGED <<runtimeVars, route, results, turns>>

(* runtime.chat for the route None: select, then one call.                  *)
Chat(j, place) ==
  /\ at[j] = place
  /\ \/ Selecting(j, "none") /\ UNCHANGED gatewayVars
     \/ CallRaises(j) /\ Raise(j)

ChatAnswers(j, place) ==
  /\ at[j] = place
  /\ Answers(j)
  /\ Forget(j)
  /\ UNCHANGED <<config, world, cache, probe, faults>>

(* The parts of a reply that lists n tasks; without any, or when it is no   *)
(* JSON, the description is the only part.  (A reply whose "tasks" is no    *)
(* list is a TypeError, which Chat counts as a call that raises.)           *)
Listed(n) == IF n = 0 THEN 1 ELSE IF n > PlanLimit THEN PlanLimit ELSE n

Plan(j) ==
  \/ Chat(j, "plan")
  \/ /\ ChatAnswers(j, "plan")
     /\ Go(j, "planned")
     /\ \E n \in Replies : parts' = [parts EXCEPT ![j] = Listed(n)]
     /\ UNCHANGED <<kind, route, results, turns>>
  \/ Notify(j, "planned", "announce")

(* The loop of run_plan_task: a message, then run_task of the next part.    *)
NextPart(j) ==
  /\ at[j] = "announce"
  /\ \/ /\ Go(j, "retrieve")
        /\ \E k \in Subtasks : kind' = [kind EXCEPT ![j] = k]
        /\ UNCHANGED <<runtimeVars, route, parts, results, turns>>
     \/ TimesOut(j)

(* Web results and files of the workspace, as far as there are any.         *)
RetrieveContext(j) ==
  \/ Go(j, "route") /\ UNCHANGED <<runtimeVars, kind, route, parts, results, turns>>
  \/ kind[j] \notin NoRag /\ TimesOut(j)

(* _retrieve_node; code, infra and poc go without.                          *)
Retrieve(j) == at[j] = "retrieve" /\ RetrieveContext(j)

RouteTo(j, r) == route' = [route EXCEPT ![j] = r] /\ Go(j, "routed")

(* _route_node: by prefix, or by a classification; what is no route is      *)
(* general.  The memory of earlier tasks, read last, never raises.          *)
RouteNode(j) ==
  \/ /\ at[j] = "route" /\ kind[j] \in Prefixes
     /\ RouteTo(j, kind[j])
     /\ UNCHANGED <<runtimeVars, kind, parts, results, turns>>
  \/ /\ kind[j] \notin Prefixes
     /\ \/ Chat(j, "route")
        \/ /\ ChatAnswers(j, "route")
           /\ \E c \in Classes : RouteTo(j, IF c \in Route THEN c ELSE "general")
           /\ UNCHANGED <<kind, parts, results, turns>>
  \/ Notify(j, "routed", "agent")

(* The text of a part; the last part ends the job.                          *)
Return(j, text) ==
  /\ results' = [results EXCEPT ![j] = Append(@, text)]
  /\ Go(j, IF Len(results[j]) + 1 = parts[j] THEN "ok" ELSE "announce")
  /\ turns' = [turns EXCEPT ![j] = 0]
  /\ route' = [route EXCEPT ![j] = "none"]
  /\ Forget(j)

(* A turn of the loop: the model asks for tools or has done.  Only vLLM's   *)
(* loop returns an empty text; Claude's has a substitute.                   *)
Turn(j) ==
  /\ at[j] = "agent"
  /\ Answers(j)
  /\ \/ /\ Go(j, "tools")
        /\ turns' = [turns EXCEPT ![j] = @ + 1]
        /\ UNCHANGED <<choice, route, results>>
     \/ Return(j, "text")
     \/ choice[j] = "vllm" /\ Return(j, "blank")
  /\ UNCHANGED <<config, world, cache, probe, faults, kind, parts>>

(* Mutant of Exhausted: one turn too many.                                  *)
ExhaustedLate(j) == turns[j] > MaxIterations

Exhausted(j) == turns[j] = MaxIterations

(* execute(): whatever a tool does, the model gets a text.  After the last  *)
(* turn what text there was, or a substitute, is the result.                *)
ExecuteTools(j) ==
  /\ IF Exhausted(j) THEN Return(j, "text")
     ELSE Go(j, "agent") /\ UNCHANGED <<choice, route, results, turns>>
  /\ UNCHANGED <<config, world, cache, probe, faults, kind, parts>>

(* Each tool is announced first.                                            *)
UseTools(j) ==
  /\ at[j] = "tools"
  /\ ExecuteTools(j) \/ TimesOut(j)

(* _execute_node: run_agent chooses its back end once for the whole loop.   *)
RunAgent(j) ==
  \/ /\ at[j] = "agent"
     /\ \/ Selecting(j, route[j]) /\ UNCHANGED gatewayVars
        \/ CallRaises(j) /\ Raise(j)
  \/ Turn(j)
  \/ UseTools(j)

Step(j) == Plan(j) \/ NextPart(j) \/ Retrieve(j) \/ RouteNode(j) \/ RunAgent(j)

(* History: a job is calm if vLLM has been as it is for a TTL before it     *)
(* began, no probe failing, and nothing changes or fails until its end.     *)
Calmness ==
  calm' = [j \in Jobs |->
             IF at[j] \in Over THEN calm[j]
             ELSE /\ IF at[j] = "idle" THEN at'[j] # "idle" /\ Steady ELSE calm[j]
                  /\ UNCHANGED <<up, faults>>]

Environment == (GoesDown \/ ComesUp \/ Tick) /\ UNCHANGED gatewayVars

Next == (Environment \/ \E j \in Jobs : Begin(j) \/ Step(j)) /\ Calmness

(* Every await of a job ends, by its timeout at the latest.                 *)
Fairness == \A j \in Jobs : WF_vars(Step(j) /\ Calmness)

Spec     == Init /\ [][Next]_vars
FairSpec == Spec /\ Fairness

-----------------------------------------------------------------------------

(* Types.  A loop takes at most MaxIterations turns and a plan has at most  *)
(* PlanLimit parts, whatever the models answer (range(WORKER_MAX_ITERATIONS), *)
(* sub_tasks[:5]).                                                          *)
TypeOK ==
  /\ RuntimeTypeOK
  /\ at \in [Jobs -> {"idle"} \union Waiting \union Over]
  /\ kind \in [Jobs -> Prefixes \union {"free"}]
  /\ route \in [Jobs -> Route \union {"none"}]
  /\ parts \in [Jobs -> 0 .. PlanLimit]
  /\ results \in [Jobs -> Seq({"text", "blank"})]
  /\ turns \in [Jobs -> 0 .. MaxIterations]
  /\ calm \in [Jobs -> BOOLEAN]

(* A back end is chosen for what vLLM was less than a TTL ago: up for vLLM, *)
(* down or not answering for Claude where vLLM was asked for.  Probes of    *)
(* other jobs, overwritten entries and slow answers make no older health    *)
(* count (_vllm_available, select_backend).                                 *)
ChoiceIsRecent ==
  [][\A j \in Jobs :
       choice[j] = "none" =>
         /\ choice'[j] = "vllm" => config.endpoint /\ upAgo < TTL
         /\ choice'[j] = "claude" /\ AsksForVllm(route[j]) => badAgo < TTL]_vars

(* Fallback: when vLLM, up or down, has been so for a TTL before a task     *)
(* begins and stays so, and no call or message fails of itself, the task    *)
(* fails only if there is neither a key for Claude nor a vLLM that answers  *)
(* (select_backend; poc_pipeline.py:8 counts on it).                        *)
CalmTasksServed ==
  [][\A j \in Jobs :
       at[j] # "failed" /\ at'[j] = "failed" /\ calm'[j]
         => ~config.key /\ ~(config.endpoint /\ up)]_vars

StatusOf(place) ==
  CASE place = "idle"     -> "idle"
    [] place \in Waiting  -> "running"
    [] place \in Over     -> place

Promised == INSTANCE PlanRun WITH status <- [j \in Jobs |-> StatusOf(at[j])]

(* The gateway keeps the promise of PlanRun: parts run in order and once,   *)
(* all of them or none are reported, and every task ends.                   *)
ImplementsPlanRun == Promised!Spec
=============================================================================
