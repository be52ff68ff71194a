---------------------------- MODULE PocAutopilot ----------------------------
(***************************************************************************)
(* The PoC autopilot of the worker (app/pipeline/poc_pipeline.py): build   *)
(* in the sandbox, fix with an agent, build again, evaluate.  It is        *)
(* started by a confirmation in the chat (app/bot/commands/pocrun_cmd.py), *)
(* once for each token.  The bot handles one tap at a time and waits for   *)
(* the autopilot meanwhile; when it gives up or dies, the handler of the   *)
(* worker goes on, next to the one that the next tap starts.  The sandbox  *)
(* serves them one by one.                                                 *)
(*                                                                         *)
(* A sandbox request takes at most 30+300+30+60+10+60+10 = 500 s, less     *)
(* than the client's _SANDBOX_TIMEOUT_S of 600 s, so that only a request   *)
(* that had to wait for another one can time out.  The sidecar still       *)
(* serves it: the connection stays in its backlog.                         *)
(***************************************************************************)
EXTENDS PocSandbox

CONSTANTS
  Requested   (* max_iterations of the request *)

ASSUME RequestedAssumption == Requested \in Int

(* A caller is one confirmation, known by its token.                        *)
VARIABLES
  pending,    (* _pending: the tokens that may be redeemed                  *)
  phase,      (* where the run of the graph stands                          *)
  iteration,  (* fixes so far                                               *)
  steps,      (* graph nodes run so far                                     *)
  built,      (* build_result of the state                                  *)
  waited,     (* the outstanding request had to wait for another one        *)
  measured,   (* version of the sources collect_metrics looked at           *)
  meddled,    (* auxiliary: the others that have edited the directory since *)
              (* the last build of this run read it                         *)
  report      (* EVALUATION.md of a slug                                    *)

autopilotVars == <<phase, iteration, steps, built, waited, measured, meddled, report>>
vars == <<sandboxVars, faults, code, pending, autopilotVars>>

MaxIterations   == IF Requested < 0 THEN 0 ELSE Requested
NoReport        == [by |-> NoCaller, ok |-> FALSE, built |-> 0, measured |-> 0]

(* Mutant of RecursionLimit: the fixes and the two last nodes only.         *)
TightLimit == MaxIterations + 2

(* The limit is not counted in iterations: each of them takes two nodes.    *)
RecursionLimit == 2 * MaxIterations + 10

FixableStages == {"build", "run"}

InGraph == {"build", "calling", "built", "fix", "evaluate", "report"}
Over    == {"ended", "refused", "failed", "lost", "cancelled"}

Init ==
  /\ SandboxInit
  /\ pending = {}
  /\ phase = [a \in Callers |-> "idle"]
  /\ iteration = [a \in Callers |-> 0]
  /\ steps = [a \in Callers |-> 0]
  /\ built = [a \in Callers |-> NoResult]
  /\ waited = [a \in Callers |-> FALSE]
  /\ measured = [a \in Callers |-> 0]
  /\ meddled = [a \in Callers |-> {}]
  /\ report = [s \in Slugs |-> NoReport]

Move(a, from, to) == phase[a] = from /\ phase' = [phase EXCEPT ![a] = to]

(* A node of the graph starts: LangGraph refuses the step past the limit.   *)
NodeStarts(a, from, to) ==
  /\ Move(a, from, IF steps[a] < RecursionLimit THEN to ELSE "failed")
  /\ steps' = [steps EXCEPT ![a] = @ + 1]

(* cmd_pocrun, or the offer after a /poc.                                    *)
Ask(a) ==
  /\ Move(a, "idle", "asked")
  /\ pending' = pending \union {a}
  /\ UNCHANGED <<sandboxVars, code, iteration, steps, built, waited,
                 measured, meddled, report, faults>>

(* Mutant of Redeem: the token is looked up and stays.                      *)
RedeemAgain(a) == a \in pending /\ UNCHANGED pending

Redeem(a) == a \in pending /\ pending' = pending \ {a}

(* run_autopilot: the slug and its directory are checked first.             *)
Launch(a) ==
  /\ \E next \in {"build", "refused"} : phase' = [phase EXCEPT ![a] = next]
  /\ iteration' = [iteration EXCEPT ![a] = 0]
  /\ steps' = [steps EXCEPT ![a] = 0]

(* A tap that redeems its token, to cancel or to launch.  Its handler waits *)
(* for the autopilot but may give up at any time, so that it holds up no    *)
(* other tap for good.  A tap without a token is answered "expired".        *)
HandleTap(a) ==
  /\ Redeem(a)
  /\ \/ /\ phase' = [phase EXCEPT ![a] = "cancelled"]
        /\ UNCHANGED <<iteration, steps>>
     \/ Launch(a)
  /\ UNCHANGED <<sandboxVars, code, built, waited, measured, meddled, report, faults>>

(* The bot dies and forgets its tokens.                                     *)
BotCrash ==
  /\ Fault("other")
  /\ pending' = {}
  /\ UNCHANGED <<sandboxVars, code, autopilotVars>>

(* runtime._notify timing out; its TimeoutError ends the whole run (500).   *)
SlowNotify(a, from) ==
  /\ Move(a, from, "failed")
  /\ Fault("other")
  /\ UNCHANGED <<sandboxVars, pending, code, iteration, steps, built, waited, measured,
                 meddled, report>>

(* build_node up to the POST to the sandbox.                                *)
BuildNode(a) ==
  /\ NodeStarts(a, "build", "calling")
  /\ IF phase'[a] = "calling"
     THEN /\ Connect(a)
          /\ waited' = [waited EXCEPT ![a] = serving # NoCaller \/ backlog # <<>>]
     ELSE UNCHANGED <<sandboxVars, waited>>
  /\ UNCHANGED <<pending, code, iteration, built, measured, meddled, report, faults>>

(* Mutant of Answer: a failed build is not answered.                        *)
AnswerOnlySuccess ==
  /\ Reply
  /\ IF phase[serving] = "calling" /\ result.ok
     THEN /\ phase' = [phase EXCEPT ![serving] = "built"]
          /\ built' = [built EXCEPT ![serving] = result]
     ELSE UNCHANGED <<phase, built>>
  /\ waited' = [waited EXCEPT ![serving] = FALSE]
  /\ UNCHANGED <<pending, code, iteration, steps, measured, meddled, report, faults>>

(* The sandbox answers; nobody listens any more when the call timed out.    *)
Answer ==
  /\ Reply
  /\ IF phase[serving] = "calling"
     THEN /\ phase' = [phase EXCEPT ![serving] = "built"]
          /\ built' = [built EXCEPT ![serving] = result]
     ELSE UNCHANGED <<phase, built>>
  /\ waited' = [waited EXCEPT ![serving] = FALSE]
  /\ UNCHANGED <<pending, code, iteration, steps, measured, meddled, report, faults>>

(* The total timeout of _call_sandbox: not an aiohttp.ClientError.          *)
CallTimesOut(a) ==
  /\ waited[a]
  /\ Move(a, "calling", "failed")
  /\ UNCHANGED <<sandboxVars, pending, code, iteration, steps, built, waited, measured,
                 meddled, report, faults>>

(* Mutant of ConnectionsBreak: what was built is kept as no result at all.  *)
ConnectionsBreakRaw ==
  /\ SandboxCrash
  /\ phase' = [a \in Callers |-> IF phase[a] = "calling" THEN "built" ELSE phase[a]]
  /\ built' = [a \in Callers |->
                 IF phase[a] = "calling"
                 THEN [ok |-> FALSE, stage |-> "none", version |-> 0] ELSE built[a]]
  /\ UNCHANGED <<pending, code, iteration, steps, waited, measured, meddled, report>>

(* A broken connection is an aiohttp.ClientError: stage "sandbox".          *)
ConnectionsBreak ==
  /\ SandboxCrash
  /\ phase' = [a \in Callers |-> IF phase[a] = "calling" THEN "built" ELSE phase[a]]
  /\ built' = [a \in Callers |->
                 IF phase[a] = "calling"
                 THEN [ok |-> FALSE, stage |-> "sandbox", version |-> built[a].version]
                 ELSE built[a]]
  /\ UNCHANGED <<pending, code, iteration, steps, waited, measured, meddled, report>>

(* after_build.                                                             *)
Fixable(a) ==
  /\ ~built[a].ok
  /\ built[a].stage \in FixableStages
  /\ iteration[a] < MaxIterations

AfterBuild(a) ==
  /\ Move(a, "built", IF Fixable(a) THEN "fix" ELSE "evaluate")
  /\ UNCHANGED <<sandboxVars, pending, code, iteration, steps, built, waited, measured,
                 meddled, report, faults>>

Edit(a) ==
  /\ code' = [code EXCEPT ![SlugOf[a]] = @ + 1]
  /\ meddled' = [b \in Callers |->
                   IF b # a /\ SlugOf[b] = SlugOf[a] THEN meddled[b] \union {a}
                                                    ELSE meddled[b]]

(* Mutant of FixNode: the fixed sources are evaluated without a build.      *)
FixThenEvaluate(a) ==
  /\ NodeStarts(a, "fix", "evaluate")
  /\ iteration' = [iteration EXCEPT ![a] = @ + 1]
  /\ Edit(a) \/ UNCHANGED <<code, meddled>>
  /\ UNCHANGED <<sandboxVars, pending, built, waited, measured, report, faults>>

(* fix_node: the agent edits the sources, or fails with or without having   *)
(* edited them; either way the graph goes back to build.                    *)
FixNode(a) ==
  /\ NodeStarts(a, "fix", "build")
  /\ iteration' = [iteration EXCEPT ![a] = @ + 1]
  /\ Edit(a) \/ UNCHANGED <<code, meddled>>
  /\ UNCHANGED <<sandboxVars, pending, built, waited, measured, report, faults>>

(* evaluate_node: collect_metrics before the LLM is asked ...               *)
Measure(a) ==
  /\ NodeStarts(a, "evaluate", "report")
  /\ measured' = [measured EXCEPT ![a] = code[SlugOf[a]]]
  /\ UNCHANGED <<sandboxVars, pending, code, iteration, built, waited, meddled, report,
                 faults>>

(* ... and the report, with the history of fixes, written after it, unless  *)
(* the file cannot be written (OSError).                                    *)
WriteReport(a) ==
  /\ \/ /\ Move(a, "report", "ended")
        /\ report' = [report EXCEPT ![SlugOf[a]] =
                        [by |-> a, ok |-> built[a].ok, built |-> built[a].version,
                         measured |-> measured[a]]]
     \/ Move(a, "report", "failed") /\ UNCHANGED report
  /\ UNCHANGED <<sandboxVars, pending, code, iteration, steps, built, waited, measured,
                 meddled, faults>>

(* The worker dies with every run of the graph; the sandbox does not.       *)
WorkerCrash ==
  /\ Fault("other")
  /\ phase' = [a \in Callers |-> IF phase[a] \in InGraph THEN "lost" ELSE phase[a]]
  /\ UNCHANGED <<sandboxVars, pending, code, iteration, steps, built, waited, measured,
                 meddled, report>>

(* The sidecar accepts a request or goes on with one; its build reads the   *)
(* directory anew.                                                          *)
Serve ==
  /\ Accept \/ RunPoc
  /\ meddled' = IF command = "build" THEN [meddled EXCEPT ![serving] = {}] ELSE meddled
  /\ UNCHANGED <<pending, code, phase, iteration, steps, built, waited, measured, report>>

Sandbox == Serve \/ Answer

Graph(a) ==
  \/ BuildNode(a)
  \/ AfterBuild(a)
  \/ FixNode(a)
  \/ Measure(a)
  \/ WriteReport(a)

Next ==
  \/ \E a \in Callers : Ask(a) \/ HandleTap(a) \/ Graph(a) \/ CallTimesOut(a)
                        \/ \E from \in {"build", "built", "fix", "evaluate"} :
                             SlowNotify(a, from)
  \/ Sandbox
  \/ ConnectionsBreak
  \/ WorkerCrash
  \/ BotCrash

(* Coroutines of the worker and the loop of the sidecar go on; every        *)
(* command of the sidecar has a timeout.                                    *)
Fairness == WF_vars(Sandbox) /\ \A a \in Callers : WF_vars(Graph(a))

Spec == Init /\ [][Next]_vars
FairSpec == Spec /\ Fairness

-----------------------------------------------------------------------------

TypeOK ==
  /\ SandboxTypeOK
  /\ pending \subseteq Callers
  /\ phase \in [Callers -> {"idle", "asked"} \union InGraph \union Over]
  /\ iteration \in [Callers -> Nat]
  /\ steps \in [Callers -> Nat]
  /\ built \in [Callers -> [ok : BOOLEAN, stage : Stages \union {"sandbox"},
                            version : Nat]]
  /\ waited \in [Callers -> BOOLEAN]
  /\ measured \in [Callers -> Nat]
  /\ meddled \in [Callers -> SUBSET Callers]
  /\ report \in [Slugs -> [by : Callers \union {NoCaller}, ok : BOOLEAN,
                           built : Nat, measured : Nat]]

(* One confirmation authorises at most MaxIterations + 1 executions of      *)
(* generated code, however often it is tapped and whatever times out,       *)
(* crashes or is left in the backlog (_pending.pop, after_build).           *)
(* max_iterations counts the fixes: what is promised is AtMostMaxIterations,*)
(* which is violated; this is the bound that holds of every run.            *)
ExecutionsBounded == \A a \in Callers : executions[a] <= MaxIterations + 1

(* app/config.py: "1회 확인이 최대 N회 격리 실행을 인가" (one confirmation      *)
(* authorises at most N isolated executions), N being                       *)
(* POC_AUTOPILOT_MAX_ITERATIONS; the chat and README.md say the same.       *)
AtMostMaxIterations == \A a \in Callers : executions[a] <= MaxIterations

(* The recursion limit given to LangGraph is never what ends a run: the     *)
(* longest path, build and fix in turn, stays below it.                     *)
WithinRecursionLimit == \A a \in Callers : steps[a] <= RecursionLimit

(* The report of a run describes the sources its last build saw: build and  *)
(* metrics belong to the same version of the directory (build_node,         *)
(* fix_node, evaluate_node), unless the autopilot of another confirmation   *)
(* of the slug has edited it after the build.  Nothing keeps two of them    *)
(* apart: a slug has one directory, whoever has confirmed it.               *)
ReportMatchesBuild ==
  \A s \in Slugs :
    LET a == report[s].by
    IN  a # NoCaller /\ built[a].stage \in {"build", "run"} /\ meddled[a] = {}
          => report[s].built = report[s].measured

(* A launched autopilot comes to an end and its caller gets an answer.      *)
AutopilotEnds == \A a \in Callers : phase[a] = "build" ~> phase[a] \in Over
=============================================================================
