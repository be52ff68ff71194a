----------------------------- MODULE LlmRuntime -----------------------------
(***************************************************************************)
(* The choice of a back end by app/agent/runtime.py: vLLM for the routes   *)
(* that ask for it while its cached health says so, Claude otherwise, and  *)
(* vLLM for everything when there is no key for Claude.  The cache is one  *)
(* global of the worker, filled by probes of several jobs that overlap.    *)
(* A call goes to the back end that was chosen; there is no second choice  *)
(* when it fails.                                                          *)
(*                                                                         *)
(* Time is counted in ticks and relative: a stamp is kept as its age.      *)
(* Ages stop at TTL, from where on no comparison of the code changes.      *)
(***************************************************************************)
EXTENDS Integers

CONSTANTS
  Jobs,            (* tasks in the hands of the agent at the same time      *)
  Configurations,  (* the settings the worker may be started with           *)
  TTL,             (* _VLLM_HEALTH_TTL_S                                    *)
  ProbeTimeout,    (* total timeout of the GET /health                      *)
  MaxFaults        (* calls and messages that fail, vLLM being down aside   *)

ASSUME TimesAssumption ==
  /\ TTL \in Nat /\ ProbeTimeout \in Nat
  /\ ProbeTimeout < TTL
ASSUME ConfigurationsAssumption ==
  \A c \in Configurations : c.key \in BOOLEAN /\ c.endpoint \in BOOLEAN
ASSUME FaultsAssumption == MaxFaults \in Nat

VARIABLES
  config,   (* CLAUDE_API_KEY and VLLM_ENDPOINT set or not, VLLM_ROUTES_SET *)
  up,       (* whether vLLM answers                                         *)
  upAgo,    (* age of the last moment it was up                             *)
  badAgo,   (* ... and of the last moment it was down or failed a probe     *)
  cache,    (* _vllm_health_cache                                           *)
  probe,    (* the probe a job is waiting for                               *)
  choice,   (* the back end a job was given                                 *)
  faults

world       == <<up, upAgo, badAgo>>
runtimeVars == <<config, up, upAgo, badAgo, cache, probe, choice, faults>>

Ages    == 0 .. TTL
Backend == {"vllm", "claude"}

NoEntry == [age |-> TTL, healthy |-> FALSE]   (* None, or as good as none   *)
NoProbe == [age |-> 0, state |-> "none"]

Older(age) == IF age < TTL THEN age + 1 ELSE TTL

RuntimeInit ==
  /\ config \in Configurations
  /\ up \in {FALSE, config.endpoint}
  /\ upAgo = IF up THEN 0 ELSE TTL
  /\ badAgo = IF up THEN TTL ELSE 0
  /\ cache = NoEntry
  /\ probe = [j \in Jobs |-> NoProbe]
  /\ choice = [j \in Jobs |-> "none"]
  /\ faults = 0

Fault == faults < MaxFaults /\ faults' = faults + 1

(* run_task and run_plan_task refuse to start without any back end.         *)
Configured == config.key \/ config.endpoint

-----------------------------------------------------------------------------
(* vLLM and the clock                                                       *)

GoesDown ==
  /\ up /\ up' = FALSE /\ badAgo' = 0
  /\ UNCHANGED <<config, upAgo, cache, probe, choice, faults>>

ComesUp ==
  /\ config.endpoint
  /\ ~up /\ up' = TRUE /\ upAgo' = 0
  /\ UNCHANGED <<config, badAgo, cache, probe, choice, faults>>

(* No probe outlives its timeout.                                           *)
Tick ==
  /\ \A j \in Jobs : probe[j].state = "none" \/ probe[j].age < ProbeTimeout
  /\ upAgo' = IF up THEN 0 ELSE Older(upAgo)
  /\ badAgo' = IF up THEN Older(badAgo) ELSE 0
  /\ cache' = [age |-> Older(cache.age), healthy |-> cache.healthy]
  /\ probe' = [j \in Jobs |-> IF probe[j].state = "none" THEN NoProbe
                              ELSE [age |-> probe[j].age + 1, state |-> probe[j].state]]
  /\ UNCHANGED <<config, up, choice, faults>>

-----------------------------------------------------------------------------
(* select_backend                                                           *)

(* Whether the choice depends on _vllm_available().  Without a key a route  *)
(* of vLLM asks twice in a row; the second answer is the cached first one,  *)
(* as a probe takes less than the TTL and nothing is awaited in between.    *)
AsksForVllm(route) == config.endpoint /\ (route \in config.routes \/ ~config.key)

Fresh == cache.age < TTL

Given(j, healthy) ==
  choice' = [choice EXCEPT ![j] = IF healthy THEN "vllm" ELSE "claude"]

(* Mutant of UseCache: a look at the entry makes it new again.              *)
UseCacheSliding(j) ==
  /\ Fresh
  /\ Given(j, cache.healthy)
  /\ cache' = [age |-> 0, healthy |-> cache.healthy]
  /\ UNCHANGED probe

UseCache(j) ==
  /\ Fresh
  /\ Given(j, cache.healthy)
  /\ UNCHANGED <<cache, probe>>

(* now = time.monotonic(), then GET /health.                                *)
StartProbe(j) ==
  /\ ~Fresh
  /\ probe' = [probe EXCEPT ![j] = [age |-> 0, state |-> "asked"]]
  /\ UNCHANGED <<cache, choice>>

(* Mutant of SelectBackend: without a key every route is Claude's.          *)
SelectByRoute(j, route) ==
  /\ probe[j].state = "none"
  /\ choice[j] = "none"
  /\ IF config.endpoint /\ route \in config.routes
     THEN UseCache(j) \/ StartProbe(j)
     ELSE Given(j, FALSE) /\ UNCHANGED <<cache, probe>>
  /\ UNCHANGED <<config, world, faults>>

SelectBackend(j, route) ==
  /\ probe[j].state = "none"
  /\ choice[j] = "none"
  /\ IF AsksForVllm(route)
     THEN UseCache(j) \/ StartProbe(j)
     ELSE Given(j, FALSE) /\ UNCHANGED <<cache, probe>>
  /\ UNCHANGED <<config, world, faults>>

Answered(j, state) == probe' = [probe EXCEPT ![j] = [age |-> probe[j].age, state |-> state]]

(* vLLM answers the probe as it is at that moment, or the network fails.    *)
ProbeAnswered(j) ==
  /\ probe[j].state = "asked"
  /\ \/ /\ Answered(j, IF up THEN "healthy" ELSE "unhealthy")
        /\ UNCHANGED <<badAgo, faults>>
     \/ /\ Answered(j, "unhealthy")
        /\ badAgo' = 0
        /\ Fault
  /\ UNCHANGED <<config, up, upAgo, cache, choice>>

(* The answer arrives: the entry carries the time the probe started, and    *)
(* replaces whatever another job has stored meanwhile.                      *)
StoreHealth(j) ==
  LET healthy == probe[j].state = "healthy" IN
  /\ probe[j].state \in {"healthy", "unhealthy"}
  /\ cache' = [age |-> probe[j].age, healthy |-> healthy]
  /\ probe' = [probe EXCEPT ![j] = NoProbe]
  /\ Given(j, healthy)
  /\ UNCHANGED <<config, world, faults>>

Selecting(j, route) == SelectBackend(j, route) \/ ProbeAnswered(j) \/ StoreHealth(j)

-----------------------------------------------------------------------------
(* A call of the chosen back end                                            *)

Answers(j) == IF choice[j] = "vllm" THEN up ELSE choice[j] = "claude" /\ config.key

(* The client raises: nobody there, no key, or a failure of its own.        *)
CallRaises(j) ==
  /\ choice[j] # "none"
  /\ IF Answers(j) THEN Fault ELSE UNCHANGED faults

-----------------------------------------------------------------------------

RuntimeTypeOK ==
  /\ config \in Configurations
  /\ up \in BOOLEAN
  /\ upAgo \in Ages /\ badAgo \in Ages
  /\ cache \in [age : Ages, healthy : BOOLEAN]
  /\ probe \in [Jobs -> [age : 0 .. ProbeTimeout,
                         state : {"none", "asked", "healthy", "unhealthy"}]]
  /\ choice \in [Jobs -> Backend \union {"none"}]
  /\ faults \in 0 .. MaxFaults
=============================================================================
