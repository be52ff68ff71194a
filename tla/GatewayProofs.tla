---------------------------- MODULE GatewayProofs ----------------------------
(***************************************************************************)
(* Proofs about Gateway for any set of jobs, any settings, times and       *)
(* limits: types, the age of what a choice rests on, and the safety part   *)
(* of the refinement of PlanRun.                                           *)
(***************************************************************************)
EXTENDS Gateway, TLAPS

USE TimesAssumption, ConfigurationsAssumption, FaultsAssumption

-----------------------------------------------------------------------------
(* The health cache                                                         *)

Health == <<config, world, cache, probe>>

(* What the entry and the answers of the probes say was so not longer ago   *)
(* than their age.                                                          *)
HealthInv ==
  /\ RuntimeTypeOK
  /\ IF up THEN upAgo = 0 ELSE badAgo = 0
  /\ cache.age < TTL =>
       IF cache.healthy THEN config.endpoint /\ upAgo <= cache.age
                        ELSE badAgo <= cache.age
  /\ \A j \in Jobs :
       /\ probe[j].state # "none" => config.endpoint
       /\ probe[j].state = "healthy" => upAgo <= probe[j].age
       /\ probe[j].state = "unhealthy" => badAgo <= probe[j].age

Choices == [Jobs -> Backend \union {"none"}]

LEMMA HealthInit == RuntimeInit => HealthInv
<1> SUFFICES ASSUME RuntimeInit PROVE HealthInv
  OBVIOUS
<1>1. config.endpoint \in BOOLEAN /\ up \in BOOLEAN
  BY DEF RuntimeInit
<1>2. /\ upAgo \in Ages /\ badAgo \in Ages
      /\ IF up THEN upAgo = 0 ELSE badAgo = 0
  BY <1>1 DEF RuntimeInit, Ages
<1>3. /\ cache \in [age : Ages, healthy : BOOLEAN] /\ cache.age = TTL
      /\ faults \in 0 .. MaxFaults
  BY DEF RuntimeInit, NoEntry, Ages
<1>4. /\ probe \in [Jobs -> [age : 0 .. ProbeTimeout,
                             state : {"none", "asked", "healthy", "unhealthy"}]]
      /\ choice \in [Jobs -> Backend \union {"none"}]
      /\ \A j \in Jobs : probe[j].state = "none"
  BY DEF RuntimeInit, NoProbe
<1>5. QED
  BY <1>1, <1>2, <1>3, <1>4 DEF RuntimeInit, HealthInv, RuntimeTypeOK

(* Steps that touch nothing but the choice and the count of faults.         *)
LEMMA HealthUntouched ==
  ASSUME HealthInv, UNCHANGED Health, choice' \in Choices, faults' \in 0 .. MaxFaults
  PROVE  HealthInv'
BY DEF HealthInv, RuntimeTypeOK, Health, world, Choices

LEMMA HealthGoesDown == HealthInv /\ GoesDown => HealthInv'
<1> SUFFICES ASSUME HealthInv, GoesDown PROVE HealthInv'
  OBVIOUS
<1> USE DEF HealthInv, RuntimeTypeOK, GoesDown
<1>1. RuntimeTypeOK' /\ ~up' /\ badAgo' = 0
  BY DEF Ages
<1>2. 0 <= cache.age /\ \A j \in Jobs : 0 <= probe[j].age
  BY DEF Ages
<1>3. QED
  BY <1>1, <1>2

LEMMA HealthComesUp == HealthInv /\ ComesUp => HealthInv'
BY DEF HealthInv, RuntimeTypeOK, ComesUp, Ages

LEMMA OlderAges ==
  ASSUME NEW a \in Ages
  PROVE  Older(a) \in Ages /\ Older(a) >= a /\ Older(a) <= a + 1
           /\ (Older(a) < TTL => Older(a) = a + 1)
BY DEF Ages, Older

LEMMA HealthTick ==
  ASSUME HealthInv, Tick
  PROVE  HealthInv'
<1> USE DEF HealthInv, RuntimeTypeOK
<1>1. /\ upAgo' \in Ages /\ badAgo' \in Ages
      /\ upAgo' <= upAgo + 1 /\ badAgo' <= badAgo + 1
      /\ IF up' THEN upAgo' = 0 ELSE badAgo' = 0
  BY OlderAges DEF Tick, Ages
<1>2. /\ cache' \in [age : Ages, healthy : BOOLEAN]
      /\ cache'.healthy = cache.healthy
      /\ cache'.age < TTL => cache'.age = cache.age + 1 /\ cache.age < TTL
  BY OlderAges DEF Tick, Ages
<1>3. ASSUME NEW j \in Jobs
      PROVE  /\ probe'[j] \in [age : 0 .. ProbeTimeout,
                               state : {"none", "asked", "healthy", "unhealthy"}]
             /\ probe'[j].state = probe[j].state
             /\ probe[j].state # "none" => probe'[j].age = probe[j].age + 1
  BY DEF Tick, NoProbe
<1>4. probe' \in [Jobs -> [age : 0 .. ProbeTimeout,
                           state : {"none", "asked", "healthy", "unhealthy"}]]
  BY <1>3 DEF Tick
<1>5. config' = config /\ up' = up /\ choice' = choice /\ faults' = faults
  BY DEF Tick
<1>6. cache'.age < TTL =>
        IF cache'.healthy THEN config'.endpoint /\ upAgo' <= cache'.age
                          ELSE badAgo' <= cache'.age
  BY <1>1, <1>2, <1>5 DEF Ages
<1>7. ASSUME NEW j \in Jobs
      PROVE  /\ probe'[j].state # "none" => config'.endpoint
             /\ probe'[j].state = "healthy" => upAgo' <= probe'[j].age
             /\ probe'[j].state = "unhealthy" => badAgo' <= probe'[j].age
  BY <1>1, <1>3, <1>5 DEF Ages
<1>8. QED
  BY <1>1, <1>2, <1>4, <1>5, <1>6, <1>7

LEMMA GivenChoice ==
  ASSUME HealthInv, NEW j \in Jobs, NEW healthy \in BOOLEAN, Given(j, healthy)
  PROVE  choice' \in Choices
BY DEF HealthInv, RuntimeTypeOK, Given, Choices, Backend

LEMMA HealthSelectBackend ==
  ASSUME HealthInv, NEW j \in Jobs, NEW r, SelectBackend(j, r)
  PROVE  HealthInv'
<1>1. CASE UseCache(j) /\ AsksForVllm(r)
  <2>1. cache.healthy \in BOOLEAN
    BY DEF HealthInv, RuntimeTypeOK
  <2>2. choice' \in Choices
    BY <1>1, <2>1, GivenChoice DEF UseCache
  <2>3. UNCHANGED Health /\ faults' \in 0 .. MaxFaults
    BY <1>1 DEF UseCache, SelectBackend, Health, HealthInv, RuntimeTypeOK
  <2>4. QED
    BY <2>2, <2>3, HealthUntouched
<1>2. CASE StartProbe(j) /\ AsksForVllm(r)
  <2>1. probe' \in [Jobs -> [age : 0 .. ProbeTimeout,
                             state : {"none", "asked", "healthy", "unhealthy"}]]
    BY <1>2 DEF StartProbe, HealthInv, RuntimeTypeOK
  <2>2. UNCHANGED <<config, world, cache, choice, faults>>
    BY <1>2 DEF StartProbe, SelectBackend
  <2>3. ASSUME NEW k \in Jobs
        PROVE  /\ probe'[k].state # "none" => config'.endpoint
               /\ probe'[k].state = "healthy" => upAgo' <= probe'[k].age
               /\ probe'[k].state = "unhealthy" => badAgo' <= probe'[k].age
    BY <1>2, <2>2 DEF StartProbe, HealthInv, RuntimeTypeOK, AsksForVllm, world
  <2>4. QED
    BY <2>1, <2>2, <2>3 DEF HealthInv, RuntimeTypeOK, world
<1>3. CASE ~AsksForVllm(r)
  <2>1. choice' \in Choices
    BY <1>3, GivenChoice DEF SelectBackend
  <2>2. UNCHANGED Health /\ faults' \in 0 .. MaxFaults
    BY <1>3 DEF SelectBackend, Health, HealthInv, RuntimeTypeOK
  <2>3. QED
    BY <2>1, <2>2, HealthUntouched
<1>4. QED
  BY <1>1, <1>2, <1>3 DEF SelectBackend

LEMMA HealthProbeAnswered ==
  ASSUME HealthInv, NEW j \in Jobs, ProbeAnswered(j)
  PROVE  HealthInv'
<1> USE DEF HealthInv, RuntimeTypeOK
<1>1. UNCHANGED <<config, up, upAgo, cache, choice>>
  BY DEF ProbeAnswered, Answered
<1>2. badAgo' \in {badAgo, 0} /\ badAgo' \in Ages /\ badAgo' <= badAgo
  BY DEF ProbeAnswered, Answered, Ages
<1>3. faults' \in 0 .. MaxFaults
  BY DEF ProbeAnswered, Fault
<1>4. /\ probe' \in [Jobs -> [age : 0 .. ProbeTimeout,
                             state : {"none", "asked", "healthy", "unhealthy"}]]
      /\ \A k \in Jobs : k # j => probe'[k] = probe[k]
      /\ probe'[j].age = probe[j].age
      /\ probe'[j].state = "healthy" => up
      /\ probe'[j].state = "unhealthy" => ~up \/ badAgo' = 0
  BY DEF ProbeAnswered, Answered
<1>5. ASSUME NEW k \in Jobs
      PROVE  /\ probe'[k].state # "none" => config'.endpoint
             /\ probe'[k].state = "healthy" => upAgo' <= probe'[k].age
             /\ probe'[k].state = "unhealthy" => badAgo' <= probe'[k].age
  <2>1. CASE k # j
    BY <1>1, <1>2, <1>4, <2>1 DEF Ages
  <2>2. CASE k = j
    BY <1>1, <1>2, <1>4, <2>2 DEF Ages, ProbeAnswered
  <2>3. QED
    BY <2>1, <2>2
<1>6. QED
  BY <1>1, <1>2, <1>3, <1>4, <1>5 DEF Ages

LEMMA HealthStoreHealth ==
  ASSUME HealthInv, NEW j \in Jobs, StoreHealth(j)
  PROVE  HealthInv'
<1> USE DEF HealthInv, RuntimeTypeOK
<1>1. UNCHANGED <<config, up, upAgo, badAgo, faults>>
  BY DEF StoreHealth, world
<1>2. choice' \in Choices
  BY GivenChoice DEF StoreHealth
<1>3. /\ cache' \in [age : Ages, healthy : BOOLEAN]
      /\ IF cache'.healthy THEN config.endpoint /\ upAgo <= cache'.age
                           ELSE badAgo <= cache'.age
  BY DEF StoreHealth, Ages
<1>4. /\ probe' \in [Jobs -> [age : 0 .. ProbeTimeout,
                             state : {"none", "asked", "healthy", "unhealthy"}]]
      /\ \A k \in Jobs : probe'[k] = probe[k] \/ probe'[k].state = "none"
  BY DEF StoreHealth, NoProbe
<1>5. QED
  BY <1>1, <1>2, <1>3, <1>4 DEF Choices

LEMMA HealthSelecting ==
  ASSUME HealthInv, NEW j \in Jobs, NEW r, Selecting(j, r)
  PROVE  HealthInv'
BY HealthSelectBackend, HealthProbeAnswered, HealthStoreHealth DEF Selecting

-----------------------------------------------------------------------------
(* Jobs                                                                     *)

Unrouted == {"idle", "plan", "planned", "announce", "retrieve", "route"}
Places   == {"idle"} \union Waiting \union Over
Texts    == Seq({"text", "blank"})

(* What the places of a coroutine mean for its variables.                   *)
JobInv(j) ==
  /\ at[j] \in Unrouted => route[j] = "none"
  /\ at[j] \in Unrouted \union {"routed"} => turns[j] = 0
  /\ at[j] = "agent" => turns[j] < MaxIterations
  /\ at[j] \in {"idle", "plan"} => parts[j] = 0 /\ results[j] = <<>>
  /\ at[j] \in Waiting \ {"plan"} => Len(results[j]) < parts[j]

GatewayTypes ==
  /\ at \in [Jobs -> Places]
  /\ kind \in [Jobs -> Prefixes \union {"free"}]
  /\ route \in [Jobs -> Route \union {"none"}]
  /\ parts \in [Jobs -> 0 .. PlanLimit]
  /\ results \in [Jobs -> Texts]
  /\ turns \in [Jobs -> 0 .. MaxIterations]

JobsInv == GatewayTypes /\ \A j \in Jobs : JobInv(j)

(* What a step of one job does to its variables.                            *)
Updates(j, place, k, r, p, found, t) ==
  /\ at' = [at EXCEPT ![j] = place]
  /\ kind' = [kind EXCEPT ![j] = k]
  /\ route' = [route EXCEPT ![j] = r]
  /\ parts' = [parts EXCEPT ![j] = p]
  /\ results' = [results EXCEPT ![j] = found]
  /\ turns' = [turns EXCEPT ![j] = t]

Fits(place, k, r, p, found, t) ==
  /\ place \in Places /\ k \in Prefixes \union {"free"} /\ r \in Route \union {"none"}
  /\ p \in 0 .. PlanLimit /\ found \in Texts /\ t \in 0 .. MaxIterations
  /\ place \in Unrouted => r = "none"
  /\ place \in Unrouted \union {"routed"} => t = 0
  /\ place = "agent" => t < MaxIterations
  /\ place \in {"idle", "plan"} => p = 0 /\ found = <<>>
  /\ place \in Waiting \ {"plan"} => Len(found) < p

LEMMA JobsUpdate ==
  ASSUME JobsInv, NEW j \in Jobs, NEW place, NEW k, NEW r, NEW p, NEW found, NEW t,
         Updates(j, place, k, r, p, found, t), Fits(place, k, r, p, found, t)
  PROVE  JobsInv'
<1>1. GatewayTypes'
  BY DEF JobsInv, GatewayTypes, Updates, Fits
<1>2. ASSUME NEW i \in Jobs PROVE JobInv(i)'
  <2>1. CASE i = j
    BY <2>1 DEF JobsInv, GatewayTypes, JobInv, Updates, Fits
  <2>2. CASE i # j
    BY <2>2 DEF JobsInv, GatewayTypes, JobInv, Updates
  <2>3. QED
    BY <2>1, <2>2
<1>3. QED
  BY <1>1, <1>2 DEF JobsInv

LEMMA JobsUntouched ==
  ASSUME JobsInv, UNCHANGED gatewayVars
  PROVE  JobsInv'
BY DEF JobsInv, GatewayTypes, JobInv, gatewayVars

-----------------------------------------------------------------------------
(* Every step of a job is a choice of its back end, or one of these.        *)

(* To the cache and the back ends: the choice may be dropped.               *)
Calls(j) ==
  /\ UNCHANGED Health
  /\ choice' \in {choice, [choice EXCEPT ![j] = "none"]}
  /\ faults' \in 0 .. MaxFaults

(* To the plan: nothing, its decomposition, a part, or a failure.           *)
Moves(j) ==
  /\ at[j] \in Waiting /\ at'[j] \in Waiting
  /\ at' = [at EXCEPT ![j] = at'[j]]
  /\ UNCHANGED <<parts, results>>

Decomposes(j) ==
  /\ at[j] = "plan" /\ at'[j] \in Waiting
  /\ at' = [at EXCEPT ![j] = at'[j]]
  /\ parts'[j] \in 1 .. PlanLimit
  /\ parts' = [parts EXCEPT ![j] = parts'[j]]
  /\ UNCHANGED results

EndsPart(j) ==
  /\ at[j] \in Waiting \ {"plan"}
  /\ at' = [at EXCEPT ![j] = at'[j]]
  /\ \E text \in {"text", "blank"} : results' = [results EXCEPT ![j] = Append(results[j], text)]
  /\ IF Len(results[j]) + 1 = parts[j] THEN at'[j] = "ok" ELSE at'[j] \in Waiting
  /\ UNCHANGED parts

Fails(j) ==
  /\ at[j] \in {"idle"} \union Waiting
  /\ at' = [at EXCEPT ![j] = "failed"]
  /\ results' = [results EXCEPT ![j] = <<>>]
  /\ UNCHANGED parts

GoesOn(j) ==
  /\ JobsInv'
  /\ Calls(j)
  /\ Moves(j) \/ Decomposes(j) \/ EndsPart(j) \/ Fails(j)

Starts(j) ==
  /\ at[j] = "idle" /\ at'[j] \in Waiting
  /\ at' = [at EXCEPT ![j] = at'[j]]
  /\ parts'[j] \in {0, 1}
  /\ parts' = [parts EXCEPT ![j] = parts'[j]]
  /\ UNCHANGED results

LEMMA FaultBound ==
  ASSUME HealthInv, Fault \/ UNCHANGED faults
  PROVE  faults' \in 0 .. MaxFaults
BY DEF HealthInv, RuntimeTypeOK, Fault

LEMMA RaiseFails ==
  ASSUME HealthInv, JobsInv, NEW j \in Jobs, at[j] \in Waiting, Raise(j),
         Fault \/ UNCHANGED faults
  PROVE  GoesOn(j)
<1>1. Calls(j)
  BY FaultBound DEF Raise, Forget, Calls, Health
<1>2. Fails(j)
  BY DEF Raise, Go, Fails
<1>3. Updates(j, "failed", kind[j], route[j], parts[j], <<>>, turns[j])
  BY DEF Raise, Go, Updates, JobsInv, GatewayTypes
<1>4. Fits("failed", kind[j], route[j], parts[j], <<>>, turns[j])
  BY DEF Fits, JobsInv, GatewayTypes, Places, Over, Unrouted, Waiting, Texts
<1>5. QED
  BY <1>1, <1>2, <1>3, <1>4, JobsUpdate DEF GoesOn

(* A step that only goes to another place and keeps the counts.             *)
LEMMA MoveGoesOn ==
  ASSUME HealthInv, JobsInv, NEW j \in Jobs, NEW place \in Waiting, NEW k, NEW r, NEW t,
         at[j] \in Waiting \ {"plan"}, Calls(j),
         Updates(j, place, k, r, parts[j], results[j], t),
         Fits(place, k, r, parts[j], results[j], t)
  PROVE  GoesOn(j)
<1>1. JobsInv'
  BY JobsUpdate
<1>2. Moves(j)
  BY DEF Moves, Updates, JobsInv, GatewayTypes
<1>3. QED
  BY <1>1, <1>2 DEF GoesOn

LEMMA NotifyGoesOn ==
  ASSUME HealthInv, JobsInv, NEW j \in Jobs,
         Notify(j, "planned", "announce") \/ Notify(j, "routed", "agent")
  PROVE  GoesOn(j)
<1>1. at[j] \in Waiting \ {"plan"}
  BY DEF Notify, Waiting
<1>2. CASE TimesOut(j)
  BY <1>1, <1>2, RaiseFails DEF TimesOut
<1>3. ASSUME NEW to, \/ to = "announce" /\ at[j] = "planned"
                     \/ to = "agent" /\ at[j] = "routed",
             Go(j, to), UNCHANGED <<runtimeVars, kind, route, parts, results, turns>>
      PROVE  GoesOn(j)
  <2>1. Calls(j)
    BY <1>3, FaultBound DEF Calls, Health, world, runtimeVars
  <2>2. Updates(j, to, kind[j], route[j], parts[j], results[j], turns[j])
    BY <1>3 DEF Go, Updates, JobsInv, GatewayTypes
  <2>3. Fits(to, kind[j], route[j], parts[j], results[j], turns[j])
    BY <1>3, GatewayAssumption DEF Fits, JobsInv, JobInv, GatewayTypes, Places, Over, Unrouted, Waiting
  <2>4. QED
    BY <1>1, <1>3, <2>1, <2>2, <2>3, MoveGoesOn DEF Waiting
<1>4. QED
  BY <1>2, <1>3 DEF Notify

LEMMA ChatGoesOn ==
  ASSUME HealthInv, JobsInv, NEW j \in Jobs, at[j] \in Waiting,
         CallRaises(j) /\ Raise(j)
  PROVE  GoesOn(j)
BY RaiseFails DEF CallRaises

LEMMA PlanGoesOn ==
  ASSUME HealthInv, JobsInv, NEW j \in Jobs, Plan(j)
  PROVE  \/ Selecting(j, route[j]) /\ UNCHANGED gatewayVars
         \/ GoesOn(j)
<1>1. CASE Chat(j, "plan")
  <2>1. at[j] = "plan" /\ at[j] \in Waiting /\ route[j] = "none"
    BY <1>1 DEF Chat, Waiting, JobsInv, JobInv, Unrouted
  <2>2. QED
    BY <1>1, <2>1, ChatGoesOn DEF Chat
<1>2. ASSUME ChatAnswers(j, "plan"), Go(j, "planned"), NEW n \in Replies,
             parts' = [parts EXCEPT ![j] = Listed(n)],
             UNCHANGED <<kind, route, results, turns>>
      PROVE  GoesOn(j)
  <2>1. at[j] = "plan" /\ parts[j] = 0 /\ results[j] = <<>> /\ route[j] = "none" /\ turns[j] = 0
    BY <1>2 DEF ChatAnswers, JobsInv, JobInv, Unrouted
  <2>2. Listed(n) \in 1 .. PlanLimit
    BY GatewayAssumption DEF Listed
  <2>3. Calls(j)
    BY <1>2, FaultBound DEF ChatAnswers, Forget, Calls, Health, world
  <2>4. Decomposes(j)
    BY <1>2, <2>1, <2>2 DEF Decomposes, Go, Waiting, JobsInv, GatewayTypes
  <2>5. Updates(j, "planned", kind[j], "none", Listed(n), <<>>, 0)
    BY <1>2, <2>1 DEF Go, Updates, JobsInv, GatewayTypes
  <2>6. Fits("planned", kind[j], "none", Listed(n), <<>>, 0)
    BY <2>2, GatewayAssumption
    DEF Fits, JobsInv, GatewayTypes, Places, Over, Unrouted, Waiting, Texts
  <2>7. JobsInv'
    BY <2>5, <2>6, JobsUpdate
  <2>8. QED
    BY <2>3, <2>4, <2>7 DEF GoesOn
<1>3. QED
  BY <1>1, <1>2, NotifyGoesOn DEF Plan

LEMMA NextPartGoesOn ==
  ASSUME HealthInv, JobsInv, NEW j \in Jobs, NextPart(j)
  PROVE  GoesOn(j)
<1>1. at[j] = "announce" /\ at[j] \in Waiting \ {"plan"}
  BY DEF NextPart, Waiting
<1>2. ASSUME Go(j, "retrieve"), NEW k \in Subtasks, kind' = [kind EXCEPT ![j] = k],
             UNCHANGED <<runtimeVars, route, parts, results, turns>>
      PROVE  GoesOn(j)
  <2>1. Calls(j)
    BY <1>2, FaultBound DEF Calls, Health, world, runtimeVars
  <2>2. Updates(j, "retrieve", k, route[j], parts[j], results[j], turns[j])
    BY <1>2 DEF Go, Updates, JobsInv, GatewayTypes
  <2>3. Fits("retrieve", k, route[j], parts[j], results[j], turns[j])
    BY <1>1, RequestsAssumption
    DEF Fits, JobsInv, JobInv, GatewayTypes, Places, Over, Unrouted, Waiting
  <2>4. QED
    BY <1>1, <2>1, <2>2, <2>3, MoveGoesOn DEF Waiting
<1>3. QED
  BY <1>1, <1>2, RaiseFails DEF NextPart, TimesOut

LEMMA RetrieveGoesOn ==
  ASSUME HealthInv, JobsInv, NEW j \in Jobs, Retrieve(j)
  PROVE  GoesOn(j)
<1>1. at[j] = "retrieve" /\ at[j] \in Waiting \ {"plan"}
  BY DEF Retrieve, Waiting
<1>2. CASE Go(j, "route") /\ UNCHANGED <<runtimeVars, kind, route, parts, results, turns>>
  <2>1. Calls(j)
    BY <1>2, FaultBound DEF Calls, Health, world, runtimeVars
  <2>2. Updates(j, "route", kind[j], route[j], parts[j], results[j], turns[j])
    BY <1>2 DEF Go, Updates, JobsInv, GatewayTypes
  <2>3. Fits("route", kind[j], route[j], parts[j], results[j], turns[j])
    BY <1>1 DEF Fits, JobsInv, JobInv, GatewayTypes, Places, Over, Unrouted, Waiting
  <2>4. QED
    BY <1>1, <2>1, <2>2, <2>3, MoveGoesOn DEF Waiting
<1>3. QED
  BY <1>1, <1>2, RaiseFails DEF Retrieve, RetrieveContext, TimesOut

LEMMA RouteToGoesOn ==
  ASSUME HealthInv, JobsInv, NEW j \in Jobs, NEW r \in Route,
         at[j] = "route", RouteTo(j, r), Calls(j), UNCHANGED <<kind, parts, results, turns>>
  PROVE  GoesOn(j)
<1>1. Updates(j, "routed", kind[j], r, parts[j], results[j], turns[j])
  BY DEF RouteTo, Go, Updates, JobsInv, GatewayTypes
<1>2. Fits("routed", kind[j], r, parts[j], results[j], turns[j])
  BY DEF Fits, JobsInv, JobInv, GatewayTypes, Places, Over, Unrouted, Waiting
<1>3. QED
  BY <1>1, <1>2, MoveGoesOn DEF Waiting

LEMMA RouteNodeGoesOn ==
  ASSUME HealthInv, JobsInv, NEW j \in Jobs, RouteNode(j)
  PROVE  \/ Selecting(j, route[j]) /\ UNCHANGED gatewayVars
         \/ GoesOn(j)
<1>1. CASE at[j] = "route" /\ kind[j] \in Prefixes /\ RouteTo(j, kind[j])
             /\ UNCHANGED <<runtimeVars, kind, parts, results, turns>>
  <2>1. kind[j] \in Route
    BY <1>1 DEF Prefixes
  <2>2. Calls(j)
    BY <1>1, FaultBound DEF Calls, Health, world, runtimeVars
  <2>3. QED
    BY <1>1, <2>1, <2>2, RouteToGoesOn
<1>2. CASE Chat(j, "route")
  <2>1. at[j] = "route" /\ at[j] \in Waiting /\ route[j] = "none"
    BY <1>2 DEF Chat, Waiting, JobsInv, JobInv, Unrouted
  <2>2. QED
    BY <1>2, <2>1, ChatGoesOn DEF Chat
<1>3. ASSUME ChatAnswers(j, "route"), NEW c \in Classes,
             RouteTo(j, IF c \in Route THEN c ELSE "general"),
             UNCHANGED <<kind, parts, results, turns>>
      PROVE  GoesOn(j)
  <2>1. at[j] = "route" /\ (IF c \in Route THEN c ELSE "general") \in Route
    BY <1>3 DEF ChatAnswers, Route
  <2>2. Calls(j)
    BY <1>3, FaultBound DEF ChatAnswers, Forget, Calls, Health, world
  <2>3. QED
    BY <1>3, <2>1, <2>2, RouteToGoesOn
<1>4. QED
  BY <1>1, <1>2, <1>3, NotifyGoesOn DEF RouteNode

LEMMA ReturnGoesOn ==
  ASSUME HealthInv, JobsInv, NEW j \in Jobs, at[j] \in {"agent", "tools"},
         NEW text \in {"text", "blank"}, Return(j, text),
         UNCHANGED <<config, world, cache, probe, faults, kind, parts>>
  PROVE  GoesOn(j)
<1> DEFINE place == IF Len(results[j]) + 1 = parts[j] THEN "ok" ELSE "announce"
           found == Append(results[j], text)
<1>1. Calls(j)
  BY FaultBound DEF Return, Forget, Calls, Health
<1>2. Len(results[j]) < parts[j] /\ results[j] \in Texts /\ parts[j] \in 0 .. PlanLimit
  BY DEF JobsInv, JobInv, GatewayTypes, Waiting
<1>3. found \in Texts /\ Len(found) = Len(results[j]) + 1 /\ Len(results[j]) \in Nat
  BY <1>2 DEF Texts
<1>4. EndsPart(j)
  BY DEF Return, Go, EndsPart, JobsInv, GatewayTypes, Waiting
<1>5. Updates(j, place, kind[j], "none", parts[j], found, 0)
  BY DEF Return, Go, Updates, JobsInv, GatewayTypes
<1>6. Fits(place, kind[j], "none", parts[j], found, 0)
  <2>1. place \in Waiting => Len(found) < parts[j]
    BY <1>2, <1>3, GatewayAssumption DEF Waiting
  <2>2. QED
    BY <1>2, <1>3, <2>1, GatewayAssumption
    DEF Fits, JobsInv, GatewayTypes, Places, Over, Unrouted, Waiting
<1>7. JobsInv'
  BY <1>5, <1>6, JobsUpdate
<1>8. QED
  BY <1>1, <1>4, <1>7 DEF GoesOn

LEMMA TurnGoesOn ==
  ASSUME HealthInv, JobsInv, NEW j \in Jobs, Turn(j)
  PROVE  GoesOn(j)
<1>1. at[j] = "agent" /\ at[j] \in Waiting \ {"plan"}
  BY DEF Turn, Waiting
<1>2. CASE /\ Go(j, "tools")
           /\ turns' = [turns EXCEPT ![j] = @ + 1]
           /\ UNCHANGED <<choice, route, results>>
           /\ UNCHANGED <<config, world, cache, probe, faults, kind, parts>>
  <2>1. Calls(j)
    BY <1>2, FaultBound DEF Calls, Health
  <2>2. Updates(j, "tools", kind[j], route[j], parts[j], results[j], turns[j] + 1)
    BY <1>2 DEF Go, Updates, JobsInv, GatewayTypes
  <2>3. Fits("tools", kind[j], route[j], parts[j], results[j], turns[j] + 1)
    BY <1>1, GatewayAssumption
    DEF Fits, JobsInv, JobInv, GatewayTypes, Places, Over, Unrouted, Waiting
  <2>4. QED
    BY <1>1, <2>1, <2>2, <2>3, MoveGoesOn DEF Waiting
<1>3. QED
  BY <1>1, <1>2, ReturnGoesOn DEF Turn

LEMMA UseToolsGoesOn ==
  ASSUME HealthInv, JobsInv, NEW j \in Jobs, UseTools(j)
  PROVE  GoesOn(j)
<1>1. at[j] = "tools" /\ at[j] \in Waiting \ {"plan"}
  BY DEF UseTools, Waiting
<1>2. CASE /\ ~Exhausted(j)
           /\ Go(j, "agent") /\ UNCHANGED <<choice, route, results, turns>>
           /\ UNCHANGED <<config, world, cache, probe, faults, kind, parts>>
  <2>1. Calls(j)
    BY <1>2, FaultBound DEF Calls, Health
  <2>2. Updates(j, "agent", kind[j], route[j], parts[j], results[j], turns[j])
    BY <1>2 DEF Go, Updates, JobsInv, GatewayTypes
  <2>3. Fits("agent", kind[j], route[j], parts[j], results[j], turns[j])
    BY <1>1, <1>2, GatewayAssumption
    DEF Fits, JobsInv, JobInv, GatewayTypes, Places, Over, Unrouted, Waiting, Exhausted
  <2>4. QED
    BY <1>1, <2>1, <2>2, <2>3, MoveGoesOn DEF Waiting
<1>3. CASE Exhausted(j) /\ ExecuteTools(j)
  BY <1>1, <1>3, ReturnGoesOn DEF ExecuteTools
<1>4. CASE TimesOut(j)
  BY <1>1, <1>4, RaiseFails DEF TimesOut
<1>5. QED
  BY <1>2, <1>3, <1>4 DEF UseTools, ExecuteTools

LEMMA StepShape ==
  ASSUME HealthInv, JobsInv, NEW j \in Jobs, Step(j)
  PROVE  \/ Selecting(j, route[j]) /\ UNCHANGED gatewayVars
         \/ GoesOn(j)
<1>1. ASSUME RunAgent(j)
      PROVE  (Selecting(j, route[j]) /\ UNCHANGED gatewayVars) \/ GoesOn(j)
  <2>1. CASE at[j] = "agent" /\ CallRaises(j) /\ Raise(j)
    BY <2>1, ChatGoesOn DEF Waiting
  <2>2. QED
    BY <1>1, <2>1, TurnGoesOn, UseToolsGoesOn DEF RunAgent
<1>2. QED
  BY <1>1, PlanGoesOn, NextPartGoesOn, RetrieveGoesOn, RouteNodeGoesOn DEF Step

LEMMA BeginShape ==
  ASSUME HealthInv, JobsInv, NEW j \in Jobs, Begin(j)
  PROVE  JobsInv' /\ UNCHANGED runtimeVars /\ (Starts(j) \/ Fails(j))
<1>1. /\ at[j] = "idle" /\ parts[j] = 0 /\ results[j] = <<>>
      /\ route[j] = "none" /\ turns[j] = 0
  BY DEF Begin, JobsInv, JobInv, Unrouted
<1>2. PICK r \in Requests[j] :
        /\ Go(j, IF ~Configured THEN "failed" ELSE IF r = "plan" THEN "plan" ELSE "retrieve")
        /\ kind' = [kind EXCEPT ![j] = IF r = "plan" THEN "free" ELSE r]
        /\ parts' = [parts EXCEPT ![j] = IF Configured /\ r # "plan" THEN 1 ELSE 0]
  BY DEF Begin
<1> DEFINE place == IF ~Configured THEN "failed" ELSE IF r = "plan" THEN "plan" ELSE "retrieve"
           k == IF r = "plan" THEN "free" ELSE r
           p == IF Configured /\ r # "plan" THEN 1 ELSE 0
<1>3. r \in Prefixes \union {"plan", "free"}
  BY RequestsAssumption
<1>4. UNCHANGED <<runtimeVars, route, results, turns>>
  BY DEF Begin
<1>5. Updates(j, place, k, "none", p, <<>>, 0)
  BY <1>1, <1>2, <1>4 DEF Go, Updates, JobsInv, GatewayTypes
<1>6. Fits(place, k, "none", p, <<>>, 0)
  BY <1>3, GatewayAssumption
  DEF Fits, JobsInv, GatewayTypes, Places, Over, Unrouted, Waiting, Texts
<1>7. JobsInv'
  BY <1>5, <1>6, JobsUpdate
<1>8. CASE Configured
  <2>1. Starts(j)
    BY <1>1, <1>2, <1>4, <1>8 DEF Starts, Go, Waiting, JobsInv, GatewayTypes
  <2>2. QED
    BY <1>4, <1>7, <2>1
<1>9. CASE ~Configured
  <2>1. Fails(j)
    BY <1>1, <1>2, <1>4, <1>9 DEF Fails, Go, JobsInv, GatewayTypes
  <2>2. QED
    BY <1>4, <1>7, <2>1
<1>10. QED
  BY <1>8, <1>9

-----------------------------------------------------------------------------
(* The inductive invariant                                                  *)

IInv == HealthInv /\ JobsInv /\ calm \in [Jobs -> BOOLEAN]

LEMMA InvInit == Init => IInv
<1> SUFFICES ASSUME Init PROVE IInv
  OBVIOUS
<1>1. HealthInv
  BY HealthInit DEF Init
<1>2. GatewayTypes
  BY GatewayAssumption DEF Init, GatewayTypes, Places, Texts
<1>3. \A j \in Jobs : JobInv(j)
  BY GatewayAssumption DEF Init, JobInv, Waiting
<1>4. QED
  BY <1>1, <1>2, <1>3 DEF Init, IInv, JobsInv

LEMMA GoesOnHealth ==
  ASSUME HealthInv, NEW j \in Jobs, GoesOn(j)
  PROVE  HealthInv'
<1>1. choice' \in Choices
  BY DEF GoesOn, Calls, HealthInv, RuntimeTypeOK, Choices
<1>2. QED
  BY <1>1, HealthUntouched DEF GoesOn, Calls

LEMMA RuntimeUnchanged ==
  ASSUME HealthInv, UNCHANGED runtimeVars
  PROVE  HealthInv'
BY DEF HealthInv, RuntimeTypeOK, runtimeVars

LEMMA InvNext == IInv /\ [Next]_vars => IInv'
<1> SUFFICES ASSUME IInv, [Next]_vars PROVE IInv'
  OBVIOUS
<1>1. HealthInv /\ JobsInv
  BY DEF IInv
<1>2. ASSUME NEW j \in Jobs, Begin(j) PROVE HealthInv' /\ JobsInv'
  BY <1>1, <1>2, BeginShape, RuntimeUnchanged
<1>3. ASSUME NEW j \in Jobs, Step(j) PROVE HealthInv' /\ JobsInv'
  <2>1. CASE Selecting(j, route[j]) /\ UNCHANGED gatewayVars
    BY <1>1, <2>1, HealthSelecting, JobsUntouched
  <2>2. CASE GoesOn(j)
    BY <1>1, <2>2, GoesOnHealth DEF GoesOn
  <2>3. QED
    BY <1>1, <1>3, <2>1, <2>2, StepShape
<1>4. ASSUME Environment PROVE HealthInv' /\ JobsInv'
  <2>1. HealthInv'
    BY <1>1, <1>4, HealthGoesDown, HealthComesUp, HealthTick DEF Environment
  <2>2. QED
    BY <1>1, <1>4, <2>1, JobsUntouched DEF Environment
<1>5. ASSUME UNCHANGED vars PROVE HealthInv' /\ JobsInv'
  BY <1>1, <1>5, RuntimeUnchanged, JobsUntouched DEF vars
<1>6. calm' \in [Jobs -> BOOLEAN]
  <2>1. CASE Calmness
    <3>1. calm \in [Jobs -> BOOLEAN]
      BY DEF IInv
    <3>2. QED
      BY <2>1, <3>1 DEF Calmness
  <2>2. QED
    BY <2>1 DEF Next, IInv, vars
<1>7. QED
  BY <1>2, <1>3, <1>4, <1>5, <1>6 DEF Next, IInv

LEMMA InvType == IInv => TypeOK
BY DEF IInv, HealthInv, JobsInv, GatewayTypes, TypeOK, Places, Texts

LEMMA InvHolds == Spec => []IInv
BY InvInit, InvNext, PTL DEF Spec

(* Every variable keeps its type: in particular no loop takes more than     *)
(* MaxIterations turns and no plan has more than PlanLimit parts.           *)
THEOREM GatewayTypeCorrect == Spec => []TypeOK
BY InvHolds, InvType, PTL

-----------------------------------------------------------------------------
(* The age of what a choice rests on                                        *)

Recent(j) ==
  choice[j] = "none" =>
    /\ choice'[j] = "vllm" => config.endpoint /\ upAgo < TTL
    /\ choice'[j] = "claude" /\ AsksForVllm(route[j]) => badAgo < TTL

LEMMA SelectingRecent ==
  ASSUME HealthInv, NEW j \in Jobs, Selecting(j, route[j]), NEW i \in Jobs
  PROVE  Recent(i)
<1> USE DEF HealthInv, RuntimeTypeOK
<1>1. CASE SelectBackend(j, route[j]) /\ UseCache(j)
  BY <1>1 DEF UseCache, Fresh, Given, Recent, Ages
<1>2. CASE SelectBackend(j, route[j]) /\ StartProbe(j)
  BY <1>2 DEF StartProbe, Recent
<1>3. CASE ~AsksForVllm(route[j]) /\ Given(j, FALSE)
  BY <1>3 DEF Given, Recent
<1>4. CASE ProbeAnswered(j)
  BY <1>4 DEF ProbeAnswered, Recent
<1>5. CASE StoreHealth(j)
  <2>1. probe[j].age < TTL
    OBVIOUS
  <2>2. /\ probe[j].state = "healthy" => config.endpoint /\ upAgo < TTL
        /\ probe[j].state = "unhealthy" => badAgo < TTL
    BY <2>1 DEF Ages
  <2>3. QED
    BY <1>5, <2>2 DEF StoreHealth, Given, Recent
<1>6. QED
  BY <1>1, <1>2, <1>3, <1>4, <1>5 DEF Selecting, SelectBackend

LEMMA NextRecent ==
  ASSUME IInv, [Next]_vars, NEW i \in Jobs
  PROVE  Recent(i)
<1>1. HealthInv /\ JobsInv
  BY DEF IInv
<1>2. CASE UNCHANGED choice
  BY <1>2 DEF Recent
<1>3. ASSUME NEW j \in Jobs, Begin(j) PROVE Recent(i)
  BY <1>2, <1>3 DEF Begin, runtimeVars
<1>4. ASSUME NEW j \in Jobs, Step(j) PROVE Recent(i)
  <2>1. CASE GoesOn(j)
    BY <1>1, <2>1 DEF GoesOn, Calls, Recent, HealthInv, RuntimeTypeOK
  <2>2. QED
    BY <1>1, <1>4, <2>1, StepShape, SelectingRecent
<1>5. CASE Environment
  BY <1>2, <1>5 DEF Environment, GoesDown, ComesUp, Tick
<1>6. CASE UNCHANGED vars
  BY <1>2, <1>6 DEF vars, runtimeVars
<1>7. QED
  BY <1>3, <1>4, <1>5, <1>6 DEF Next

(* For any number of jobs whose probes overlap, and any TTL longer than a   *)
(* probe: a back end is chosen for what vLLM was less than a TTL ago.       *)
THEOREM ChoicesRecent == Spec => ChoiceIsRecent
<1>1. IInv /\ [Next]_vars => [\A j \in Jobs : Recent(j)]_vars
  BY NextRecent
<1>2. QED
  BY <1>1, InvHolds, PTL DEF Spec, ChoiceIsRecent, Recent

-----------------------------------------------------------------------------
(* Tasks in calm weather                                                    *)

(* The choice of a job suits vLLM as it is and the key there is.            *)
Suits(j) ==
  /\ choice[j] = "vllm" => up
  /\ choice[j] = "claude" /\ ~config.key => ~(config.endpoint /\ up)

CalmInv ==
  \A j \in Jobs :
    /\ at[j] = "idle" => choice[j] = "none"
    /\ calm[j] /\ at[j] \in Waiting => Steady /\ Suits(j)

LEMMA StepWaits ==
  ASSUME NEW j \in Jobs, Step(j)
  PROVE  at[j] \in Waiting
<1>1. ASSUME Plan(j) \/ NextPart(j) \/ Retrieve(j) PROVE at[j] \in Waiting
  BY <1>1 DEF Plan, Chat, ChatAnswers, Notify, NextPart, Retrieve, Waiting
<1>2. ASSUME RouteNode(j) PROVE at[j] \in Waiting
  BY <1>2 DEF RouteNode, Chat, ChatAnswers, Notify, Waiting
<1>3. ASSUME RunAgent(j) PROVE at[j] \in Waiting
  BY <1>3 DEF RunAgent, Turn, UseTools, Waiting
<1>4. QED
  BY <1>1, <1>2, <1>3 DEF Step

(* vLLM is up, or has been away for a TTL.                                  *)
LEMMA SteadyMeans ==
  ASSUME HealthInv, Steady
  PROVE  /\ up => badAgo = TTL
         /\ ~up => upAgo = TTL
BY DEF Steady, HealthInv

LEMMA SelectingFacts ==
  ASSUME HealthInv, NEW j \in Jobs, NEW r, Selecting(j, r)
  PROVE  /\ UNCHANGED <<config, up, upAgo>>
         /\ faults' = faults => badAgo' = badAgo
         /\ \A i \in Jobs : i # j => choice'[i] = choice[i]
<1>1. CASE SelectBackend(j, r)
  BY <1>1 DEF SelectBackend, UseCache, StartProbe, Given, world, HealthInv, RuntimeTypeOK
<1>2. CASE ProbeAnswered(j)
  BY <1>2 DEF ProbeAnswered, Fault, HealthInv, RuntimeTypeOK
<1>3. CASE StoreHealth(j)
  BY <1>3 DEF StoreHealth, Given, world, HealthInv, RuntimeTypeOK
<1>4. QED
  BY <1>1, <1>2, <1>3 DEF Selecting

LEMMA SteadyStays ==
  ASSUME IInv, Steady, [Next]_vars, UNCHANGED <<up, faults>>
  PROVE  Steady'
<1>1. HealthInv /\ JobsInv
  BY DEF IInv
<1>2. CASE UNCHANGED <<upAgo, badAgo>>
  BY <1>2 DEF Steady
<1>3. CASE UNCHANGED vars
  BY <1>2, <1>3 DEF vars, runtimeVars
<1>4. ASSUME NEW j \in Jobs, Begin(j) PROVE Steady'
  BY <1>2, <1>4 DEF Begin, runtimeVars
<1>5. ASSUME NEW j \in Jobs, Step(j) PROVE Steady'
  <2>1. CASE GoesOn(j)
    BY <1>2, <2>1 DEF GoesOn, Calls, Health, world
  <2>2. CASE Selecting(j, route[j])
    BY <1>1, <1>2, <2>2, SelectingFacts
  <2>3. QED
    BY <1>1, <1>5, <2>1, <2>2, StepShape
<1>6. CASE Environment
  <2>1. ~GoesDown /\ ~ComesUp
    BY DEF GoesDown, ComesUp
  <2>2. Tick
    BY <1>6, <2>1 DEF Environment
  <2>3. Older(TTL) = TTL
    BY DEF Older
  <2>4. CASE up
    BY <1>1, <2>2, <2>3, <2>4, SteadyMeans DEF Tick, Steady
  <2>5. CASE ~up
    BY <1>1, <2>2, <2>3, <2>5, SteadyMeans DEF Tick, Steady
  <2>6. QED
    BY <2>4, <2>5
<1>7. QED
  BY <1>3, <1>4, <1>5, <1>6 DEF Next

(* What is known of the health of vLLM is so when nothing changes.          *)
LEMMA GivenSuits ==
  ASSUME HealthInv, Steady, NEW j \in Jobs, NEW healthy \in BOOLEAN, Given(j, healthy),
         UNCHANGED <<config, up>>,
         healthy => upAgo < TTL,
         ~healthy => badAgo < TTL \/ ~config.endpoint \/ config.key
  PROVE  Suits(j)'
<1>1. choice'[j] = IF healthy THEN "vllm" ELSE "claude"
  BY DEF Given, HealthInv, RuntimeTypeOK
<1>2. CASE healthy
  <2>1. up
    BY <1>2, SteadyMeans DEF HealthInv, RuntimeTypeOK, Ages
  <2>2. QED
    BY <1>1, <1>2, <2>1 DEF Suits
<1>3. CASE ~healthy
  <2>1. up => ~config.endpoint \/ config.key
    BY <1>3, SteadyMeans DEF HealthInv, RuntimeTypeOK, Ages
  <2>2. QED
    BY <1>1, <1>3, <2>1 DEF Suits
<1>4. QED
  BY <1>2, <1>3

LEMMA SelectingSuits ==
  ASSUME HealthInv, Steady, NEW j \in Jobs, Suits(j), NEW r, Selecting(j, r)
  PROVE  Suits(j)'
<1>1. UNCHANGED <<config, up>>
  BY SelectingFacts
<1>2. CASE choice' = choice
  BY <1>1, <1>2 DEF Suits
<1>3. CASE SelectBackend(j, r) /\ AsksForVllm(r) /\ UseCache(j)
  <2>1. cache.healthy \in BOOLEAN /\ Given(j, cache.healthy)
    BY <1>3 DEF UseCache, HealthInv, RuntimeTypeOK
  <2>2. IF cache.healthy THEN upAgo < TTL ELSE badAgo < TTL
    BY <1>3 DEF UseCache, Fresh, HealthInv, RuntimeTypeOK, Ages
  <2>3. QED
    BY <1>1, <2>1, <2>2, GivenSuits
<1>4. CASE SelectBackend(j, r) /\ ~AsksForVllm(r)
  <2>1. Given(j, FALSE) /\ (~config.endpoint \/ config.key)
    BY <1>4 DEF SelectBackend, AsksForVllm
  <2>2. QED
    BY <1>1, <2>1, GivenSuits
<1>5. CASE StoreHealth(j)
  <2> DEFINE healthy == probe[j].state = "healthy"
  <2>1. healthy \in BOOLEAN /\ Given(j, healthy)
    BY <1>5 DEF StoreHealth
  <2>2. IF healthy THEN upAgo < TTL ELSE badAgo < TTL
    BY <1>5 DEF StoreHealth, HealthInv, RuntimeTypeOK, Ages
  <2>3. QED
    BY <1>1, <2>1, <2>2, GivenSuits
<1>6. QED
  BY <1>2, <1>3, <1>4, <1>5 DEF Selecting, SelectBackend, ProbeAnswered, StartProbe

(* A calm job was at work before, or begins.                                *)
LEMMA CalmBefore ==
  ASSUME NEW i \in Jobs, Calmness, calm'[i], at[i] \notin Over
  PROVE  /\ UNCHANGED <<up, faults>>
         /\ IF at[i] = "idle" THEN Steady ELSE calm[i]
BY DEF Calmness

LEMMA OverStays ==
  ASSUME IInv, [Next]_vars, NEW i \in Jobs, at'[i] # at[i]
  PROVE  /\ at[i] \notin Over /\ at'[i] # "idle"
         /\ \/ Begin(i) /\ at[i] = "idle"
            \/ Step(i) /\ GoesOn(i) /\ at[i] \in Waiting
<1>1. HealthInv /\ JobsInv
  BY DEF IInv
<1>2. ~(UNCHANGED vars) /\ ~Environment
  BY DEF vars, gatewayVars, Environment
<1>3. ASSUME NEW j \in Jobs, Begin(j)
      PROVE  i = j /\ at[i] = "idle" /\ at'[i] # "idle"
  <2>1. Starts(j) \/ Fails(j)
    BY <1>1, <1>3, BeginShape
  <2>2. at[j] = "idle"
    BY <1>3 DEF Begin
  <2>3. i = j
    BY <1>1, <2>1 DEF Starts, Fails, JobsInv, GatewayTypes
  <2>4. QED
    BY <1>1, <2>2, <2>3
<1>4. ASSUME NEW j \in Jobs, Step(j)
      PROVE  i = j /\ GoesOn(i) /\ at[i] \in Waiting /\ at'[i] # "idle"
  <2>1. GoesOn(j)
    BY <1>1, <1>4, StepShape DEF gatewayVars
  <2>2. i = j
    BY <1>1, <2>1 DEF GoesOn, Moves, Decomposes, EndsPart, Fails, JobsInv, GatewayTypes
  <2>3. at[i] \in Waiting
    BY <1>4, <2>2, StepWaits
  <2>4. at'[i] # "idle"
    BY <1>1, <2>1, <2>2 DEF GoesOn, Moves, Decomposes, EndsPart, Fails, Waiting, JobsInv,
       GatewayTypes
  <2>5. QED
    BY <2>1, <2>2, <2>3, <2>4
<1>5. PICK j \in Jobs : Begin(j) \/ Step(j)
  BY <1>2 DEF Next
<1>6. CASE Begin(j)
  BY <1>3, <1>6 DEF Over
<1>7. CASE Step(j)
  BY <1>4, <1>7 DEF Over, Waiting
<1>8. QED
  BY <1>5, <1>6, <1>7

(* A job's choice is kept, dropped, or made while it waits.                 *)
LEMMA ChoiceStep ==
  ASSUME IInv, [Next]_vars, NEW i \in Jobs
  PROVE  /\ config' = config
         /\ \/ choice'[i] = choice[i]
            \/ choice'[i] = "none"
            \/ at[i] \in Waiting /\ Selecting(i, route[i])
<1>1. HealthInv /\ JobsInv
  BY DEF IInv
<1>2. CASE UNCHANGED vars \/ Environment \/ \E j \in Jobs : Begin(j)
  BY <1>2 DEF vars, runtimeVars, Environment, GoesDown, ComesUp, Tick, Begin
<1>3. ASSUME NEW j \in Jobs, Step(j)
      PROVE  /\ config' = config
             /\ \/ choice'[i] = choice[i]
                \/ choice'[i] = "none"
                \/ at[i] \in Waiting /\ Selecting(i, route[i])
  <2>1. CASE GoesOn(j)
    BY <1>1, <2>1 DEF GoesOn, Calls, Health, HealthInv, RuntimeTypeOK
  <2>2. CASE Selecting(j, route[j]) /\ i # j
    BY <1>1, <2>2, SelectingFacts
  <2>3. CASE Selecting(j, route[j]) /\ i = j
    BY <1>1, <1>3, <2>3, SelectingFacts, StepWaits
  <2>4. QED
    BY <1>1, <1>3, <2>1, <2>2, <2>3, StepShape
<1>4. QED
  BY <1>2, <1>3 DEF Next

LEMMA CalmNext ==
  ASSUME IInv, CalmInv, [Next]_vars
  PROVE  CalmInv'
<1>1. ASSUME NEW i \in Jobs, at'[i] = "idle" PROVE choice'[i] = "none"
  <2>1. at[i] = "idle"
    BY <1>1, OverStays
  <2>2. QED
    BY <2>1, ChoiceStep DEF CalmInv, Waiting
<1>2. ASSUME NEW i \in Jobs, calm'[i], at'[i] \in Waiting PROVE Steady' /\ Suits(i)'
  <2>1. CASE UNCHANGED vars
    BY <1>2, <2>1 DEF vars, runtimeVars, gatewayVars, CalmInv, Steady, Suits
  <2>2. CASE Calmness
    <3>1. at[i] \notin Over
      BY <1>2, OverStays DEF Waiting, Over
    <3>2. UNCHANGED <<up, faults>> /\ IF at[i] = "idle" THEN Steady ELSE calm[i]
      BY <1>2, <2>2, <3>1, CalmBefore
    <3>3. at[i] = "idle" \/ at[i] \in Waiting
      BY <3>1 DEF IInv, JobsInv, GatewayTypes, Places
    <3>4. Steady /\ Suits(i)
      BY <3>2, <3>3 DEF CalmInv, Suits, Waiting
    <3>5. Steady'
      BY <3>2, <3>4, SteadyStays
    <3>6. CASE choice'[i] = choice[i] \/ choice'[i] = "none"
      BY <3>2, <3>4, <3>5, <3>6, ChoiceStep DEF Suits
    <3>7. CASE Selecting(i, route[i])
      BY <3>4, <3>5, <3>7, SelectingSuits DEF IInv
    <3>8. QED
      BY <3>6, <3>7, ChoiceStep
  <2>3. QED
    BY <2>1, <2>2 DEF Next
<1>3. QED
  BY <1>1, <1>2 DEF CalmInv

(* Without a fault a job fails when the back end it was given does not      *)
(* answer, or before it has begun.                                          *)
LEMMA FailsUnanswered ==
  ASSUME HealthInv, JobsInv, NEW j \in Jobs, Step(j), at'[j] = "failed", UNCHANGED faults
  PROVE  choice[j] # "none" /\ ~Answers(j)
<1>0. \A place : Go(j, place) => at'[j] = place
  BY DEF Go, JobsInv, GatewayTypes
<1>1. ~Fault
  BY DEF Fault, HealthInv, RuntimeTypeOK
<1>2. ~(UNCHANGED gatewayVars)
  BY StepWaits DEF gatewayVars, Waiting
<1>3. ~TimesOut(j)
  BY <1>1 DEF TimesOut
<1>4. ASSUME CallRaises(j) PROVE choice[j] # "none" /\ ~Answers(j)
  BY <1>1, <1>4 DEF CallRaises
<1>5. ~Notify(j, "planned", "announce") /\ ~Notify(j, "routed", "agent")
  BY <1>0, <1>3 DEF Notify
<1>6. \A c : ~RouteTo(j, c) \/ at'[j] = "routed"
  BY <1>0 DEF RouteTo
<1>7. \A text : ~Return(j, text)
  BY <1>0 DEF Return
<1>8. CASE Plan(j)
  BY <1>0, <1>2, <1>4, <1>5, <1>8 DEF Plan, Chat
<1>9. CASE NextPart(j) \/ Retrieve(j)
  BY <1>0, <1>3, <1>9 DEF NextPart, Retrieve, RetrieveContext
<1>10. CASE RouteNode(j)
  BY <1>2, <1>4, <1>5, <1>6, <1>10 DEF RouteNode, Chat
<1>11. CASE RunAgent(j)
  BY <1>0, <1>2, <1>3, <1>4, <1>7, <1>11 DEF RunAgent, Turn, UseTools, ExecuteTools
<1>12. QED
  BY <1>8, <1>9, <1>10, <1>11 DEF Step

LEMMA CalmFailure ==
  ASSUME IInv, CalmInv, [Next]_vars, NEW j \in Jobs, at[j] # "failed", at'[j] = "failed", calm'[j]
  PROVE  ~config.key /\ ~(config.endpoint /\ up)
<1>1. HealthInv /\ JobsInv
  BY DEF IInv
<1>2. at[j] \notin Over /\ Calmness
  BY OverStays DEF Next, vars, gatewayVars
<1>3. UNCHANGED <<up, faults>> /\ IF at[j] = "idle" THEN Steady ELSE calm[j]
  BY <1>2, CalmBefore
<1>4. CASE Begin(j) /\ at[j] = "idle"
  <2>1. ~Configured
    BY <1>1, <1>4 DEF Begin, Go, JobsInv, GatewayTypes
  <2>2. QED
    BY <2>1 DEF Configured
<1>5. CASE Step(j) /\ at[j] \in Waiting
  <2>1. choice[j] # "none" /\ ~Answers(j)
    BY <1>1, <1>3, <1>5, FailsUnanswered
  <2>2. Suits(j)
    BY <1>3, <1>5 DEF CalmInv, Waiting
  <2>3. choice[j] \in {"vllm", "claude"}
    BY <1>1, <2>1 DEF HealthInv, RuntimeTypeOK, Backend
  <2>4. QED
    BY <2>1, <2>2, <2>3 DEF Answers, Suits
<1>6. QED
  BY <1>4, <1>5, OverStays

(* Whatever other jobs probe and store: a task that begins when vLLM has    *)
(* been up, or down, for a TTL and meets no change and no fault fails only  *)
(* if there is no key and no vLLM that answers.                             *)
THEOREM CalmServed == Spec => CalmTasksServed
<1>1. Init => CalmInv
  BY DEF Init, RuntimeInit, CalmInv, Waiting
<1>2. IInv /\ CalmInv /\ [Next]_vars => CalmInv'
  BY CalmNext
<1>3. IInv /\ CalmInv /\ [Next]_vars =>
        [\A j \in Jobs :
           at[j] # "failed" /\ at'[j] = "failed" /\ calm'[j]
             => ~config.key /\ ~(config.endpoint /\ up)]_vars
  BY CalmFailure
<1>4. QED
  BY <1>1, <1>2, <1>3, InvHolds, PTL DEF Spec, CalmTasksServed

-----------------------------------------------------------------------------
(* The refinement of PlanRun                                                *)

Status == [j \in Jobs |-> StatusOf(at[j])]

LEMMA StatusValues ==
  /\ StatusOf("idle") = "idle" /\ StatusOf("failed") = "failed" /\ StatusOf("ok") = "ok"
  /\ \A place \in Waiting : StatusOf(place) = "running"
BY DEF StatusOf, Waiting, Over

LEMMA StatusUpdate ==
  ASSUME JobsInv, NEW j \in Jobs, NEW place \in Places, at' = [at EXCEPT ![j] = place]
  PROVE  Status' = [Status EXCEPT ![j] = StatusOf(place)]
BY DEF JobsInv, GatewayTypes, Status

LEMMA PlanInit == Init => Promised!Init
BY StatusValues DEF Init, Promised!Init

LEMMA GoesOnPlan ==
  ASSUME JobsInv, NEW j \in Jobs, GoesOn(j)
  PROVE  [Promised!Next]_(Promised!vars)
<1>1. at'[j] \in Places /\ at[j] \in Places
  BY DEF GoesOn, JobsInv, GatewayTypes
<1>2. CASE Moves(j)
  <2>1. Status' = [Status EXCEPT ![j] = "running"] /\ Status[j] = "running"
    BY <1>1, <1>2, StatusUpdate, StatusValues DEF Moves, Status
  <2>2. Status' = Status
    BY <2>1 DEF Status
  <2>3. QED
    BY <1>2, <2>2 DEF Moves, Status, Promised!vars
<1>3. CASE Decomposes(j)
  <2>1. Status' = [Status EXCEPT ![j] = "running"] /\ Status[j] = "running"
    BY <1>1, <1>3, StatusUpdate, StatusValues DEF Decomposes, Status, Waiting
  <2>2. Status' = Status
    BY <2>1 DEF Status
  <2>3. parts[j] = 0
    BY <1>3 DEF Decomposes, JobsInv, JobInv
  <2>4. Promised!Decompose(j)
    BY <1>3, <2>1, <2>2, <2>3 DEF Decomposes, Status, Promised!Decompose
  <2>5. QED
    BY <2>4 DEF Promised!Next, Promised!GoOn
<1>4. CASE EndsPart(j)
  <2>1. /\ Len(results[j]) < parts[j] /\ results[j] \in Texts
        /\ at[j] \in Waiting
    BY <1>4 DEF EndsPart, JobsInv, JobInv, GatewayTypes
  <2>2. Status[j] = "running"
    BY <2>1, StatusValues DEF Status
  <2>3. PICK text \in {"text", "blank"} : results' = [results EXCEPT ![j] = Append(@, text)]
    BY <1>4 DEF EndsPart
  <2>4. Len(results'[j]) = Len(results[j]) + 1
    BY <2>1, <2>3 DEF Texts, JobsInv, GatewayTypes
  <2>5. Status' = [Status EXCEPT ![j] = IF Len(results'[j]) = parts[j] THEN "ok" ELSE @]
    BY <1>1, <1>4, <2>2, <2>4, StatusUpdate, StatusValues DEF EndsPart
  <2>6. Promised!RunPart(j)
    BY <1>4, <2>1, <2>2, <2>3, <2>5 DEF EndsPart, Status, Promised!RunPart
  <2>7. QED
    BY <2>6 DEF Promised!Next, Promised!GoOn
<1>5. CASE Fails(j)
  <2>1. Status[j] \in {"idle", "running"}
    BY <1>5, StatusValues DEF Fails, Status
  <2>2. Status' = [Status EXCEPT ![j] = "failed"]
    BY <1>5, StatusUpdate, StatusValues DEF Fails, Places, Over
  <2>3. Promised!Fail(j)
    BY <1>5, <2>1, <2>2 DEF Fails, Status, Promised!Fail
  <2>4. QED
    BY <2>3 DEF Promised!Next
<1>6. QED
  BY <1>2, <1>3, <1>4, <1>5 DEF GoesOn

LEMMA BeginPlan ==
  ASSUME HealthInv, JobsInv, NEW j \in Jobs, Begin(j)
  PROVE  Promised!Next
<1>1. CASE Starts(j)
  <2>1. at'[j] \in Places /\ Status[j] = "idle"
    BY <1>1, StatusValues DEF Starts, Status, Places
  <2>2. Status' = [Status EXCEPT ![j] = "running"]
    BY <1>1, <2>1, StatusUpdate, StatusValues DEF Starts
  <2>3. Promised!Begin(j)
    BY <1>1, <2>1, <2>2 DEF Starts, Status, Promised!Begin
  <2>4. QED
    BY <2>3 DEF Promised!Next
<1>2. CASE Fails(j)
  <2>1. Status[j] \in {"idle", "running"}
    BY <1>2, StatusValues DEF Fails, Status
  <2>2. Status' = [Status EXCEPT ![j] = "failed"]
    BY <1>2, StatusUpdate, StatusValues DEF Fails, Places, Over
  <2>3. Promised!Fail(j)
    BY <1>2, <2>1, <2>2 DEF Fails, Status, Promised!Fail
  <2>4. QED
    BY <2>3 DEF Promised!Next
<1>3. QED
  BY <1>1, <1>2, BeginShape

LEMMA GatewayUntouched ==
  ASSUME UNCHANGED gatewayVars
  PROVE  UNCHANGED Promised!vars
BY DEF gatewayVars, Promised!vars

(* For any number of jobs and any limits, whatever fails: the parts of a    *)
(* plan run in their order and once, and a task reports all of them or      *)
(* none.  (That every task ends is only model-checked.)                     *)
THEOREM PlanRunImplemented == Spec => Promised!Init /\ [][Promised!Next]_(Promised!vars)
<1>1. IInv /\ [Next]_vars => [Promised!Next]_(Promised!vars)
  <2> SUFFICES ASSUME IInv, [Next]_vars PROVE [Promised!Next]_(Promised!vars)
    OBVIOUS
  <2>1. HealthInv /\ JobsInv
    BY DEF IInv
  <2>2. CASE UNCHANGED gatewayVars
    BY <2>2, GatewayUntouched
  <2>3. ASSUME NEW j \in Jobs, Begin(j) PROVE [Promised!Next]_(Promised!vars)
    BY <2>1, <2>3, BeginPlan
  <2>4. ASSUME NEW j \in Jobs, Step(j) PROVE [Promised!Next]_(Promised!vars)
    BY <2>1, <2>2, <2>4, StepShape, GoesOnPlan
  <2>5. QED
    BY <2>2, <2>3, <2>4 DEF Next, Environment, vars
<1>2. QED
  BY <1>1, InvHolds, PlanInit, PTL DEF Spec
=============================================================================
