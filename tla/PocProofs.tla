----------------------------- MODULE PocProofs -----------------------------
(***************************************************************************)
(* Proofs about PocAutopilot and the PocSandbox it shares, for any number  *)
(* of confirmations, any PoC directories, any max_iterations and any       *)
(* number of crashes, failed docker commands and slow notifications.       *)
(***************************************************************************)
EXTENDS PocAutopilot, TLAPS, FiniteSetTheorems

USE CallersAssumption, SlugOfAssumption, SandboxBoundsAssumption, RequestedAssumption

LEMMA LimitType == MaxIterations \in Nat
BY DEF MaxIterations

-----------------------------------------------------------------------------
(* Types                                                                    *)

ResultType == [ok : BOOLEAN, stage : Stages, version : Nat]
BuiltType  == [ok : BOOLEAN, stage : Stages \union {"sandbox"}, version : Nat]
ReportType == [by : Callers \union {NoCaller}, ok : BOOLEAN, built : Nat,
               measured : Nat]

(* The server serves somebody exactly while run_poc is under way.           *)
ServesInv == command = "idle" <=> serving = NoCaller

TInv == TypeOK /\ ServesInv

(* The part of TInv that the steps of the sandbox touch.                    *)
SandboxInv == SandboxTypeOK /\ ServesInv

LEMMA FaultType ==
  ASSUME SandboxTypeOK, NEW kind \in FaultKinds, Fault(kind)
  PROVE  faults' \in [FaultKinds -> Nat]
BY DEF SandboxTypeOK, Fault

LEMMA ReturningType ==
  ASSUME SandboxTypeOK, NEW ok \in BOOLEAN, NEW stage \in Stages, Returning(ok, stage)
  PROVE  result' \in ResultType
BY DEF SandboxTypeOK, Returning, ResultType

LEMMA RemoveType ==
  ASSUME SandboxTypeOK, Remove
  PROVE  container' \subseteq Slugs /\ faults' \in [FaultKinds -> Nat]
BY FaultType DEF SandboxTypeOK, Remove, FaultKinds

LEMMA ServedSlug ==
  ASSUME SandboxInv, command # "idle"
  PROVE  serving \in Callers /\ Slug \in Slugs
BY DEF SandboxInv, SandboxTypeOK, ServesInv, Slug

LEMMA RunPocType ==
  ASSUME SandboxInv, UNCHANGED code, RunPoc
  PROVE  SandboxInv'
<1> USE DEF SandboxInv, SandboxTypeOK, ServesInv, Step, Commands, Stages, ResultType
<1>1. CASE Config
  BY <1>1, ReturningType DEF Config
<1>2. CASE Check
  BY <1>2, ReturningType DEF Check
<1>3. CASE Build
  <2>1. serving \in Callers /\ code[Slug] \in Nat
    BY <1>3, ServedSlug DEF Build
  <2>2. result' \in ResultType
    BY <1>3, <2>1 DEF Build
  <2>3. executions' \in [Callers -> Nat]
    BY <1>3, <2>1 DEF Build
  <2>4. command' \in Commands /\ command' # "idle"
    BY <1>3 DEF Build
  <2>5. QED
    BY <1>3, <2>1, <2>2, <2>3, <2>4 DEF Build
<1>4. CASE Images
  BY <1>4, ReturningType DEF Images
<1>5. CASE Run
  <2>1. result' \in ResultType /\ command' \in {"down", "kill"} /\ command # "idle"
    BY <1>5, ReturningType DEF Run
  <2>2. container' \subseteq Slugs
    BY <1>5, ServedSlug DEF Run
  <2>3. QED
    BY <1>5, <2>1, <2>2 DEF Run
<1>6. CASE Kill
  BY <1>6, RemoveType DEF Kill
<1>7. CASE Down
  BY <1>7 DEF Down
<1>8. CASE Rm
  BY <1>8, RemoveType DEF Rm
<1>9. QED
  BY <1>1, <1>2, <1>3, <1>4, <1>5, <1>6, <1>7, <1>8 DEF RunPoc

LEMMA AcceptType ==
  ASSUME SandboxInv, UNCHANGED code, Accept
  PROVE  SandboxInv'
<1>1. backlog \in Seq(Callers) /\ backlog # <<>>
  BY DEF SandboxInv, SandboxTypeOK, Accept
<1>2. Head(backlog) \in Callers /\ Tail(backlog) \in Seq(Callers)
  BY <1>1
<1>3. QED
  BY <1>2 DEF SandboxInv, SandboxTypeOK, ServesInv, Accept, Step, Commands

LEMMA ReplyType ==
  ASSUME SandboxInv, UNCHANGED code, Reply
  PROVE  SandboxInv'
BY DEF SandboxInv, SandboxTypeOK, ServesInv, Reply, Step, Commands, NoResult, Stages

LEMMA ConnectType ==
  ASSUME SandboxInv, UNCHANGED code, NEW a \in Callers, Connect(a)
  PROVE  SandboxInv'
<1>1. Append(backlog, a) \in Seq(Callers)
  BY DEF SandboxInv, SandboxTypeOK
<1>2. QED
  BY <1>1 DEF SandboxInv, SandboxTypeOK, ServesInv, Connect

LEMMA SandboxCrashType ==
  ASSUME SandboxInv, UNCHANGED code, SandboxCrash
  PROVE  SandboxInv'
<1>1. faults' \in [FaultKinds -> Nat]
  BY FaultType DEF SandboxInv, SandboxCrash, FaultKinds
<1>2. container' \subseteq Slugs
  BY ServedSlug DEF SandboxInv, SandboxTypeOK, SandboxCrash
<1>3. backlog' \in Seq(Callers) /\ result' \in ResultType
  BY DEF SandboxCrash, NoResult, ResultType, Stages
<1>4. QED
  BY <1>1, <1>2, <1>3
     DEF SandboxInv, SandboxTypeOK, ServesInv, SandboxCrash, Commands, ResultType

LEMMA SandboxUnchanged ==
  ASSUME SandboxInv, UNCHANGED sandboxVars, code' \in [Slugs -> Nat],
         faults' \in [FaultKinds -> Nat]
  PROVE  SandboxInv'
BY DEF SandboxInv, SandboxTypeOK, ServesInv, sandboxVars

Phases == {"idle", "asked"} \union InGraph \union Over

(* The rest of TypeOK.                                                      *)
GraphTypes ==
  /\ pending \subseteq Callers
  /\ phase \in [Callers -> Phases]
  /\ iteration \in [Callers -> Nat]
  /\ steps \in [Callers -> Nat]
  /\ built \in [Callers -> BuiltType]
  /\ waited \in [Callers -> BOOLEAN]
  /\ measured \in [Callers -> Nat]
  /\ meddled \in [Callers -> SUBSET Callers]
  /\ report \in [Slugs -> ReportType]

LEMMA TInvParts == TInv <=> SandboxInv /\ GraphTypes
BY DEF TInv, TypeOK, SandboxInv, GraphTypes, Phases, BuiltType, ReportType

LEMMA TypeInit == Init => TInv
<1> SUFFICES ASSUME Init PROVE TInv
  OBVIOUS
<1>1. SandboxInv
  BY DEF Init, SandboxInit, SandboxInv, SandboxTypeOK, ServesInv, Commands, NoResult, Stages
<1>2. NoResult \in BuiltType /\ NoReport \in ReportType
  BY DEF NoResult, NoReport, BuiltType, ReportType, Stages
<1>3. GraphTypes
  BY <1>2 DEF Init, GraphTypes, Phases
<1>4. QED
  BY <1>1, <1>3, TInvParts

LEMMA MoveType ==
  ASSUME GraphTypes, NEW a \in Callers, NEW from, NEW to \in Phases, Move(a, from, to)
  PROVE  phase' \in [Callers -> Phases]
BY DEF GraphTypes, Move

LEMMA NodeType ==
  ASSUME GraphTypes, NEW a \in Callers, NEW from, NEW to \in Phases,
         NodeStarts(a, from, to)
  PROVE  phase' \in [Callers -> Phases] /\ steps' \in [Callers -> Nat]
<1>1. "failed" \in Phases
  BY DEF Phases, Over
<1>2. QED
  BY <1>1, MoveType DEF GraphTypes, NodeStarts

LEMMA TypeNext == TInv /\ [Next]_vars => TInv'
<1> SUFFICES ASSUME TInv, [Next]_vars PROVE SandboxInv' /\ GraphTypes'
  BY DEF TInv, TypeOK, SandboxInv, GraphTypes, Phases, BuiltType, ReportType
<1>0. SandboxInv /\ GraphTypes
  BY TInvParts
<1> USE DEF Phases, InGraph, Over
<1> DEFINE Goal == SandboxInv' /\ GraphTypes'
<1>1. ASSUME UNCHANGED sandboxVars, UNCHANGED <<code, faults>> PROVE SandboxInv'
  BY <1>0, <1>1, SandboxUnchanged DEF SandboxInv, SandboxTypeOK
<1>2. ASSUME UNCHANGED sandboxVars, UNCHANGED code, Fault("other") PROVE SandboxInv'
  BY <1>0, <1>2, FaultType, SandboxUnchanged DEF SandboxInv, SandboxTypeOK, FaultKinds
<1>3. ASSUME NEW a \in Callers, Ask(a) PROVE Goal
  <2>1. phase' \in [Callers -> Phases]
    BY <1>0, <1>3, MoveType DEF Ask
  <2>2. QED
    BY <1>0, <1>1, <1>3, <2>1 DEF Ask, GraphTypes
<1>4. ASSUME NEW a \in Callers, HandleTap(a) PROVE Goal
  <2>1. phase' \in [Callers -> Phases] /\ iteration' \in [Callers -> Nat]
          /\ steps' \in [Callers -> Nat]
    BY <1>0, <1>4 DEF HandleTap, Launch, GraphTypes
  <2>2. QED
    BY <1>0, <1>1, <1>4, <2>1 DEF HandleTap, Redeem, GraphTypes
<1>5. ASSUME NEW a \in Callers, BuildNode(a) PROVE Goal
  <2>1. phase' \in [Callers -> Phases] /\ steps' \in [Callers -> Nat]
    BY <1>0, <1>5, NodeType DEF BuildNode
  <2>2. SandboxInv'
    BY <1>0, <1>1, <1>5, ConnectType DEF BuildNode
  <2>3. waited' \in [Callers -> BOOLEAN]
    BY <1>0, <1>5 DEF BuildNode, GraphTypes
  <2>4. QED
    BY <1>0, <1>5, <2>1, <2>2, <2>3 DEF BuildNode, GraphTypes
<1>6. ASSUME NEW a \in Callers, AfterBuild(a) PROVE Goal
  <2>1. phase' \in [Callers -> Phases]
    BY <1>0, <1>6, MoveType DEF AfterBuild
  <2>2. QED
    BY <1>0, <1>1, <1>6, <2>1 DEF AfterBuild, GraphTypes
<1>7. ASSUME NEW a \in Callers, FixNode(a) PROVE Goal
  <2>1. phase' \in [Callers -> Phases] /\ steps' \in [Callers -> Nat]
    BY <1>0, <1>7, NodeType DEF FixNode
  <2>2. /\ code' \in [Slugs -> Nat] /\ iteration' \in [Callers -> Nat]
        /\ meddled' \in [Callers -> SUBSET Callers]
    <3>1. iteration' \in [Callers -> Nat]
      BY <1>0, <1>7 DEF FixNode, GraphTypes
    <3>2. CASE UNCHANGED <<code, meddled>>
      BY <1>0, <3>1, <3>2 DEF GraphTypes, SandboxInv, SandboxTypeOK
    <3>3. CASE Edit(a)
      <4>1. code' \in [Slugs -> Nat]
        BY <1>0, <3>3 DEF Edit, SandboxInv, SandboxTypeOK
      <4>2. meddled' \in [Callers -> SUBSET Callers]
        BY <1>0, <3>3 DEF Edit, GraphTypes
      <4>3. QED
        BY <3>1, <4>1, <4>2
    <3>4. QED
      BY <1>7, <3>2, <3>3 DEF FixNode
  <2>3. SandboxInv'
    BY <1>0, <1>7, <2>2, SandboxUnchanged DEF FixNode, SandboxInv, SandboxTypeOK
  <2>4. QED
    BY <1>0, <1>7, <2>1, <2>2, <2>3 DEF FixNode, GraphTypes
<1>8. ASSUME NEW a \in Callers, Measure(a) PROVE Goal
  <2>1. phase' \in [Callers -> Phases] /\ steps' \in [Callers -> Nat]
    BY <1>0, <1>8, NodeType DEF Measure
  <2>2. measured' \in [Callers -> Nat]
    BY <1>0, <1>8 DEF Measure, GraphTypes, SandboxInv, SandboxTypeOK
  <2>3. QED
    BY <1>0, <1>1, <1>8, <2>1, <2>2 DEF Measure, GraphTypes
<1>9. ASSUME NEW a \in Callers, WriteReport(a) PROVE Goal
  <2>1. phase' \in [Callers -> Phases]
    BY <1>0, <1>9, MoveType DEF WriteReport
  <2>2. [by |-> a, ok |-> built[a].ok, built |-> built[a].version,
         measured |-> measured[a]] \in ReportType
    BY <1>0 DEF GraphTypes, BuiltType, ReportType
  <2>3. report' \in [Slugs -> ReportType]
    BY <1>0, <1>9, <2>2 DEF WriteReport, GraphTypes
  <2>4. QED
    BY <1>0, <1>1, <1>9, <2>1, <2>3 DEF WriteReport, GraphTypes
<1>10. ASSUME NEW a \in Callers, CallTimesOut(a) PROVE Goal
  <2>1. phase' \in [Callers -> Phases]
    BY <1>0, <1>10, MoveType DEF CallTimesOut
  <2>2. QED
    BY <1>0, <1>1, <1>10, <2>1 DEF CallTimesOut, GraphTypes
<1>11. ASSUME NEW a \in Callers, NEW from, SlowNotify(a, from) PROVE Goal
  <2>1. phase' \in [Callers -> Phases]
    BY <1>0, <1>11, MoveType DEF SlowNotify
  <2>2. QED
    BY <1>0, <1>2, <1>11, <2>1 DEF SlowNotify, GraphTypes
<1>12. CASE Serve
  <2>1. meddled' \in [Callers -> SUBSET Callers]
    BY <1>0, <1>12 DEF Serve, GraphTypes
  <2>2. QED
    BY <1>0, <1>12, <2>1, AcceptType, RunPocType DEF Serve, GraphTypes
<1>13. CASE Answer
  <2>1. SandboxInv' /\ serving \in Callers
    BY <1>0, <1>13, ReplyType, ServedSlug DEF Answer, Reply, Step
  <2>2. result \in BuiltType
    BY <1>0 DEF SandboxInv, SandboxTypeOK, BuiltType
  <2>3. /\ phase' \in [Callers -> Phases] /\ built' \in [Callers -> BuiltType]
        /\ waited' \in [Callers -> BOOLEAN]
    BY <1>0, <1>13, <2>1, <2>2 DEF Answer, GraphTypes
  <2>4. QED
    BY <1>0, <1>13, <2>1, <2>3 DEF Answer, GraphTypes
<1>14. CASE ConnectionsBreak
  <2>1. SandboxInv'
    BY <1>0, <1>14, SandboxCrashType DEF ConnectionsBreak
  <2>2. phase' \in [Callers -> Phases] /\ built' \in [Callers -> BuiltType]
    BY <1>0, <1>14 DEF ConnectionsBreak, GraphTypes, BuiltType
  <2>3. QED
    BY <1>0, <1>14, <2>1, <2>2 DEF ConnectionsBreak, GraphTypes
<1>15. CASE WorkerCrash
  <2>1. phase' \in [Callers -> Phases]
    BY <1>0, <1>15 DEF WorkerCrash, GraphTypes
  <2>2. QED
    BY <1>0, <1>2, <1>15, <2>1 DEF WorkerCrash, GraphTypes
<1>16. CASE BotCrash
  BY <1>0, <1>2, <1>16 DEF BotCrash, GraphTypes, autopilotVars
<1>17. CASE UNCHANGED vars
  BY <1>0, <1>1, <1>17 DEF vars, GraphTypes, autopilotVars
<1>18. QED
  BY <1>3, <1>4, <1>5, <1>6, <1>7, <1>8, <1>9, <1>10, <1>11, <1>12, <1>13, <1>14,
     <1>15, <1>16, <1>17 DEF Next, Graph, Sandbox, Serve

LEMMA TypeHolds == Spec => []TInv
BY TypeInit, TypeNext, PTL DEF Spec

(* Every variable keeps its type: what the autopilot gets from the sandbox  *)
(* always names a stage, also after a broken connection.                    *)
THEOREM AutopilotTypeCorrect == Spec => []TypeOK
BY TypeHolds, PTL DEF TInv

-----------------------------------------------------------------------------
(* What the docker daemon keeps                                             *)

(* Containers that no teardown is going to remove any more.                 *)
Owed == IF serving # NoCaller /\ command # "reply" THEN container \ {Slug} ELSE container

Excuses == faults["crash"] + faults["rm"]

OwedInv == Cardinality(Owed) <= Excuses

LEMMA SlugsFinite ==
  ASSUME SandboxTypeOK
  PROVE  /\ IsFiniteSet(Owed) /\ Cardinality(Owed) \in Nat
         /\ IsFiniteSet(container)
         /\ Excuses \in Nat
<1>1. Owed \subseteq Slugs /\ container \subseteq Slugs
  BY DEF SandboxTypeOK, Owed
<1>2. Excuses \in Nat
  BY DEF SandboxTypeOK, Excuses, FaultKinds
<1>3. QED
  BY <1>1, <1>2, FS_Subset, FS_CardinalityType

(* Nothing more is owed, or one container more and one fault more.          *)
LEMMA OwedStep ==
  ASSUME SandboxTypeOK, SandboxTypeOK', OwedInv,
         \/ Owed' \subseteq Owed /\ Excuses' >= Excuses
         \/ Owed' \subseteq Owed \union {Slug} /\ Excuses' = Excuses + 1
  PROVE  OwedInv'
<1> USE DEF OwedInv
<1>1. /\ IsFiniteSet(Owed) /\ Cardinality(Owed) \in Nat /\ Excuses \in Nat
      /\ IsFiniteSet(Owed') /\ Cardinality(Owed') \in Nat /\ Excuses' \in Nat
  <2>1. IsFiniteSet(Owed') /\ Cardinality(Owed') \in Nat /\ Excuses' \in Nat
    <3>1. Owed' \subseteq Slugs /\ Excuses' \in Nat
      BY DEF SandboxTypeOK, Owed, Excuses, FaultKinds
    <3>2. QED
      BY <3>1, FS_Subset, FS_CardinalityType
  <2>2. QED
    BY <2>1, SlugsFinite
<1>2. CASE Owed' \subseteq Owed /\ Excuses' >= Excuses
  <2>1. Cardinality(Owed') <= Cardinality(Owed)
    BY <1>1, <1>2, FS_Subset
  <2>2. QED
    BY <1>1, <1>2, <2>1
<1>3. CASE Owed' \subseteq Owed \union {Slug} /\ Excuses' = Excuses + 1
  <2>1. /\ IsFiniteSet(Owed \union {Slug})
        /\ Cardinality(Owed \union {Slug}) <= Cardinality(Owed) + 1
        /\ Cardinality(Owed \union {Slug}) \in Nat
    <3>1. /\ IsFiniteSet(Owed \union {Slug})
          /\ Cardinality(Owed \union {Slug}) =
               IF Slug \in Owed THEN Cardinality(Owed) ELSE Cardinality(Owed) + 1
      BY <1>1, FS_AddElement
    <3>2. QED
      BY <1>1, <3>1
  <2>2. Cardinality(Owed') <= Cardinality(Owed \union {Slug})
    BY <1>3, <2>1, FS_Subset
  <2>3. QED
    BY <1>1, <1>3, <2>1, <2>2
<1>4. QED
  BY <1>2, <1>3

LEMMA RmFault ==
  ASSUME SandboxTypeOK, NEW kind \in {"rm", "crash"}, Fault(kind)
  PROVE  Excuses' = Excuses + 1
BY DEF SandboxTypeOK, Fault, Excuses, FaultKinds

(* A step of run_poc but for the last one leaves nothing to be owed.        *)
LEMMA OwedRunPoc ==
  ASSUME SandboxInv, SandboxInv', OwedInv, RunPoc
  PROVE  OwedInv'
<1> USE DEF Step
<1>1. SandboxTypeOK /\ SandboxTypeOK'
  BY DEF SandboxInv
<1>2. command # "idle" /\ serving # NoCaller /\ UNCHANGED serving /\ command # "reply"
        /\ Slug' = Slug
  BY DEF RunPoc, Config, Check, Build, Images, Run, Kill, Down, Rm, SandboxInv,
         ServesInv, Slug
<1>3. Owed = container \ {Slug}
  BY <1>2 DEF Owed
<1>4. CASE Rm
  <2>1. CASE container' = container \ {Slug} /\ UNCHANGED faults
    <3>1. Owed' \subseteq Owed /\ Excuses' = Excuses
      BY <1>2, <1>3, <2>1 DEF Owed, Excuses
    <3>2. QED
      BY <1>1, <3>1, OwedStep, SlugsFinite
  <2>2. CASE Fault("rm") /\ UNCHANGED container
    <3>1. Owed' \subseteq Owed \union {Slug}
      BY <1>2, <1>3, <2>2 DEF Owed
    <3>2. QED
      BY <1>1, <2>2, <3>1, OwedStep, RmFault
  <2>3. QED
    BY <1>4, <2>1, <2>2 DEF Rm, Remove
<1>5. CASE ~Rm
  <2>1. command' # "reply" /\ serving' # NoCaller
    BY <1>2, <1>5 DEF RunPoc, Config, Check, Build, Images, Run, Kill, Down
  <2>2. container' \subseteq container \union {Slug}
    BY <1>5 DEF RunPoc, Config, Check, Build, Images, Run, Kill, Down, Remove
  <2>3. Owed' \subseteq Owed
    BY <1>2, <1>3, <2>1, <2>2 DEF Owed
  <2>4. Excuses' = Excuses \/ Excuses' = Excuses + 1
    BY <1>1, <1>5, RmFault
       DEF RunPoc, Config, Check, Build, Images, Run, Kill, Down, Remove, Excuses
  <2>5. QED
    BY <1>1, <2>3, <2>4, OwedStep, SlugsFinite
<1>6. QED
  BY <1>4, <1>5

LEMMA OwedNext == TInv /\ TInv' /\ OwedInv /\ [Next]_vars => OwedInv'
<1> SUFFICES ASSUME TInv, TInv', OwedInv, [Next]_vars PROVE OwedInv'
  OBVIOUS
<1>1. SandboxInv /\ SandboxInv' /\ SandboxTypeOK /\ SandboxTypeOK'
  BY DEF TInv, TypeOK, SandboxInv
<1> USE DEF Step
<1>2. CASE RunPoc
  BY <1>1, <1>2, OwedRunPoc
<1>3. CASE Accept
  <2>1. serving = NoCaller
    BY <1>1, <1>3 DEF Accept, SandboxInv, ServesInv
  <2>2. Owed' \subseteq Owed /\ Excuses' = Excuses
    BY <1>3, <2>1 DEF Accept, Owed, Excuses
  <2>3. QED
    BY <1>1, <2>2, OwedStep, SlugsFinite
<1>4. CASE Reply
  <2>1. Owed' \subseteq Owed /\ Excuses' = Excuses
    BY <1>4 DEF Reply, Owed, Excuses
  <2>2. QED
    BY <1>1, <2>1, OwedStep, SlugsFinite
<1>5. CASE SandboxCrash
  <2>1. Owed' \subseteq Owed \union {Slug}
    BY <1>5 DEF SandboxCrash, Owed
  <2>2. Excuses' = Excuses + 1
    BY <1>1, <1>5, RmFault DEF SandboxCrash
  <2>3. QED
    BY <1>1, <2>1, <2>2, OwedStep
<1>6. CASE UNCHANGED <<serving, command, container>> /\ (UNCHANGED faults \/ Fault("other"))
  <2>1. Owed' = Owed
    BY <1>6 DEF Owed, Slug
  <2>2. Excuses' = Excuses
    BY <1>1, <1>6 DEF Excuses, Fault, SandboxTypeOK, FaultKinds
  <2>3. QED
    BY <1>1, <2>1, <2>2, OwedStep, SlugsFinite
<1>7. ASSUME NEW a \in Callers, Graph(a) PROVE OwedInv'
  BY <1>6, <1>7
     DEF Graph, BuildNode, Connect, AfterBuild, FixNode, Measure, WriteReport, sandboxVars
<1>8. ASSUME NEW a \in Callers,
             \/ Ask(a) \/ HandleTap(a) \/ CallTimesOut(a)
             \/ \E from \in {"build", "built", "fix", "evaluate"} : SlowNotify(a, from)
      PROVE  OwedInv'
  BY <1>6, <1>8 DEF Ask, HandleTap, CallTimesOut, SlowNotify, sandboxVars
<1>9. CASE WorkerCrash \/ BotCrash \/ UNCHANGED vars
  BY <1>6, <1>9 DEF WorkerCrash, BotCrash, vars, sandboxVars
<1>10. QED
  BY <1>2, <1>3, <1>4, <1>5, <1>7, <1>8, <1>9
     DEF Next, Sandbox, Serve, Answer, ConnectionsBreak

LEMMA OwedInit == Init => OwedInv
<1> SUFFICES ASSUME Init PROVE OwedInv
  OBVIOUS
<1>1. Owed = {} /\ Excuses = 0
  BY DEF Init, SandboxInit, Owed, Excuses, FaultKinds
<1>2. QED
  BY <1>1, FS_EmptySet DEF OwedInv

(* For any number of requests and directories: a run container outlives its *)
(* request only by a crash of the sidecar or a failed docker rm, one each.  *)
THEOREM LeftoversBounded == Spec => []LeftoversCounted
<1>1. TInv /\ OwedInv => LeftoversCounted
  <2> SUFFICES ASSUME TInv, OwedInv PROVE LeftoversCounted
    OBVIOUS
  <2> DEFINE Leftovers == {s \in container : serving = NoCaller \/ Slug # s}
  <2>1. Leftovers \subseteq Owed
    BY DEF Owed
  <2>2. /\ IsFiniteSet(Owed) /\ Cardinality(Owed) \in Nat /\ Excuses \in Nat
    BY SlugsFinite DEF TInv, TypeOK
  <2>3. Cardinality(Leftovers) <= Cardinality(Owed) /\ Cardinality(Leftovers) \in Nat
    BY <2>1, <2>2, FS_Subset, FS_CardinalityType
  <2>4. QED
    BY <2>2, <2>3 DEF OwedInv, LeftoversCounted, Excuses
<1>2. QED
  BY <1>1, OwedInit, OwedNext, TypeHolds, PTL DEF Spec

-----------------------------------------------------------------------------
(* Who waits for the sandbox                                                *)

InLine(a) == \E i \in 1 .. Len(backlog) : backlog[i] = a

Outstanding(a) == InLine(a) \/ serving = a

(* The request of a is still going to build.                                *)
Due(a) == InLine(a) \/ (serving = a /\ command \in {"config", "check", "build"})

(* Nobody has two requests at the sandbox.                                  *)
LineInv ==
  /\ \A i, j \in 1 .. Len(backlog) : backlog[i] = backlog[j] => i = j
  /\ \A a \in Callers : InLine(a) => serving # a

LEMMA LineConnect ==
  ASSUME TInv, LineInv, NEW a \in Callers, ~Outstanding(a), Connect(a)
  PROVE  /\ LineInv'
         /\ \A b \in Callers : b # a => (InLine(b)' => InLine(b))
<1>1. backlog \in Seq(Callers) /\ backlog' = Append(backlog, a)
  BY DEF TInv, TypeOK, SandboxTypeOK, Connect
<1>2. /\ Len(backlog') = Len(backlog) + 1 /\ Len(backlog) \in Nat
      /\ \A i \in 1 .. Len(backlog) : backlog'[i] = backlog[i]
      /\ backlog'[Len(backlog) + 1] = a
  BY <1>1
<1>3. \A i \in 1 .. Len(backlog') : i = Len(backlog) + 1 \/ i \in 1 .. Len(backlog)
  BY <1>2
<1>4. \A b \in Callers : b # a => (InLine(b)' => InLine(b))
  BY <1>2, <1>3 DEF InLine
<1>5. \A i, j \in 1 .. Len(backlog') : backlog'[i] = backlog'[j] => i = j
  BY <1>2, <1>3 DEF LineInv, Outstanding, InLine
<1>6. QED
  BY <1>4, <1>5 DEF LineInv, Outstanding, Connect

LEMMA LineAccept ==
  ASSUME TInv, LineInv, Accept
  PROVE  /\ LineInv'
         /\ \E a \in Callers : serving' = a /\ InLine(a)
         /\ \A b \in Callers : InLine(b)' => InLine(b)
<1>1. backlog \in Seq(Callers) /\ backlog # <<>> /\ backlog' = Tail(backlog)
        /\ serving' = Head(backlog)
  BY DEF TInv, TypeOK, SandboxTypeOK, Accept
<1>2. /\ Len(backlog) \in Nat \ {0} /\ Len(backlog') = Len(backlog) - 1
      /\ serving' = backlog[1] /\ serving' \in Callers
  BY <1>1
<1>3. \A i \in 1 .. Len(backlog') :
        backlog'[i] = backlog[i + 1] /\ i + 1 \in 1 .. Len(backlog) /\ i + 1 # 1
  BY <1>1, <1>2
<1>4. 1 \in 1 .. Len(backlog)
  BY <1>2
<1>5. \A b \in Callers : InLine(b)' => InLine(b)
  BY <1>3 DEF InLine
<1>6. PICK a \in Callers : serving' = a /\ a = backlog[1]
  BY <1>2
<1>7. InLine(a) /\ ~InLine(a)'
  BY <1>3, <1>4, <1>6 DEF InLine, LineInv
<1>8. \A i, j \in 1 .. Len(backlog') : backlog'[i] = backlog'[j] => i = j
  <2> SUFFICES ASSUME NEW i \in 1 .. Len(backlog'), NEW j \in 1 .. Len(backlog'),
                      backlog'[i] = backlog'[j]
               PROVE  i = j
    OBVIOUS
  <2>1. i + 1 = j + 1
    BY <1>3 DEF LineInv
  <2>2. QED
    BY <2>1
<1>9. LineInv'
  BY <1>6, <1>7, <1>8 DEF LineInv
<1>10. QED
  BY <1>5, <1>6, <1>7, <1>9

-----------------------------------------------------------------------------
(* Executions and steps of a confirmation                                   *)

(* Every place of the graph knows how often the sources were built, how     *)
(* often they may still be, and how many nodes were run.                    *)
CallInv(a) ==
  /\ iteration[a] <= MaxIterations
  /\ Outstanding(a) => phase[a] \in {"calling", "failed", "lost"}
  /\ a \in pending => phase[a] = "asked"
  /\ phase[a] \in {"idle", "asked"} =>
       executions[a] = 0 /\ iteration[a] = 0 /\ steps[a] = 0
  /\ phase[a] = "build" => executions[a] <= iteration[a] /\ steps[a] <= 2 * iteration[a]
  /\ phase[a] \in {"calling", "built", "fix", "evaluate"} => steps[a] <= 2 * iteration[a] + 1
  /\ phase[a] = "fix" => iteration[a] < MaxIterations
  /\ steps[a] <= 2 * iteration[a] + 2
  /\ executions[a] <= iteration[a] + 1
  /\ Due(a) => executions[a] <= iteration[a]

CallsInv == LineInv /\ \A a \in Callers : CallInv(a)

(* A confirmation whose part of the state does not change, or only loses    *)
(* its request or its token.                                                *)
Rests(b) ==
  /\ phase'[b] = phase[b] /\ iteration'[b] = iteration[b] /\ steps'[b] = steps[b]
  /\ executions'[b] = executions[b]
  /\ Outstanding(b)' => Outstanding(b)
  /\ Due(b)' => Due(b)
  /\ b \in pending' => b \in pending

LEMMA RestsKeeps ==
  ASSUME NEW b \in Callers, CallInv(b), Rests(b)
  PROVE  CallInv(b)'
BY DEF CallInv, Rests

LEMMA DueOutstanding == \A a : Due(a) => Outstanding(a)
BY DEF Due, Outstanding

LEMMA CallsInit == Init => CallsInv
<1> SUFFICES ASSUME Init PROVE CallsInv
  OBVIOUS
<1>1. \A a \in Callers : ~Outstanding(a)
  BY DEF Init, SandboxInit, Outstanding, InLine
<1>2. LineInv
  BY <1>1 DEF Init, SandboxInit, LineInv, Outstanding
<1>3. \A a \in Callers : CallInv(a)
  BY <1>1, DueOutstanding, LimitType DEF Init, SandboxInit, CallInv
<1>4. QED
  BY <1>2, <1>3 DEF CallsInv

(* The sandbox stands still: who is outstanding and due stays so.           *)
LEMMA StandsStill ==
  ASSUME UNCHANGED sandboxVars
  PROVE  /\ LineInv => LineInv'
         /\ \A b : (Outstanding(b)' <=> Outstanding(b)) /\ (Due(b)' <=> Due(b))
BY DEF sandboxVars, LineInv, Outstanding, Due, InLine

LEMMA CallsSandbox ==
  ASSUME TInv, CallsInv, Serve
  PROVE  CallsInv'
<1> USE DEF CallsInv, Step
<1>1. UNCHANGED <<phase, iteration, steps, pending>>
  BY DEF Serve
<1>2. CASE Accept
  <2>1. /\ LineInv' /\ \E a \in Callers : serving' = a /\ InLine(a)
        /\ \A b \in Callers : InLine(b)' => InLine(b)
    BY <1>2, LineAccept
  <2>2. \A b \in Callers : Rests(b)
    BY <1>1, <1>2, <2>1 DEF Rests, Outstanding, Due, Accept
  <2>3. QED
    BY <2>1, <2>2, RestsKeeps
<1>3. CASE RunPoc /\ ~Build
  <2>1. UNCHANGED <<backlog, serving, executions>>
          /\ (command' \in {"config", "check", "build"} =>
                command \in {"config", "check", "build"})
    BY <1>3 DEF RunPoc, Config, Check, Images, Run, Kill, Down, Rm
  <2>2. LineInv' /\ \A b \in Callers : Rests(b)
    BY <1>1, <2>1 DEF Rests, Outstanding, Due, InLine, LineInv
  <2>3. QED
    BY <2>2, RestsKeeps
<1>4. CASE Build
  <2>1. serving \in Callers /\ ~InLine(serving)
    BY <1>4 DEF Build, TInv, TypeOK, SandboxTypeOK, ServesInv, LineInv
  <2>2. /\ UNCHANGED <<backlog, serving>> /\ command = "build"
        /\ command' \notin {"config", "check", "build"}
        /\ executions' = [executions EXCEPT ![serving] = @ + 1]
    BY <1>4 DEF Build
  <2>3. LineInv' /\ \A b \in Callers : Outstanding(b)' <=> Outstanding(b)
    BY <2>2 DEF LineInv, Outstanding, InLine
  <2>4. executions \in [Callers -> Nat] /\ iteration \in [Callers -> Nat]
    BY DEF TInv, TypeOK, SandboxTypeOK
  <2>5. \A b \in Callers : b # serving => Rests(b)
    BY <1>1, <2>2, <2>3, <2>4 DEF Rests, Due, InLine
  <2>6. ASSUME NEW a \in Callers, a = serving PROVE CallInv(a)'
    <3>1. Due(a) /\ ~Due(a)'
      BY <2>1, <2>2, <2>6 DEF Due, InLine
    <3>2. CallInv(a) /\ phase[a] \in {"calling", "failed", "lost"}
      BY <2>6 DEF CallInv, Outstanding
    <3>3. executions'[a] = executions[a] + 1 /\ executions[a] <= iteration[a]
      BY <2>2, <2>4, <2>6, <3>1, <3>2 DEF CallInv
    <3>4. executions'[a] <= iteration'[a] + 1
      BY <1>1, <2>4, <3>3
    <3>5. /\ phase'[a] = phase[a] /\ iteration'[a] = iteration[a]
          /\ steps'[a] = steps[a] /\ pending' = pending
      BY <1>1
    <3>6. QED
      BY <2>3, <3>1, <3>2, <3>4, <3>5 DEF CallInv
  <2>7. QED
    BY <2>3, <2>5, <2>6, RestsKeeps
<1>5. QED
  BY <1>2, <1>3, <1>4 DEF Serve

LEMMA CallsAnswer ==
  ASSUME TInv, CallsInv, Answer
  PROVE  CallsInv'
<1> USE DEF CallsInv, Step
<1>1. PICK a \in Callers : a = serving
  BY ServedSlug DEF Answer, Reply, TInv, TypeOK, SandboxInv
<1>2. LineInv' /\ \A b \in Callers : (InLine(b)' <=> InLine(b)) /\ serving' # b
  BY DEF Answer, Reply, LineInv, InLine
<1>3. ~InLine(a)
  BY <1>1 DEF LineInv
<1>4. ASSUME NEW b \in Callers, b # a PROVE CallInv(b)'
  <2>1. Rests(b)
    BY <1>1, <1>2, <1>4 DEF Answer, Reply, Rests, Outstanding, Due, TInv, TypeOK
  <2>2. QED
    BY <2>1, RestsKeeps
<1>5. CallInv(a)'
  <2>1. ~Outstanding(a)' /\ ~Due(a)'
    BY <1>2, <1>3 DEF Outstanding, Due
  <2>2. phase'[a] = IF phase[a] = "calling" THEN "built" ELSE phase[a]
    BY <1>1 DEF Answer, TInv, TypeOK
  <2>3. UNCHANGED <<iteration, steps, executions, pending>>
    BY DEF Answer, Reply
  <2>4. CallInv(a) /\ (a \in pending => phase[a] # "calling")
    BY DEF CallInv
  <2>5. QED
    BY <2>1, <2>2, <2>3, <2>4 DEF CallInv
<1>6. QED
  BY <1>2, <1>4, <1>5

LEMMA CallsBreak ==
  ASSUME TInv, CallsInv, ConnectionsBreak
  PROVE  CallsInv'
<1> USE DEF CallsInv
<1>1. \A b \in Callers : ~Outstanding(b)'
  BY DEF ConnectionsBreak, SandboxCrash, Outstanding, InLine
<1>2. LineInv'
  BY <1>1 DEF ConnectionsBreak, SandboxCrash, LineInv, Outstanding
<1>3. ASSUME NEW b \in Callers PROVE CallInv(b)'
  <2>1. ~Outstanding(b)' /\ ~Due(b)'
    BY <1>1 DEF Outstanding, Due
  <2>2. phase'[b] = IF phase[b] = "calling" THEN "built" ELSE phase[b]
    BY DEF ConnectionsBreak
  <2>3. UNCHANGED <<iteration, steps, executions, pending>>
    BY DEF ConnectionsBreak, SandboxCrash
  <2>4. CallInv(b)
    OBVIOUS
  <2>5. QED
    BY <2>1, <2>2, <2>3, <2>4 DEF CallInv
<1>4. QED
  BY <1>2, <1>3

LEMMA CallsWorkerCrash ==
  ASSUME TInv, CallsInv, WorkerCrash
  PROVE  CallsInv'
<1> USE DEF CallsInv
<1>1. LineInv' /\ \A b : (Outstanding(b)' <=> Outstanding(b)) /\ (Due(b)' <=> Due(b))
  BY StandsStill DEF WorkerCrash
<1>2. ASSUME NEW b \in Callers PROVE CallInv(b)'
  <2>1. phase'[b] = IF phase[b] \in InGraph THEN "lost" ELSE phase[b]
    BY DEF WorkerCrash
  <2>2. UNCHANGED <<iteration, steps, executions, pending>>
    BY DEF WorkerCrash, sandboxVars
  <2>3. CallInv(b)
    OBVIOUS
  <2>4. QED
    BY <1>1, <2>1, <2>2, <2>3 DEF CallInv, InGraph
<1>3. QED
  BY <1>1, <1>2

(* A step of the graph or of the chat, for one confirmation.                *)
LEMMA CallsActs ==
  ASSUME TInv, CallsInv, NEW a \in Callers,
         UNCHANGED sandboxVars, CallInv(a)',
         \A b \in Callers \ {a} :
           /\ phase'[b] = phase[b] /\ iteration'[b] = iteration[b]
           /\ steps'[b] = steps[b] /\ (b \in pending' => b \in pending)
  PROVE  CallsInv'
<1> USE DEF CallsInv
<1>1. LineInv' /\ \A b : (Outstanding(b)' <=> Outstanding(b)) /\ (Due(b)' <=> Due(b))
  BY StandsStill
<1>2. \A b \in Callers \ {a} : Rests(b)
  BY <1>1 DEF Rests, sandboxVars
<1>3. QED
  BY <1>1, <1>2, RestsKeeps

LEMMA CallsGraph ==
  ASSUME TInv, CallsInv, NEW a \in Callers, Graph(a)
  PROVE  CallsInv'
<1> USE LimitType
<1>1. CallInv(a) /\ LineInv
  BY DEF CallsInv
<1>2. /\ phase \in [Callers -> Phases] /\ iteration \in [Callers -> Nat]
      /\ steps \in [Callers -> Nat] /\ executions \in [Callers -> Nat]
  BY DEF TInv, TypeOK, SandboxTypeOK, Phases
<1>3. phase[a] \in {"build", "built", "fix", "evaluate", "report"} =>
        ~Outstanding(a) /\ ~Due(a) /\ steps[a] < RecursionLimit /\ a \notin pending
  <2>1. steps[a] \in Nat /\ iteration[a] \in Nat
    BY <1>2
  <2>2. steps[a] <= 2 * iteration[a] + 2 /\ iteration[a] <= MaxIterations
    BY <1>1 DEF CallInv
  <2>3. steps[a] < RecursionLimit
    BY <2>1, <2>2 DEF RecursionLimit
  <2>4. QED
    BY <1>1, <2>3, DueOutstanding DEF CallInv
<1>4. UNCHANGED sandboxVars => ((Outstanding(a)' <=> Outstanding(a)) /\ (Due(a)' <=> Due(a)))
  BY StandsStill
<1>5. CASE BuildNode(a)
  <2>1. /\ phase[a] = "build" /\ phase' = [phase EXCEPT ![a] = "calling"]
        /\ steps' = [steps EXCEPT ![a] = @ + 1] /\ UNCHANGED <<iteration, pending>>
    BY <1>3, <1>5 DEF BuildNode, NodeStarts, Move
  <2>2. Connect(a)
    BY <1>2, <1>5, <2>1 DEF BuildNode
  <2>3. ~Outstanding(a)
    BY <1>3, <2>1
  <2>4. LineInv' /\ \A b \in Callers : b # a => (InLine(b)' => InLine(b))
    BY <1>1, <2>2, <2>3, LineConnect
  <2>5. UNCHANGED <<serving, command, executions>>
    BY <2>2 DEF Connect
  <2>6. ASSUME NEW b \in Callers, b # a PROVE CallInv(b)'
    <3>1. Rests(b)
      BY <1>2, <2>1, <2>4, <2>5, <2>6 DEF Rests, Outstanding, Due
    <3>2. QED
      BY <3>1, RestsKeeps DEF CallsInv
  <2>7. CallInv(a)'
    BY <1>1, <1>2, <1>3, <2>1, <2>5 DEF CallInv
  <2>8. QED
    BY <2>4, <2>6, <2>7 DEF CallsInv
<1>6. CASE AfterBuild(a)
  <2>1. /\ phase[a] = "built"
        /\ phase' = [phase EXCEPT ![a] = IF Fixable(a) THEN "fix" ELSE "evaluate"]
        /\ UNCHANGED <<sandboxVars, pending, iteration, steps>>
    BY <1>6 DEF AfterBuild, Move
  <2>2. CallInv(a)'
    BY <1>1, <1>2, <1>3, <1>4, <2>1 DEF CallInv, Fixable, sandboxVars
  <2>3. QED
    BY <1>2, <2>1, <2>2, CallsActs
<1>7. CASE FixNode(a)
  <2>1. /\ phase[a] = "fix" /\ phase' = [phase EXCEPT ![a] = "build"]
        /\ steps' = [steps EXCEPT ![a] = @ + 1]
        /\ iteration' = [iteration EXCEPT ![a] = @ + 1]
        /\ UNCHANGED <<sandboxVars, pending>>
    BY <1>3, <1>7 DEF FixNode, NodeStarts, Move
  <2>2. CallInv(a)'
    BY <1>1, <1>2, <1>3, <1>4, <2>1 DEF CallInv, sandboxVars
  <2>3. QED
    BY <1>2, <2>1, <2>2, CallsActs
<1>8. CASE Measure(a)
  <2>1. /\ phase[a] = "evaluate" /\ phase' = [phase EXCEPT ![a] = "report"]
        /\ steps' = [steps EXCEPT ![a] = @ + 1]
        /\ UNCHANGED <<sandboxVars, pending, iteration>>
    BY <1>3, <1>8 DEF Measure, NodeStarts, Move
  <2>2. CallInv(a)'
    BY <1>1, <1>2, <1>3, <1>4, <2>1 DEF CallInv, sandboxVars
  <2>3. QED
    BY <1>2, <2>1, <2>2, CallsActs
<1>9. CASE WriteReport(a)
  <2>1. PICK to \in {"ended", "failed"} :
          /\ phase[a] = "report" /\ phase' = [phase EXCEPT ![a] = to]
          /\ UNCHANGED <<sandboxVars, pending, iteration, steps>>
    BY <1>9 DEF WriteReport, Move
  <2>2. CallInv(a)'
    BY <1>1, <1>2, <1>3, <1>4, <2>1 DEF CallInv, sandboxVars
  <2>3. QED
    BY <1>2, <2>1, <2>2, CallsActs
<1>10. QED
  BY <1>5, <1>6, <1>7, <1>8, <1>9 DEF Graph

LEMMA CallsChat ==
  ASSUME TInv, CallsInv, NEW a \in Callers,
         \/ Ask(a) \/ HandleTap(a) \/ CallTimesOut(a)
         \/ \E from \in {"build", "built", "fix", "evaluate"} : SlowNotify(a, from)
  PROVE  CallsInv'
<1> USE LimitType
<1>1. CallInv(a)
  BY DEF CallsInv
<1>2. /\ phase \in [Callers -> Phases] /\ iteration \in [Callers -> Nat]
      /\ steps \in [Callers -> Nat] /\ executions \in [Callers -> Nat]
  BY DEF TInv, TypeOK, SandboxTypeOK, Phases
<1>3. UNCHANGED sandboxVars /\ (Outstanding(a)' <=> Outstanding(a)) /\ (Due(a)' <=> Due(a))
  BY StandsStill DEF Ask, HandleTap, CallTimesOut, SlowNotify
<1>4. UNCHANGED executions
  BY <1>3 DEF sandboxVars
<1>5. CASE Ask(a)
  <2>1. CallInv(a)'
    BY <1>1, <1>2, <1>3, <1>4, <1>5 DEF Ask, Move, CallInv
  <2>2. QED
    BY <1>2, <1>3, <1>5, <2>1, CallsActs DEF Ask, Move
<1>6. CASE HandleTap(a)
  <2>1. /\ a \in pending /\ pending' = pending \ {a} /\ phase[a] = "asked"
        /\ executions[a] = 0 /\ iteration[a] = 0 /\ steps[a] = 0 /\ ~Outstanding(a)
    BY <1>1, <1>6 DEF HandleTap, Redeem, CallInv
  <2>2. PICK to \in {"cancelled", "build", "refused"} : phase' = [phase EXCEPT ![a] = to]
    BY <1>6 DEF HandleTap, Launch
  <2>3. /\ iteration' \in {iteration, [iteration EXCEPT ![a] = 0]}
        /\ steps' \in {steps, [steps EXCEPT ![a] = 0]}
    BY <1>6 DEF HandleTap, Launch
  <2>4. phase'[a] = to /\ iteration'[a] = 0 /\ steps'[a] = 0
    BY <1>2, <2>1, <2>2, <2>3
  <2>5. ~Outstanding(a)' /\ ~Due(a)' /\ executions'[a] = 0 /\ a \notin pending'
    BY <1>3, <1>4, <2>1, DueOutstanding
  <2>6. CallInv(a)'
    BY <2>4, <2>5 DEF CallInv
  <2>7. QED
    BY <1>2, <1>3, <2>1, <2>2, <2>3, <2>6, CallsActs
<1>7. CASE CallTimesOut(a) \/ \E from \in {"build", "built", "fix", "evaluate"} : SlowNotify(a, from)
  <2>1. /\ phase[a] \in {"build", "calling", "built", "fix", "evaluate"}
        /\ phase' = [phase EXCEPT ![a] = "failed"]
        /\ UNCHANGED <<pending, iteration, steps>>
    BY <1>7 DEF CallTimesOut, SlowNotify, Move
  <2>2. CallInv(a)'
    BY <1>1, <1>2, <1>3, <1>4, <2>1 DEF CallInv
  <2>3. QED
    BY <1>2, <1>3, <2>1, <2>2, CallsActs
<1>8. QED
  BY <1>5, <1>6, <1>7

LEMMA CallsNext == TInv /\ CallsInv /\ [Next]_vars => CallsInv'
<1> SUFFICES ASSUME TInv, CallsInv, [Next]_vars PROVE CallsInv'
  OBVIOUS
<1>1. CASE Serve
  BY <1>1, CallsSandbox
<1>2. CASE BotCrash \/ UNCHANGED vars
  <2>1. UNCHANGED sandboxVars /\ UNCHANGED autopilotVars /\ pending' \subseteq pending
    BY <1>2 DEF BotCrash, vars
  <2>2. /\ LineInv'
        /\ \A b : (Outstanding(b)' <=> Outstanding(b)) /\ (Due(b)' <=> Due(b))
    BY <2>1, StandsStill DEF CallsInv
  <2>3. \A b \in Callers : Rests(b)
    BY <2>1, <2>2 DEF Rests, sandboxVars, autopilotVars
  <2>4. QED
    BY <2>2, <2>3, RestsKeeps DEF CallsInv
<1>3. QED
  BY <1>1, <1>2, CallsAnswer, CallsBreak, CallsWorkerCrash, CallsGraph, CallsChat
     DEF Next, Sandbox

LEMMA CallsHold == Spec => []CallsInv
BY CallsInit, CallsNext, TypeHolds, PTL DEF Spec

(* However often a confirmation is tapped, and whatever times out, crashes  *)
(* or waits in the backlog: it runs at most max_iterations + 1 builds.      *)
THEOREM ExecutionsLimited == Spec => []ExecutionsBounded
<1>1. TInv /\ CallsInv => ExecutionsBounded
  BY LimitType DEF TInv, TypeOK, SandboxTypeOK, CallsInv, CallInv, ExecutionsBounded
<1>2. QED
  BY <1>1, TypeHolds, CallsHold, PTL

(* The recursion limit never ends a run, for any max_iterations.            *)
THEOREM RecursionLimitSuffices == Spec => []WithinRecursionLimit
<1>1. TInv /\ CallsInv => WithinRecursionLimit
  BY LimitType
     DEF TInv, TypeOK, CallsInv, CallInv, WithinRecursionLimit, RecursionLimit
<1>2. QED
  BY <1>1, TypeHolds, CallsHold, PTL

-----------------------------------------------------------------------------
(* Versions of the sources                                                  *)

Executed == {"build", "run"}

(* What is known of the sources at each place of the graph of a, as long as *)
(* no other confirmation has edited them since a's build.                   *)
VersionInv(a) ==
  meddled[a] = {} =>
    /\ serving = a /\ phase[a] = "calling" /\ result.stage \in Executed
         => result.version = code[SlugOf[a]]
    /\ phase[a] \in {"built", "evaluate", "report"} /\ built[a].stage \in Executed
         => built[a].version = code[SlugOf[a]]
    /\ phase[a] = "report" => measured[a] = code[SlugOf[a]]

ServedInv ==
  /\ command \in {"idle", "config"} => result.stage \notin Executed
  /\ command \in {"images", "run"} => result.stage = "build"

ReportInv(s) ==
  LET a == report[s].by
  IN  a # NoCaller =>
        /\ phase[a] = "ended"
        /\ built[a].stage \in Executed /\ meddled[a] = {}
             => report[s].built = report[s].measured

VersionsInv ==
  /\ ServedInv
  /\ \A a \in Callers : VersionInv(a)
  /\ \A s \in Slugs : ReportInv(s)

LEMMA VersionsInit == Init => VersionsInv
BY DEF Init, SandboxInit, VersionsInv, ServedInv, VersionInv, ReportInv, Executed,
       NoResult, NoReport

(* Steps that leave the sandbox, the sources and the results alone, and     *)
(* move at most one confirmation to a place nothing is known of.            *)
LEMMA VersionsMove ==
  ASSUME TInv, VersionsInv, UNCHANGED <<sandboxVars, code, built, measured, meddled, report>>,
         \A b \in Callers :
           \/ phase'[b] = phase[b]
           \/ /\ phase[b] # "ended"
              /\ phase'[b] \notin {"calling", "built", "evaluate", "report", "ended"}
           \/ phase[b] = "built" /\ phase'[b] = "evaluate"
  PROVE  VersionsInv'
<1>1. ServedInv' /\ \A a \in Callers : VersionInv(a)'
  BY DEF VersionsInv, ServedInv, VersionInv, sandboxVars
<1>2. \A s \in Slugs : report[s].by # NoCaller => report[s].by \in Callers
  BY DEF TInv, TypeOK
<1>3. \A s \in Slugs : ReportInv(s)'
  BY <1>2 DEF VersionsInv, ReportInv
<1>4. QED
  BY <1>1, <1>3 DEF VersionsInv

LEMMA VersionsSandbox ==
  ASSUME TInv, TInv', CallsInv, VersionsInv, Serve
  PROVE  VersionsInv'
<1> USE DEF Step, Executed
<1>1. UNCHANGED <<code, phase, built, measured, report>>
  BY DEF Serve
<1>1a. /\ meddled \in [Callers -> SUBSET Callers]
       /\ meddled' = IF command = "build" THEN [meddled EXCEPT ![serving] = {}] ELSE meddled
  BY DEF Serve, TInv, TypeOK
<1>1b. \A s \in Slugs : report[s].by # NoCaller => report[s].by \in Callers
  BY DEF TInv, TypeOK
<1>2. \A s \in Slugs : ReportInv(s)'
  <2>1. \A a \in Callers : phase[a] = "ended" => a # serving
    BY DEF CallsInv, CallInv, Outstanding
  <2>2. \A a \in Callers : a # serving => meddled'[a] = meddled[a]
    BY <1>1a
  <2>3. QED
    BY <1>1, <1>1b, <2>1, <2>2 DEF VersionsInv, ReportInv
<1>3. CASE Accept
  <2>1. result.stage \notin Executed /\ result' = result /\ meddled' = meddled
    BY <1>1a, <1>3 DEF Accept, VersionsInv, ServedInv
  <2>2. ServedInv' /\ \A a \in Callers : VersionInv(a)'
    BY <1>1, <1>3, <2>1 DEF Accept, VersionsInv, ServedInv, VersionInv
  <2>3. QED
    BY <1>2, <2>2 DEF VersionsInv
<1>4. CASE Build
  <2>1. /\ result'.stage = "build" /\ result'.version = code[Slug]
        /\ command' \in {"images", "down"} /\ serving' = serving
    BY <1>4 DEF Build
  <2>2. ServedInv' /\ \A a \in Callers : VersionInv(a)'
    <3>1. ServedInv'
      BY <2>1 DEF ServedInv
    <3>2. \A a \in Callers : a # serving => meddled'[a] = meddled[a]
      BY <1>1a
    <3>3. \A a \in Callers : a = serving => phase[a] \in {"calling", "failed", "lost"}
      BY DEF CallsInv, CallInv, Outstanding
    <3>4. QED
      BY <1>1, <2>1, <3>1, <3>2, <3>3 DEF VersionsInv, VersionInv, Slug
  <2>3. QED
    BY <1>2, <2>2 DEF VersionsInv
<1>5. CASE RunPoc /\ ~Build
  <2>1. /\ result'.version = result.version /\ serving' = serving
        /\ result'.stage \in Executed => result.stage \in Executed
        /\ meddled' = meddled
    BY <1>1a, <1>5 DEF RunPoc, Config, Check, Images, Run, Kill, Down, Rm, Returning,
                VersionsInv, ServedInv
  <2>2. /\ command' \notin {"idle", "config"}
        /\ command' \in {"images", "run"} => result'.stage = "build"
    BY <1>5 DEF RunPoc, Config, Check, Images, Run, Kill, Down, Rm, VersionsInv, ServedInv
  <2>3. ServedInv' /\ \A a \in Callers : VersionInv(a)'
    BY <1>1, <2>1, <2>2 DEF VersionsInv, ServedInv, VersionInv
  <2>4. QED
    BY <1>2, <2>3 DEF VersionsInv
<1>6. QED
  BY <1>3, <1>4, <1>5 DEF Serve

LEMMA VersionsAnswer ==
  ASSUME TInv, VersionsInv, Answer
  PROVE  VersionsInv'
<1> USE DEF Step, Executed
<1>1. PICK a \in Callers : a = serving
  BY ServedSlug DEF Answer, Reply, TInv, TypeOK, SandboxInv
<1>2. /\ serving' = NoCaller /\ command' = "idle" /\ result' = NoResult
      /\ UNCHANGED <<code, measured, meddled, report>>
  BY DEF Answer, Reply
<1>3. /\ \A b \in Callers : b # a => phase'[b] = phase[b] /\ built'[b] = built[b]
      /\ IF phase[a] = "calling"
         THEN phase'[a] = "built" /\ built'[a] = result
         ELSE phase'[a] = phase[a] /\ built'[a] = built[a]
  BY <1>1 DEF Answer, TInv, TypeOK
<1>4. ServedInv'
  BY <1>2 DEF ServedInv, NoResult
<1>5. \A b \in Callers : VersionInv(b)'
  BY <1>1, <1>2, <1>3 DEF VersionsInv, VersionInv
<1>6. \A s \in Slugs : report[s].by # NoCaller => report[s].by \in Callers
  BY DEF TInv, TypeOK
<1>7. \A s \in Slugs : ReportInv(s)'
  BY <1>2, <1>3, <1>6 DEF VersionsInv, ReportInv
<1>8. QED
  BY <1>4, <1>5, <1>7 DEF VersionsInv

LEMMA VersionsBreak ==
  ASSUME TInv, VersionsInv, ConnectionsBreak
  PROVE  VersionsInv'
<1> USE DEF Executed
<1>1. /\ serving' = NoCaller /\ command' = "idle" /\ result' = NoResult
      /\ UNCHANGED <<code, measured, meddled, report>>
  BY DEF ConnectionsBreak, SandboxCrash
<1>2. \A b \in Callers :
        IF phase[b] = "calling"
        THEN phase'[b] = "built" /\ built'[b].stage = "sandbox"
        ELSE phase'[b] = phase[b] /\ built'[b] = built[b]
  BY DEF ConnectionsBreak
<1>3. ServedInv'
  BY <1>1 DEF ServedInv, NoResult
<1>4. \A b \in Callers : VersionInv(b)'
  BY <1>1, <1>2 DEF VersionsInv, VersionInv
<1>5. \A s \in Slugs : report[s].by # NoCaller => report[s].by \in Callers
  BY DEF TInv, TypeOK
<1>6. \A s \in Slugs : ReportInv(s)'
  BY <1>1, <1>2, <1>5 DEF VersionsInv, ReportInv
<1>7. QED
  BY <1>3, <1>4, <1>6 DEF VersionsInv

LEMMA VersionsGraph ==
  ASSUME TInv, CallsInv, VersionsInv, NEW a \in Callers, Graph(a)
  PROVE  VersionsInv'
<1> USE DEF Executed
<1>1. /\ phase \in [Callers -> Phases] /\ measured \in [Callers -> Nat]
      /\ code \in [Slugs -> Nat] /\ report \in [Slugs -> ReportType]
      /\ SlugOf[a] \in Slugs
  BY DEF TInv, TypeOK, SandboxTypeOK, Phases, ReportType
<1>2. \A s \in Slugs : report[s].by # NoCaller => report[s].by \in Callers
  BY DEF TInv, TypeOK
<1>3. phase[a] \in {"build", "built", "fix", "evaluate", "report"} => serving # a
  BY DEF CallsInv, CallInv, Outstanding
<1>4. CASE BuildNode(a)
  <2>1. phase[a] = "build" /\ phase'[a] \in {"calling", "failed"}
          /\ \A b \in Callers : b # a => phase'[b] = phase[b]
    BY <1>1, <1>4 DEF BuildNode, NodeStarts, Move
  <2>2. UNCHANGED <<serving, command, result, code, built, measured, meddled, report>>
    BY <1>4 DEF BuildNode, Connect, sandboxVars
  <2>3. ServedInv' /\ \A b \in Callers : VersionInv(b)'
    BY <1>3, <2>1, <2>2 DEF VersionsInv, ServedInv, VersionInv
  <2>4. \A s \in Slugs : ReportInv(s)'
    BY <1>2, <2>1, <2>2 DEF VersionsInv, ReportInv
  <2>5. QED
    BY <2>3, <2>4 DEF VersionsInv
<1>5. CASE AfterBuild(a)
  BY <1>1, <1>5, VersionsMove DEF AfterBuild, Move
<1>6. CASE FixNode(a)
  <2>1. phase[a] = "fix" /\ phase'[a] \in {"build", "failed"}
          /\ \A b \in Callers : b # a => phase'[b] = phase[b]
    BY <1>1, <1>6 DEF FixNode, NodeStarts, Move
  <2>2. \A b \in Callers : b # a /\ meddled'[b] = {} =>
          code'[SlugOf[b]] = code[SlugOf[b]] /\ meddled[b] = {}
    <3>1. CASE UNCHANGED <<code, meddled>>
      BY <3>1
    <3>2. CASE Edit(a)
      <4> SUFFICES ASSUME NEW b \in Callers, b # a, meddled'[b] = {}
                   PROVE  code'[SlugOf[b]] = code[SlugOf[b]] /\ meddled[b] = {}
        OBVIOUS
      <4>1. meddled'[b] = IF SlugOf[b] = SlugOf[a] THEN meddled[b] \union {a}
                                                   ELSE meddled[b]
        BY <3>2 DEF Edit
      <4>2. SlugOf[b] # SlugOf[a] /\ SlugOf[b] \in Slugs
        BY <4>1
      <4>3. QED
        BY <1>1, <3>2, <4>1, <4>2 DEF Edit
    <3>3. QED
      BY <1>6, <3>1, <3>2 DEF FixNode
  <2>3. UNCHANGED <<serving, command, result, built, measured, report>>
    BY <1>6 DEF FixNode, sandboxVars
  <2>4. ServedInv' /\ \A b \in Callers : VersionInv(b)'
    BY <1>3, <2>1, <2>2, <2>3 DEF VersionsInv, ServedInv, VersionInv
  <2>5. \A s \in Slugs : ReportInv(s)'
    BY <1>2, <2>1, <2>2, <2>3 DEF VersionsInv, ReportInv
  <2>6. QED
    BY <2>4, <2>5 DEF VersionsInv
<1>7. CASE Measure(a)
  <2>1. phase[a] = "evaluate" /\ phase'[a] \in {"report", "failed"}
          /\ measured'[a] = code[SlugOf[a]]
          /\ \A b \in Callers : b # a => phase'[b] = phase[b] /\ measured'[b] = measured[b]
    BY <1>1, <1>7 DEF Measure, NodeStarts, Move
  <2>2. UNCHANGED <<serving, command, result, code, built, meddled, report>>
    BY <1>7 DEF Measure, sandboxVars
  <2>3. ServedInv' /\ \A b \in Callers : VersionInv(b)'
    BY <2>1, <2>2 DEF VersionsInv, ServedInv, VersionInv
  <2>4. \A s \in Slugs : ReportInv(s)'
    BY <1>2, <2>1, <2>2 DEF VersionsInv, ReportInv
  <2>5. QED
    BY <2>3, <2>4 DEF VersionsInv
<1>8. CASE WriteReport(a)
  <2>1. phase[a] = "report" /\ phase'[a] \in {"ended", "failed"}
          /\ \A b \in Callers : b # a => phase'[b] = phase[b]
    BY <1>1, <1>8 DEF WriteReport, Move
  <2>2. UNCHANGED <<serving, command, result, code, built, measured, meddled>>
    BY <1>8 DEF WriteReport, sandboxVars
  <2>3. ServedInv' /\ \A b \in Callers : VersionInv(b)'
    BY <2>1, <2>2 DEF VersionsInv, ServedInv, VersionInv
  <2>4. ASSUME NEW s \in Slugs PROVE ReportInv(s)'
    <3>1. CASE report'[s] = report[s]
      BY <1>2, <2>1, <2>2, <3>1 DEF VersionsInv, ReportInv
    <3>2. CASE report'[s] # report[s]
      <4>1. /\ phase'[a] = "ended" /\ report'[s].by = a
            /\ report'[s].built = built[a].version /\ report'[s].measured = measured[a]
        BY <1>1, <1>8, <3>2 DEF WriteReport, Move
      <4>2. built[a].stage \in Executed /\ meddled[a] = {} =>
              built[a].version = measured[a]
        BY <2>1 DEF VersionsInv, VersionInv
      <4>3. QED
        BY <2>2, <4>1, <4>2 DEF ReportInv
    <3>3. QED
      BY <3>1, <3>2
  <2>5. QED
    BY <2>3, <2>4 DEF VersionsInv
<1>9. QED
  BY <1>4, <1>5, <1>6, <1>7, <1>8 DEF Graph

LEMMA VersionsNext ==
  TInv /\ TInv' /\ CallsInv /\ VersionsInv /\ [Next]_vars => VersionsInv'
<1> SUFFICES ASSUME TInv, TInv', CallsInv, VersionsInv, [Next]_vars
             PROVE  VersionsInv'
  OBVIOUS
<1>1. phase \in [Callers -> Phases]
  BY DEF TInv, TypeOK, Phases
<1>2. ASSUME NEW a \in Callers, Ask(a) PROVE VersionsInv'
  BY <1>1, <1>2, VersionsMove DEF Ask, Move
<1>3. ASSUME NEW a \in Callers, HandleTap(a) PROVE VersionsInv'
  <2>1. phase[a] = "asked"
    BY <1>3 DEF HandleTap, Redeem, CallsInv, CallInv
  <2>2. PICK to \in {"cancelled", "build", "refused"} : phase' = [phase EXCEPT ![a] = to]
    BY <1>3 DEF HandleTap, Launch
  <2>3. \A b \in Callers : phase'[b] = IF b = a THEN to ELSE phase[b]
    BY <1>1, <2>2
  <2>4. UNCHANGED <<sandboxVars, code, built, measured, meddled, report>>
    BY <1>3 DEF HandleTap
  <2>5. QED
    BY <2>1, <2>3, <2>4, VersionsMove
<1>4. ASSUME NEW a \in Callers, CallTimesOut(a) PROVE VersionsInv'
  BY <1>1, <1>4, VersionsMove DEF CallTimesOut, Move
<1>5. ASSUME NEW a \in Callers, NEW from \in {"build", "built", "fix", "evaluate"},
             SlowNotify(a, from)
      PROVE  VersionsInv'
  BY <1>1, <1>5, VersionsMove DEF SlowNotify, Move
<1>6. CASE WorkerCrash
  BY <1>6, VersionsMove DEF WorkerCrash, InGraph
<1>7. CASE BotCrash \/ UNCHANGED vars
  BY <1>7, VersionsMove DEF BotCrash, vars, autopilotVars
<1>8. QED
  BY <1>2, <1>3, <1>4, <1>5, <1>6, <1>7, VersionsSandbox, VersionsAnswer, VersionsBreak,
     VersionsGraph DEF Next, Sandbox

(* The build and the metrics of a report are about the same version of the  *)
(* sources, through crashes, timeouts and fixes that fail half way, unless  *)
(* another confirmation of the same slug has edited them in between.        *)
THEOREM ReportsMatch == Spec => []ReportMatchesBuild
<1>1. VersionsInv => ReportMatchesBuild
  BY DEF VersionsInv, ReportInv, ReportMatchesBuild, Executed
<1>2. TInv /\ TInv' /\ CallsInv /\ VersionsInv /\ [Next]_vars => VersionsInv'
  BY VersionsNext
<1>3. QED
  BY <1>1, <1>2, VersionsInit, TypeHolds, CallsHold, PTL DEF Spec
=============================================================================
