----------------------------- MODULE PocSandbox -----------------------------
(***************************************************************************)
(* The pocsandbox sidecar (app/pocsandbox/server.py): a single-threaded    *)
(* HTTP server that serves one POST /run at a time, so that a second       *)
(* caller's request waits in the listen backlog.  run_poc is modelled      *)
(* command by command; the docker daemon keeps the named container of a    *)
(* project when the docker client, or the sidecar, dies.                   *)
(*                                                                         *)
(* A caller is one POST at a time; its sources live in the directory of    *)
(* its slug, which others edit while the sidecar reads it.                 *)
(***************************************************************************)
EXTENDS Integers, Sequences, FiniteSets

CONSTANTS
  Callers,             (* who posts to /run                                 *)
  Slugs,               (* PoC directories                                   *)
  SlugOf,              (* the slug a caller posts                           *)
  NoCaller,            (* no request is being served                        *)
  MaxFaults            (* bound: crashes of bot, worker or sandbox, docker  *)
                       (* rm commands that fail, slow notifications         *)

ASSUME CallersAssumption ==
  NoCaller \notin Callers /\ IsFiniteSet(Callers) /\ IsFiniteSet(Slugs)
ASSUME SlugOfAssumption == SlugOf \in [Callers -> Slugs]
ASSUME SandboxBoundsAssumption == MaxFaults \in Nat

VARIABLES
  backlog,     (* connections not accepted yet                              *)
  serving,     (* the caller being served                                   *)
  command,     (* the docker command run_poc is at                          *)
  result,      (* what run_poc is going to return                           *)
  container,   (* slugs whose run container exists in the docker daemon     *)
  code,        (* version of the sources of a slug                          *)
  executions,  (* how often a caller's request got its sources built        *)
  faults       (* faults so far; only bounds the model                      *)

sandboxVars == <<backlog, serving, command, result, container, executions>>

Stages   == {"slug", "config", "check", "build", "run"}
Commands == {"idle", "config", "check", "build", "images", "run", "kill", "down",
             "rm", "reply"}
FaultKinds == {"crash", "rm", "other"}
NoResult == [ok |-> FALSE, stage |-> "slug", version |-> 0]

Slug == SlugOf[serving]

SandboxInit ==
  /\ backlog = <<>>
  /\ serving = NoCaller
  /\ command = "idle"
  /\ result = NoResult
  /\ container = {}
  /\ code = [s \in Slugs |-> 0]
  /\ executions = [c \in Callers |-> 0]
  /\ faults = [kind \in FaultKinds |-> 0]

Fault(kind) ==
  /\ faults["crash"] + faults["rm"] + faults["other"] < MaxFaults
  /\ faults' = [faults EXCEPT ![kind] = @ + 1]

(* A connection reaches the listening socket.                               *)
Connect(c) ==
  /\ backlog' = Append(backlog, c)
  /\ UNCHANGED <<serving, command, result, container, executions, faults>>

Step(from, to) == command = from /\ command' = to

Returning(ok, stage) ==
  result' = [ok |-> ok, stage |-> stage, version |-> result.version]

(* serve_forever accepts one connection; run_poc checks the slug before the *)
(* try block, so that this return runs no teardown.                         *)
Accept ==
  /\ backlog # <<>>
  /\ serving' = Head(backlog)
  /\ backlog' = Tail(backlog)
  /\ \/ Step("idle", "config")
     \/ Step("idle", "reply")
  /\ UNCHANGED <<result, container, executions, faults>>

(* docker compose config: a non-zero exit or output that does not parse.    *)
Config ==
  /\ \/ Step("config", "check") /\ UNCHANGED result
     \/ Step("config", "down") /\ Returning(FALSE, "config")
  /\ UNCHANGED <<backlog, serving, container, executions, faults>>

(* find_violations on the resolved compose file.                            *)
Check ==
  /\ \/ Step("check", "build") /\ UNCHANGED result
     \/ Step("check", "down") /\ Returning(FALSE, "check")
  /\ UNCHANGED <<backlog, serving, container, executions, faults>>

(* docker compose build reads the sources as they are now.                  *)
Build ==
  /\ \E ok \in BOOLEAN :
       /\ Step("build", IF ok THEN "images" ELSE "down")
       /\ result' = [ok |-> FALSE, stage |-> "build", version |-> code[Slug]]
  /\ executions' = [executions EXCEPT ![serving] = @ + 1]
  /\ UNCHANGED <<backlog, serving, container, faults>>

(* No image to pick: build only, reported as a success.                     *)
Images ==
  /\ \/ Step("images", "run") /\ UNCHANGED result
     \/ Step("images", "down") /\ Returning(TRUE, "build")
  /\ UNCHANGED <<backlog, serving, container, executions, faults>>

(* docker run --rm --name: refused while a container of that name exists;   *)
(* else it exits, with or without success, and is removed, or outlives the  *)
(* client that the 60 s timeout kills.                                      *)
Run ==
  /\ \/ Step("run", "down") /\ Slug \in container /\ Returning(FALSE, "run")
        /\ UNCHANGED container
     \/ Step("run", "down") /\ Slug \notin container
        /\ (\E ok \in BOOLEAN : Returning(ok, "run")) /\ UNCHANGED container
     \/ Step("run", "kill") /\ Slug \notin container /\ Returning(FALSE, "run")
        /\ container' = container \union {Slug}
  /\ UNCHANGED <<backlog, serving, executions, faults>>

(* Mutant of Remove: the container is left to docker.                       *)
RemoveNothing == UNCHANGED <<container, faults>>

(* docker rm -f of the run container; _run swallows its failure.            *)
Remove ==
  \/ container' = container \ {Slug} /\ UNCHANGED faults
  \/ Fault("rm") /\ UNCHANGED container

Kill ==
  /\ Step("kill", "down")
  /\ Remove
  /\ UNCHANGED <<backlog, serving, result, executions>>

(* The finally: compose down, which does not know the run container, then   *)
(* docker rm -f.                                                            *)
Down ==
  /\ Step("down", "rm")
  /\ UNCHANGED <<backlog, serving, result, container, executions, faults>>

Rm ==
  /\ Step("rm", "reply")
  /\ Remove
  /\ UNCHANGED <<backlog, serving, result, executions>>

Reply ==
  /\ Step("reply", "idle")
  /\ serving' = NoCaller
  /\ result' = NoResult
  /\ UNCHANGED <<backlog, container, executions, faults>>

RunPoc == Config \/ Check \/ Build \/ Images \/ Run \/ Kill \/ Down \/ Rm

(* The sidecar dies: connections break, a started container stays with the  *)
(* docker daemon.                                                           *)
SandboxCrash ==
  /\ Fault("crash")
  /\ backlog' = <<>>
  /\ serving' = NoCaller
  /\ command' = "idle"
  /\ result' = NoResult
  /\ container' \in {container} \union
       (IF command = "run" THEN {container \union {Slug}} ELSE {})
  /\ UNCHANGED executions

SandboxTypeOK ==
  /\ backlog \in Seq(Callers)
  /\ serving \in Callers \union {NoCaller}
  /\ command \in Commands
  /\ result \in [ok : BOOLEAN, stage : Stages, version : Nat]
  /\ container \subseteq Slugs
  /\ code \in [Slugs -> Nat]
  /\ executions \in [Callers -> Nat]
  /\ faults \in [FaultKinds -> Nat]

(* The teardown in the finally of run_poc: a PoC whose request is over      *)
(* leaves no container behind, but for one per crash of the sidecar or      *)
(* failed docker rm, and the next request for that slug cleans it up.       *)
LeftoversCounted ==
  Cardinality({s \in container : serving = NoCaller \/ Slug # s})
    <= faults["crash"] + faults["rm"]
=============================================================================
