------------------------------ MODULE GitPublish ------------------------------
(***************************************************************************)
(* /commit, /push and "publish" of the bot (git_cmd.py, notes_cmd.py),     *)
(* their handlers in the worker (server.py) and the git commands these     *)
(* run, each a subprocess of its own (git_ops.py, publish_ops.py), in the  *)
(* working copy the developer works in as well.                            *)
(*                                                                         *)
(* A request is one message with buttons.  The bot waits for the worker's  *)
(* answer before it handles another tap; when it gives up waiting (20, 60  *)
(* and 90 s, while every git command may take 20 s) the worker goes on.    *)
(* Files are abstracted to two areas: the exported site and the rest; a    *)
(* version is a number.                                                    *)
(***************************************************************************)
EXTENDS Integers, Sequences, SequencesExt, FiniteSets

CONSTANTS
  Requests,      (* offers of the bot                                       *)
  KindOf,        (* "commit", "push" or "publish"                           *)
  Branches,
  None,
  MaxEdits,      (* bound: edits of files and of the vault                  *)
  MaxStages,     (* bound: git add by the developer                         *)
  MaxCheckouts,  (* bound: git checkout by the developer                    *)
  MaxFailures,   (* bound: git commands that fail or are killed             *)
  MaxTimeouts    (* bound: answers the bot does not wait for                *)

ASSUME RequestsAssumption ==
  /\ IsFiniteSet(Requests)
  /\ \A r \in Requests : KindOf[r] \in {"commit", "push", "publish"}
  /\ None \notin Requests \union Branches \union {"ok", "failed", "nochange"}
ASSUME BoundsAssumption ==
  {MaxEdits, MaxStages, MaxCheckouts, MaxFailures, MaxTimeouts} \subseteq Nat

VARIABLES
  work,       (* the files                                                  *)
  index,      (* what is staged                                             *)
  checkout,   (* the branch HEAD is at                                      *)
  local,      (* the commits of a branch                                    *)
  remote,     (* the same at origin                                         *)
  tracking,   (* what refs/remotes/origin says of it                        *)
  vault,      (* version of the published notes                             *)
  tokens,     (* keys of the _pending dictionaries of the bot               *)
  previewed,  (* the branch a push preview named                            *)
  waiting,    (* the request whose answer the bot waits for                 *)
  pc,         (* where the handler of the worker stands                     *)
  branch,     (* what current_branch returned to it                         *)
  exported,   (* the version of the vault it exported                       *)
  answer,     (* what it answered                                           *)
  count       (* how often the bounded things happened                      *)

files == <<work, index, checkout>>
refs  == <<local, remote, tracking>>
chat  == <<tokens, previewed>>
mine  == <<branch, exported>>
vars  == <<files, refs, vault, chat, waiting, pc, mine, answer, count>>

-----------------------------------------------------------------------------

Areas == {"site", "rest"}
Bound == [edit |-> MaxEdits, stage |-> MaxStages, checkout |-> MaxCheckouts,
          failure |-> MaxFailures, timeout |-> MaxTimeouts]

HeadTree == Last(local[checkout]).tree
Initial  == <<[tree |-> [a \in Areas |-> 0], by |-> None]>>
FirstStep == [commit |-> "addall", push |-> "branch", publish |-> "export"]

Counts(what) ==
  /\ count[what] < Bound[what]
  /\ count' = [count EXCEPT ![what] = @ + 1]

Goes(r, from, to) ==
  /\ pc[r] = from
  /\ pc' = [pc EXCEPT ![r] = to]
  /\ UNCHANGED <<waiting, answer>>

(* The handler answers; the bot edits its message if it still waits.        *)
Answer(r, from, text) ==
  /\ pc[r] = from
  /\ pc' = [pc EXCEPT ![r] = "done"]
  /\ answer' = [answer EXCEPT ![r] = text]
  /\ waiting' = IF waiting = r THEN None ELSE waiting

(* A git command fails, is refused the index lock or killed after 20 s: the *)
(* exception ends the handler (500).                                        *)
Fails(r, from) == Answer(r, from, "failed") /\ Counts("failure")

Init ==
  /\ work = [a \in Areas |-> 0]
  /\ index = work
  /\ checkout \in Branches
  /\ local = [b \in Branches |-> Initial]
  /\ remote = local
  /\ tracking = local
  /\ vault = 0
  /\ tokens = {}
  /\ previewed = [r \in Requests |-> None]
  /\ waiting = None
  /\ pc = [r \in Requests |-> "idle"]
  /\ branch = [r \in Requests |-> None]
  /\ exported = [r \in Requests |-> 0]
  /\ answer = [r \in Requests |-> None]
  /\ count = [what \in DOMAIN Bound |-> 0]

-----------------------------------------------------------------------------
(* The developer, and the notes of the vault.                               *)

EditRest ==
  /\ Counts("edit")
  /\ work' = [work EXCEPT !["rest"] = count'.edit]
  /\ UNCHANGED <<index, checkout, refs, vault, chat, waiting, pc, mine, answer>>

EditVault ==
  /\ Counts("edit")
  /\ vault' = count'.edit
  /\ UNCHANGED <<files, refs, chat, waiting, pc, mine, answer>>

Stage(a) ==
  /\ Counts("stage")
  /\ index' = [index EXCEPT ![a] = work[a]]
  /\ UNCHANGED <<work, checkout, refs, vault, chat, waiting, pc, mine, answer>>

Checkout(b) ==
  /\ Counts("checkout")
  /\ work = HeadTree /\ index = HeadTree
  /\ checkout' = b
  /\ work' = Last(local[b]).tree
  /\ index' = Last(local[b]).tree
  /\ UNCHANGED <<refs, vault, chat, waiting, pc, mine, answer>>

Fetch ==
  /\ tracking # remote
  /\ tracking' = remote
  /\ UNCHANGED <<files, local, remote, vault, chat, waiting, pc, mine, answer, count>>

-----------------------------------------------------------------------------
(* The bot.                                                                 *)

(* git log origin/b..HEAD, with b the branch HEAD is at, lists a commit.    *)
PendingCommits == ~IsPrefix(local[checkout], tracking[checkout])

(* The three previews: has_changes, ready, or the list of notes.            *)
Offerable(r) ==
  CASE KindOf[r] = "commit"  -> work # HeadTree \/ index # HeadTree
    [] KindOf[r] = "push"    -> PendingCommits
    [] KindOf[r] = "publish" -> TRUE

Preview(r) ==
  /\ waiting = None
  /\ Offerable(r)
  /\ Goes(r, "idle", "offered")
  /\ tokens' = tokens \union {r}
  /\ previewed' = [previewed EXCEPT ![r] = checkout]
  /\ UNCHANGED <<files, refs, vault, mine, count>>

(* Mutant of Redeem: the token is read, not popped.                         *)
RedeemAgain(r) == r \in tokens /\ UNCHANGED tokens

Redeem(r) == r \in tokens /\ tokens' = tokens \ {r}

(* A tap on the button; of several, only the first finds the token.  The    *)
(* previewed branch is dropped: the worker asks git again.                  *)
Confirm(r) ==
  /\ waiting = None
  /\ pc[r] \in {"offered", "done"}
  /\ Redeem(r)
  /\ waiting' = r
  /\ pc' = [pc EXCEPT ![r] = FirstStep[KindOf[r]]]
  /\ UNCHANGED <<files, refs, vault, previewed, mine, answer, count>>

Cancel(r) ==
  /\ waiting = None
  /\ Redeem(r)
  /\ Goes(r, "offered", "cancelled")
  /\ UNCHANGED <<files, refs, vault, previewed, mine, count>>

(* The total timeout of the POST; the message is not edited.                *)
GiveUp ==
  /\ waiting # None
  /\ Counts("timeout")
  /\ waiting' = None
  /\ UNCHANGED <<files, refs, vault, chat, pc, mine, answer>>

-----------------------------------------------------------------------------
(* The worker.                                                              *)

(* git add -A of apply_commit.                                              *)
AddAll(r) ==
  /\ \/ Goes(r, "addall", "commit") /\ index' = work /\ UNCHANGED count
     \/ Fails(r, "addall") /\ index' \in {work, index}
  /\ UNCHANGED <<work, checkout, refs, vault, chat, mine>>

(* publish_ops._export_site, in a thread.                                   *)
ExportSite(r) ==
  /\ \/ /\ Goes(r, "export", "addsite")
        /\ work' = [work EXCEPT !["site"] = vault]
        /\ exported' = [exported EXCEPT ![r] = vault]
        /\ UNCHANGED count
     \/ Fails(r, "export") /\ UNCHANGED <<work, exported>>
  /\ UNCHANGED <<index, checkout, refs, vault, chat, branch>>

(* Mutant of AddPaths: git add -A.                                          *)
AddEverything == index' = work

AddPaths == index' = [index EXCEPT !["site"] = work["site"]]

(* git add -- site/content of commit_paths ...                              *)
AddSite(r) ==
  /\ \/ Goes(r, "addsite", "diff") /\ AddPaths /\ UNCHANGED count
     \/ Fails(r, "addsite") /\ (AddPaths \/ UNCHANGED index)
  /\ UNCHANGED <<work, checkout, refs, vault, chat, mine>>

(* Mutant of Diff: git diff --quiet, of the files and not of the index.     *)
DiffOfFiles(r) ==
  /\ \/ work = index /\ Answer(r, "diff", "nochange") /\ UNCHANGED count
     \/ work # index /\ Goes(r, "diff", "commit") /\ UNCHANGED count
  /\ UNCHANGED <<files, refs, vault, chat, mine>>

(* Mutant of Diff: the handler starts again until there is something.       *)
DiffRetries(r) ==
  /\ IF index = HeadTree THEN Goes(r, "diff", "export") ELSE Goes(r, "diff", "commit")
  /\ UNCHANGED <<files, refs, vault, chat, mine, count>>

(* ... and git diff --cached --quiet, of the whole index; any code but 0 of *)
(* it means that there is something to commit.                              *)
Diff(r) ==
  /\ \/ index = HeadTree /\ Answer(r, "diff", "nochange") /\ UNCHANGED count
     \/ index # HeadTree /\ Goes(r, "diff", "commit") /\ UNCHANGED count
     \/ Goes(r, "diff", "commit") /\ Counts("failure")
     \/ Fails(r, "diff")
  /\ UNCHANGED <<files, refs, vault, chat, mine>>

Append1(r) ==
  local' = [local EXCEPT ![checkout] = Append(@, [tree |-> index, by |-> r])]

(* git commit, which commits the whole index, and git log; killed, it has   *)
(* made the commit or not.                                                  *)
Commit(r) ==
  /\ \/ /\ index # HeadTree
        /\ Append1(r)
        /\ IF KindOf[r] = "commit" THEN Answer(r, "commit", "ok") ELSE Goes(r, "commit", "branch")
        /\ UNCHANGED count
     \/ index = HeadTree /\ Answer(r, "commit", "failed") /\ UNCHANGED <<local, count>>
     \/ Fails(r, "commit") /\ (Append1(r) \/ UNCHANGED local)
  /\ UNCHANGED <<files, remote, tracking, vault, chat, mine>>

CurrentBranch(r) ==
  /\ \/ /\ Goes(r, "branch", "push")
        /\ branch' = [branch EXCEPT ![r] = checkout]
        /\ UNCHANGED count
     \/ Fails(r, "branch") /\ UNCHANGED branch
  /\ UNCHANGED <<files, refs, vault, chat, exported>>

FastForward(b) == IsPrefix(remote[b], local[checkout])

Update(b) == FastForward(b) /\ remote' = [remote EXCEPT ![b] = local[checkout]]

(* git push <url> HEAD:<branch>.  A push to a URL moves no tracking ref.    *)
Push(r) ==
  /\ pc[r] = "push"
  /\ \/ Update(branch[r]) /\ Answer(r, "push", "ok") /\ UNCHANGED count
     \/ /\ ~FastForward(branch[r])
        /\ Answer(r, "push", "failed")
        /\ UNCHANGED <<remote, count>>
     \/ Fails(r, "push") /\ (Update(branch[r]) \/ UNCHANGED remote)
  /\ UNCHANGED <<files, local, tracking, vault, chat, mine>>

Handler(r) ==
  AddAll(r) \/ ExportSite(r) \/ AddSite(r) \/ Diff(r) \/ Commit(r)
    \/ CurrentBranch(r) \/ Push(r)

Next ==
  \/ \E a \in Areas : Stage(a)
  \/ EditRest \/ EditVault \/ Fetch
  \/ \E b \in Branches \ {checkout} : Checkout(b)
  \/ \E r \in Requests : Preview(r) \/ Confirm(r) \/ Cancel(r) \/ Handler(r)
  \/ GiveUp

Fairness == \A r \in Requests : WF_vars(Handler(r))

Spec == Init /\ [][Next]_vars
FairSpec == Spec /\ Fairness

-----------------------------------------------------------------------------

CommitsBy(r) ==
  UNION {{b} \X {i \in 1..Len(local[b]) : local[b][i].by = r} : b \in Branches}

(* One confirmation makes at most one commit, however often the button is   *)
(* tapped and however long the worker takes (the token is popped).          *)
OneTapOneCommit == \A r \in Requests : Cardinality(CommitsBy(r)) <= 1

(* Every confirmed request ends with an answer, however many overlap.       *)
ConfirmedEnds ==
  \A r \in Requests : pc[r] = FirstStep[KindOf[r]] ~> pc[r] = "done"

(* Nothing failed, timed out or was staged or checked out by hand so far.   *)
Calm == count.failure = 0 /\ count.timeout = 0 /\ count.stage = 0 /\ count.checkout = 0

(* app/worker/git_ops.py, commit_paths: "무관 작업트리 변경을 끌어오지 않는다" *)
(* (it does not pull in unrelated changes): a publishing commit differs     *)
(* from its parent in the site only, while the developer edits and other    *)
(* requests come and go.  It needs the calm: what a failed commit left in   *)
(* the index goes out with the next publication.                            *)
PublishCommitsOnlySite ==
  Calm =>
    \A b \in Branches : \A i \in 2..Len(local[b]) :
      LET r == local[b][i].by
      IN  r # None /\ KindOf[r] = "publish"
            => local[b][i].tree["rest"] = local[b][i - 1].tree["rest"]

SiteAtOrigin(r) == Last(remote'[checkout]).tree["site"] = exported[r]

Published(r) ==
  KindOf[r] = "publish" /\ answer[r] = None /\ answer'[r] \in {"ok", "nochange"}

(* app/bot/commands/notes_cmd.py: "발행 적용 = export + commit + push (사이트 *)
(* 반영)" (applying brings the notes to the site): when it answers that all *)
(* went well, origin has what was exported.                                 *)
PublishOkMeansPushed == [][\A r \in Requests : Published(r) => SiteAtOrigin(r)]_vars

(* The same for every publication in a calm.                                *)
CalmPublishOkMeansPushed ==
  [][\A r \in Requests : Calm /\ Published(r) => SiteAtOrigin(r)]_vars
=============================================================================
