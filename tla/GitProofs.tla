------------------------------ MODULE GitProofs ------------------------------
(***************************************************************************)
(* Proofs about GitPublish for any requests and branches and any number of *)
(* edits, failures and time-outs.                                          *)
(***************************************************************************)
EXTENDS GitPublish, FiniteSetTheorems, SequenceTheorems, TLAPS

USE RequestsAssumption, BoundsAssumption

-----------------------------------------------------------------------------
(* Types                                                                    *)

Working == {"addall", "export", "addsite", "diff", "commit", "branch", "push"}
Places  == Working \union {"idle", "offered", "cancelled", "done"}

Trees     == [Areas -> Nat]
Commits   == [tree : Trees, by : Requests \union {None}]
Histories == Seq(Commits) \ {<<>>}

Kinds == {"edit", "stage", "checkout", "failure", "timeout"}

Types ==
  /\ work \in Trees /\ index \in Trees
  /\ checkout \in Branches
  /\ local \in [Branches -> Histories]
  /\ remote \in [Branches -> Histories]
  /\ vault \in Nat
  /\ exported \in [Requests -> Nat]
  /\ branch \in [Requests -> Branches \union {None}]
  /\ pc \in [Requests -> Places]
  /\ waiting \in Requests \union {None}
  /\ count \in [Kinds -> Nat]

LEMMA FirstSteps ==
  ASSUME NEW r \in Requests
  PROVE  /\ KindOf[r] \in {"commit", "push", "publish"}
         /\ KindOf[r] = "commit" => FirstStep[KindOf[r]] = "addall"
         /\ KindOf[r] = "push" => FirstStep[KindOf[r]] = "branch"
         /\ KindOf[r] = "publish" => FirstStep[KindOf[r]] = "export"
BY DEF FirstStep

LEMMA Bounds ==
  /\ DOMAIN Bound = Kinds
  /\ \A what \in Kinds : Bound[what] \in Nat
BY DEF Bound, Kinds

LEMMA CountsUp ==
  ASSUME count \in [Kinds -> Nat], NEW what \in Kinds, Counts(what)
  PROVE  /\ count' \in [Kinds -> Nat]
         /\ count'[what] = count[what] + 1
         /\ \A other \in Kinds \ {what} : count'[other] = count[other]
BY DEF Counts

LEMMA LastOf ==
  ASSUME NEW s \in Histories
  PROVE  /\ Len(s) \in Nat \ {0} /\ s \in Seq(Commits)
         /\ Last(s) = s[Len(s)] /\ Last(s) \in Commits
         /\ Last(s).tree \in Trees
         /\ \A i \in 1..Len(s) : s[i] \in Commits /\ s[i].tree \in Trees
<1>1. s \in Seq(Commits) /\ s # <<>>
  BY DEF Histories
<1>2. Len(s) \in Nat \ {0}
  BY <1>1, EmptySeq
<1>3. \A i \in 1..Len(s) : s[i] \in Commits
  BY <1>1, ElementOfSeq
<1>4. \A c \in Commits : c.tree \in Trees
  BY DEF Commits
<1>5. QED
  BY <1>1, <1>2, <1>3, <1>4 DEF Last

LEMMA AppendTo ==
  ASSUME NEW s \in Histories, NEW c \in Commits
  PROVE  /\ Append(s, c) \in Histories
         /\ Len(Append(s, c)) = Len(s) + 1
         /\ \A i \in 1..Len(s) : Append(s, c)[i] = s[i]
         /\ Append(s, c)[Len(s) + 1] = c
         /\ Last(Append(s, c)) = c
<1>1. s \in Seq(Commits) /\ Len(s) \in Nat
  BY LastOf
<1>2. /\ Append(s, c) \in Seq(Commits)
      /\ Len(Append(s, c)) = Len(s) + 1
      /\ \A i \in 1..Len(s) : Append(s, c)[i] = s[i]
      /\ Append(s, c)[Len(s) + 1] = c
  BY <1>1
<1>3. Append(s, c) # <<>>
  BY <1>1, <1>2
<1>4. QED
  BY <1>2, <1>3 DEF Histories, Last

LEMMA HeadIsTree == Types => local[checkout] \in Histories /\ HeadTree \in Trees
BY LastOf DEF Types, HeadTree

-----------------------------------------------------------------------------
(* What a step may do                                                       *)

(* The handler of r goes on from one place, to "done" with an answer.       *)
Moves(r, from, tos) ==
  /\ pc[r] = from
  /\ \E to \in tos : pc' = [pc EXCEPT ![r] = to]
  /\ waiting' = IF pc'[r] = "done" /\ waiting = r THEN None ELSE waiting
  /\ UNCHANGED <<checkout, vault, tokens>>

Adds(r) ==
  /\ Moves(r, "addall", {"commit", "done"})
  /\ index' \in {work, index}
  /\ Calm' => pc'[r] = "commit" /\ index' = work
  /\ UNCHANGED <<work, local, remote, mine>>

Exports(r) ==
  /\ Moves(r, "export", {"addsite", "done"})
  /\ \/ /\ pc'[r] = "addsite"
        /\ work' = [work EXCEPT !["site"] = vault]
        /\ exported' = [exported EXCEPT ![r] = vault]
     \/ ~Calm' /\ UNCHANGED <<work, exported>>
  /\ UNCHANGED <<index, local, remote, branch>>

AddsPaths(r) ==
  /\ Moves(r, "addsite", {"diff", "done"})
  /\ AddPaths \/ (~Calm' /\ UNCHANGED index)
  /\ Calm' => pc'[r] = "diff"
  /\ UNCHANGED <<work, local, remote, mine>>

Diffs(r) ==
  /\ Moves(r, "diff", {"commit", "done"})
  /\ Calm' /\ pc'[r] = "done" => index = HeadTree
  /\ UNCHANGED <<work, index, local, remote, mine>>

Records(r) ==
  /\ Moves(r, "commit", {"branch", "done"})
  /\ pc'[r] = "branch" => KindOf[r] # "commit"
  /\ \/ Append1(r) /\ (Calm' /\ pc'[r] = "done" => KindOf[r] = "commit")
     \/ UNCHANGED local /\ pc'[r] = "done" /\ (Calm' => index = HeadTree)
  /\ UNCHANGED <<work, index, remote, mine>>

Asks(r) ==
  /\ Moves(r, "branch", {"push", "done"})
  /\ \/ pc'[r] = "push" /\ branch' = [branch EXCEPT ![r] = checkout]
     \/ ~Calm' /\ UNCHANGED branch
  /\ UNCHANGED <<work, index, local, remote, exported>>

Pushes(r) ==
  /\ Moves(r, "push", {"done"})
  /\ Update(branch[r]) \/ (UNCHANGED remote /\ (Calm' => ~FastForward(branch[r])))
  /\ UNCHANGED <<work, index, local, mine>>

Handles(r) ==
  Adds(r) \/ Exports(r) \/ AddsPaths(r) \/ Diffs(r) \/ Records(r) \/ Asks(r) \/ Pushes(r)

(* The taps.                                                                *)
Offers(r) ==
  /\ pc[r] = "idle"
  /\ pc' = [pc EXCEPT ![r] = "offered"]
  /\ tokens' = tokens \union {r}
  /\ UNCHANGED <<files, local, remote, vault, waiting, mine>>

Cancels(r) ==
  /\ pc[r] = "offered"
  /\ r \in tokens /\ tokens' = tokens \ {r}
  /\ pc' = [pc EXCEPT ![r] = "cancelled"]
  /\ UNCHANGED <<files, local, remote, vault, waiting, mine>>

Confirms(r) ==
  /\ pc[r] \in {"offered", "done"}
  /\ r \in tokens /\ tokens' = tokens \ {r}
  /\ waiting = None /\ waiting' = r
  /\ pc' = [pc EXCEPT ![r] = FirstStep[KindOf[r]]]
  /\ UNCHANGED <<files, local, remote, vault, mine>>

(* The developer, the vault, a fetch, and the patience of the bot.          *)
Elsewhere ==
  /\ UNCHANGED <<local, remote, pc, tokens, mine>>
  /\ Calm' => UNCHANGED <<index, checkout, waiting>> /\ work'["site"] = work["site"]

LEMMA CalmBefore ==
  ASSUME Types, [Next]_vars
  PROVE  (\E what \in Kinds : Counts(what)) \/ UNCHANGED count
<1> SUFFICES ASSUME Next PROVE (\E what \in Kinds : Counts(what)) \/ UNCHANGED count
  BY DEF vars
<1>1. ASSUME NEW r \in Requests, Preview(r) \/ Confirm(r) \/ Cancel(r) PROVE UNCHANGED count
  BY <1>1 DEF Preview, Confirm, Cancel
<1>2. ASSUME NEW r \in Requests, Handler(r) PROVE Counts("failure") \/ UNCHANGED count
  BY <1>2 DEF Handler, AddAll, ExportSite, AddSite, Diff, Commit, CurrentBranch, Push, Fails
<1>3. ASSUME NEW a \in Areas, Stage(a) PROVE Counts("stage")
  BY <1>3 DEF Stage
<1>4. ASSUME NEW b \in Branches, Checkout(b) PROVE Counts("checkout")
  BY <1>4 DEF Checkout
<1>5. CASE EditRest \/ EditVault \/ Fetch \/ GiveUp
  BY <1>5 DEF EditRest, EditVault, Fetch, GiveUp, Kinds
<1>6. QED
  BY <1>1, <1>2, <1>3, <1>4, <1>5 DEF Next, Kinds

(* A counter never goes down: what is calm after a step was so before it.   *)
LEMMA CalmOnlyBefore ==
  ASSUME Types, [Next]_vars, Calm'
  PROVE  Calm
<1>1. Kinds = {"edit", "stage", "checkout", "failure", "timeout"}
  BY DEF Kinds
<1>2. \A what \in Kinds : count[what] \in Nat /\ count'[what] >= count[what]
  BY CalmBefore, CountsUp DEF Types
<1>3. QED
  BY <1>1, <1>2 DEF Calm

LEMMA Failing ==
  ASSUME Types, NEW what \in {"stage", "checkout", "failure", "timeout"}, Counts(what)
  PROVE  ~Calm'
<1>1. count'[what] > 0
  BY CountsUp DEF Types, Kinds
<1>2. QED
  BY <1>1 DEF Calm

LEMMA Moving ==
  ASSUME Types, NEW r \in Requests, NEW from, NEW to, NEW tos, to \in tos,
         UNCHANGED <<checkout, vault, chat>>,
         \/ to # "done" /\ Goes(r, from, to)
         \/ to = "done" /\ \E text : Answer(r, from, text)
  PROVE  Moves(r, from, tos) /\ pc'[r] = to
<1>1. pc' = [pc EXCEPT ![r] = to] /\ pc[r] = from
  BY DEF Goes, Answer
<1>2. pc'[r] = to
  BY <1>1 DEF Types
<1>3. QED
  BY <1>1, <1>2 DEF Goes, Answer, Moves, chat

LEMMA HandlerShape ==
  ASSUME Types, NEW r \in Requests, Handler(r)
  PROVE  Handles(r)
<1> USE DEF Handles
<1>0. ASSUME NEW from, Fails(r, from)
      PROVE  Answer(r, from, "failed") /\ ~Calm'
  BY <1>0, Failing DEF Fails
<1>1. CASE AddAll(r)
  <2>0. UNCHANGED <<work, local, remote, checkout, vault, chat, mine>>
    BY <1>1 DEF AddAll, refs
  <2>1. CASE Goes(r, "addall", "commit") /\ index' = work
    <3>1. Moves(r, "addall", {"commit", "done"}) /\ pc'[r] = "commit"
      BY <2>0, <2>1, Moving
    <3>2. QED
      BY <2>0, <2>1, <3>1 DEF Adds
  <2>2. CASE Fails(r, "addall") /\ index' \in {work, index}
    <3>1. Moves(r, "addall", {"commit", "done"}) /\ ~Calm'
      BY <1>0, <2>0, <2>2, Moving
    <3>2. QED
      BY <2>0, <2>2, <3>1 DEF Adds
  <2>3. QED
    BY <1>1, <2>1, <2>2 DEF AddAll
<1>2. CASE ExportSite(r)
  <2>0. UNCHANGED <<index, local, remote, checkout, vault, chat, branch>>
    BY <1>2 DEF ExportSite, refs
  <2>1. CASE /\ Goes(r, "export", "addsite")
             /\ work' = [work EXCEPT !["site"] = vault]
             /\ exported' = [exported EXCEPT ![r] = vault]
    <3>1. Moves(r, "export", {"addsite", "done"}) /\ pc'[r] = "addsite"
      BY <2>0, <2>1, Moving
    <3>2. QED
      BY <2>0, <2>1, <3>1 DEF Exports
  <2>2. CASE Fails(r, "export") /\ UNCHANGED <<work, exported>>
    <3>1. Moves(r, "export", {"addsite", "done"}) /\ ~Calm'
      BY <1>0, <2>0, <2>2, Moving
    <3>2. QED
      BY <2>0, <2>2, <3>1 DEF Exports
  <2>3. QED
    BY <1>2, <2>1, <2>2 DEF ExportSite
<1>3. CASE AddSite(r)
  <2>0. UNCHANGED <<work, local, remote, checkout, vault, chat, mine>>
    BY <1>3 DEF AddSite, refs
  <2>1. CASE Goes(r, "addsite", "diff") /\ AddPaths
    <3>1. Moves(r, "addsite", {"diff", "done"}) /\ pc'[r] = "diff"
      BY <2>0, <2>1, Moving
    <3>2. QED
      BY <2>0, <2>1, <3>1 DEF AddsPaths
  <2>2. CASE Fails(r, "addsite") /\ (AddPaths \/ UNCHANGED index)
    <3>1. Moves(r, "addsite", {"diff", "done"}) /\ ~Calm'
      BY <1>0, <2>0, <2>2, Moving
    <3>2. QED
      BY <2>0, <2>2, <3>1 DEF AddsPaths
  <2>3. QED
    BY <1>3, <2>1, <2>2 DEF AddSite
<1>4. CASE Diff(r)
  <2>0. UNCHANGED <<work, index, local, remote, checkout, vault, chat, mine>>
    BY <1>4 DEF Diff, refs, files
  <2>1. CASE index = HeadTree /\ Answer(r, "diff", "nochange")
    <3>1. Moves(r, "diff", {"commit", "done"})
      BY <2>0, <2>1, Moving
    <3>2. QED
      BY <2>0, <2>1, <3>1 DEF Diffs
  <2>2. CASE Goes(r, "diff", "commit")
    <3>1. Moves(r, "diff", {"commit", "done"}) /\ pc'[r] = "commit"
      BY <2>0, <2>2, Moving
    <3>2. QED
      BY <2>0, <3>1 DEF Diffs
  <2>3. CASE Fails(r, "diff")
    <3>1. Moves(r, "diff", {"commit", "done"}) /\ ~Calm'
      BY <1>0, <2>0, <2>3, Moving
    <3>2. QED
      BY <2>0, <3>1 DEF Diffs
  <2>4. QED
    BY <1>4, <2>1, <2>2, <2>3 DEF Diff
<1>5. CASE Commit(r)
  <2>0. UNCHANGED <<work, index, remote, checkout, vault, chat, mine>>
    BY <1>5 DEF Commit, files
  <2>1. CASE Append1(r) /\ KindOf[r] = "commit" /\ Answer(r, "commit", "ok")
    <3>1. Moves(r, "commit", {"branch", "done"}) /\ pc'[r] = "done"
      BY <2>0, <2>1, Moving
    <3>2. QED
      BY <2>0, <2>1, <3>1 DEF Records
  <2>2. CASE Append1(r) /\ KindOf[r] # "commit" /\ Goes(r, "commit", "branch")
    <3>1. Moves(r, "commit", {"branch", "done"}) /\ pc'[r] = "branch"
      BY <2>0, <2>2, Moving
    <3>2. QED
      BY <2>0, <2>2, <3>1 DEF Records
  <2>3. CASE index = HeadTree /\ Answer(r, "commit", "failed") /\ UNCHANGED local
    <3>1. Moves(r, "commit", {"branch", "done"}) /\ pc'[r] = "done"
      BY <2>0, <2>3, Moving
    <3>2. QED
      BY <2>0, <2>3, <3>1 DEF Records
  <2>4. CASE Fails(r, "commit") /\ (Append1(r) \/ UNCHANGED local)
    <3>1. Moves(r, "commit", {"branch", "done"}) /\ pc'[r] = "done" /\ ~Calm'
      BY <1>0, <2>0, <2>4, Moving
    <3>2. QED
      BY <2>0, <2>4, <3>1 DEF Records
  <2>5. QED
    BY <1>5, <2>1, <2>2, <2>3, <2>4 DEF Commit
<1>6. CASE CurrentBranch(r)
  <2>0. UNCHANGED <<work, index, local, remote, checkout, vault, chat, exported>>
    BY <1>6 DEF CurrentBranch, refs, files
  <2>1. CASE Goes(r, "branch", "push") /\ branch' = [branch EXCEPT ![r] = checkout]
    <3>1. Moves(r, "branch", {"push", "done"}) /\ pc'[r] = "push"
      BY <2>0, <2>1, Moving
    <3>2. QED
      BY <2>0, <2>1, <3>1 DEF Asks
  <2>2. CASE Fails(r, "branch") /\ UNCHANGED branch
    <3>1. Moves(r, "branch", {"push", "done"}) /\ ~Calm'
      BY <1>0, <2>0, <2>2, Moving
    <3>2. QED
      BY <2>0, <2>2, <3>1 DEF Asks
  <2>3. QED
    BY <1>6, <2>1, <2>2 DEF CurrentBranch
<1>7. CASE Push(r)
  <2>0. UNCHANGED <<work, index, local, checkout, vault, chat, mine>>
    BY <1>7 DEF Push, files
  <2>1. CASE Update(branch[r]) /\ Answer(r, "push", "ok")
    <3>1. Moves(r, "push", {"done"})
      BY <2>0, <2>1, Moving
    <3>2. QED
      BY <2>0, <2>1, <3>1 DEF Pushes
  <2>2. CASE ~FastForward(branch[r]) /\ Answer(r, "push", "failed") /\ UNCHANGED remote
    <3>1. Moves(r, "push", {"done"})
      BY <2>0, <2>2, Moving
    <3>2. QED
      BY <2>0, <2>2, <3>1 DEF Pushes
  <2>3. CASE Fails(r, "push") /\ (Update(branch[r]) \/ UNCHANGED remote)
    <3>1. Moves(r, "push", {"done"}) /\ ~Calm'
      BY <1>0, <2>0, <2>3, Moving
    <3>2. QED
      BY <2>0, <2>3, <3>1 DEF Pushes
  <2>4. QED
    BY <1>7, <2>1, <2>2, <2>3 DEF Push
<1>8. QED
  BY <1>1, <1>2, <1>3, <1>4, <1>5, <1>6, <1>7 DEF Handler

LEMMA StepShape ==
  ASSUME Types, [Next]_vars
  PROVE  \/ Elsewhere
         \/ \E r \in Requests : Handles(r) \/ Offers(r) \/ Cancels(r) \/ Confirms(r)
<1>1. CASE UNCHANGED vars
  BY <1>1 DEF vars, files, refs, mine, chat, Elsewhere
<1>2. ASSUME NEW a \in Areas, Stage(a) PROVE Elsewhere
  BY <1>2, Failing DEF Stage, refs, mine, chat, Elsewhere
<1>3. ASSUME NEW b \in Branches, Checkout(b) PROVE Elsewhere
  BY <1>3, Failing DEF Checkout, refs, mine, chat, Elsewhere
<1>4. CASE EditRest
  <2>1. work'["site"] = work["site"]
    BY <1>4 DEF EditRest, Types, Trees, Areas
  <2>2. QED
    BY <1>4, <2>1 DEF EditRest, refs, mine, chat, Elsewhere
<1>5. CASE EditVault \/ Fetch
  BY <1>5 DEF EditVault, Fetch, files, refs, mine, chat, Elsewhere
<1>6. CASE GiveUp
  BY <1>6, Failing DEF GiveUp, files, refs, mine, chat, Elsewhere
<1>7. ASSUME NEW r \in Requests, Preview(r) PROVE Offers(r)
  BY <1>7 DEF Preview, Goes, refs, Offers
<1>8. ASSUME NEW r \in Requests, Cancel(r) PROVE Cancels(r)
  BY <1>8 DEF Cancel, Goes, Redeem, refs, Cancels
<1>9. ASSUME NEW r \in Requests, Confirm(r) PROVE Confirms(r)
  BY <1>9 DEF Confirm, Redeem, refs, Confirms
<1>10. QED
  BY <1>1, <1>2, <1>3, <1>4, <1>5, <1>6, <1>7, <1>8, <1>9, HandlerShape DEF Next

-----------------------------------------------------------------------------
(* Types are kept                                                           *)

LEMMA RecordedHistory ==
  ASSUME Types, NEW r \in Requests, Append1(r)
  PROVE  /\ local' \in [Branches -> Histories]
         /\ \A b \in Branches \ {checkout} : local'[b] = local[b]
         /\ local'[checkout] = Append(local[checkout], [tree |-> index, by |-> r])
<1>1. [tree |-> index, by |-> r] \in Commits
  BY DEF Commits, Types
<1>2. Append(local[checkout], [tree |-> index, by |-> r]) \in Histories
  BY <1>1, HeadIsTree, AppendTo
<1>3. QED
  BY <1>2 DEF Append1, Types

LEMMA HandlerTypes ==
  ASSUME Types, NEW r \in Requests, Handles(r), count' \in [Kinds -> Nat]
  PROVE  Types'
<1>1. /\ pc' \in [Requests -> Places]
      /\ waiting' \in Requests \union {None}
      /\ checkout' = checkout /\ vault' = vault
  <2>1. PICK from \in Working, tos \in SUBSET Places : Moves(r, from, tos)
    BY DEF Handles, Adds, Exports, AddsPaths, Diffs, Records, Asks, Pushes, Places, Working
  <2>2. QED
    BY <2>1 DEF Moves, Types
<1>2. work' \in Trees /\ index' \in Trees
  BY DEF Handles, Adds, Exports, AddsPaths, AddPaths, Diffs, Records, Asks, Pushes, Types, Trees, Areas
<1>3. local' \in [Branches -> Histories]
  BY RecordedHistory DEF Handles, Adds, Exports, AddsPaths, Diffs, Records, Asks, Pushes, Types
<1>4. remote' \in [Branches -> Histories]
  <2>1. CASE Pushes(r)
    BY <2>1, HeadIsTree DEF Pushes, Update, Types
  <2>2. CASE UNCHANGED remote
    BY <2>2 DEF Types
  <2>3. QED
    BY <2>1, <2>2 DEF Handles, Adds, Exports, AddsPaths, Diffs, Records, Asks
<1>5. exported' \in [Requests -> Nat]
  BY DEF Handles, Adds, Exports, AddsPaths, Diffs, Records, Asks, Pushes, Types, mine
<1>6. branch' \in [Requests -> Branches \union {None}]
  BY DEF Handles, Adds, Exports, AddsPaths, Diffs, Records, Asks, Pushes, Types, mine
<1>7. QED
  BY <1>1, <1>2, <1>3, <1>4, <1>5, <1>6 DEF Types

LEMMA TypesNext == Types /\ [Next]_vars => Types'
<1> SUFFICES ASSUME Types, [Next]_vars PROVE Types'
  OBVIOUS
<1>1. count' \in [Kinds -> Nat]
  BY CalmBefore, CountsUp DEF Types
<1>2. CASE UNCHANGED vars
  BY <1>2 DEF vars, files, refs, mine, Types
<1>3. ASSUME NEW a \in Areas, Stage(a) PROVE Types'
  BY <1>1, <1>3 DEF Stage, refs, mine, Types, Trees
<1>4. ASSUME NEW b \in Branches, Checkout(b) PROVE Types'
  <2>1. Last(local[b]).tree \in Trees
    BY LastOf DEF Types
  <2>2. QED
    BY <1>1, <1>4, <2>1 DEF Checkout, refs, mine, Types
<1>5. CASE EditRest \/ EditVault
  <2>1. count'.edit \in Nat
    BY <1>1 DEF Kinds
  <2>2. QED
    BY <1>1, <1>5, <2>1 DEF EditRest, EditVault, files, refs, mine, Types, Trees
<1>6. CASE Fetch \/ GiveUp
  BY <1>1, <1>6 DEF Fetch, GiveUp, files, refs, mine, Types
<1>7. ASSUME NEW r \in Requests, Preview(r) \/ Cancel(r) PROVE Types'
  BY <1>1, <1>7 DEF Preview, Cancel, Goes, files, refs, mine, Types, Places
<1>8. ASSUME NEW r \in Requests, Confirm(r) PROVE Types'
  <2>1. FirstStep[KindOf[r]] \in Places
    BY FirstSteps DEF Places, Working
  <2>2. QED
    BY <1>1, <1>8, <2>1 DEF Confirm, files, refs, mine, Types
<1>9. ASSUME NEW r \in Requests, Handler(r) PROVE Types'
  BY <1>1, <1>9, HandlerShape, HandlerTypes
<1>10. QED
  BY <1>2, <1>3, <1>4, <1>5, <1>6, <1>7, <1>8, <1>9 DEF Next

LEMMA TypesHold == Spec => []Types
<1>1. Init => Types
  <2> SUFFICES ASSUME Init PROVE Types
    OBVIOUS
  <2>1. [a \in Areas |-> 0] \in Trees
    BY DEF Trees
  <2>2. [tree |-> [a \in Areas |-> 0], by |-> None] \in Commits
    BY <2>1 DEF Commits
  <2>3. Initial \in Histories
    BY <2>2 DEF Initial, Histories
  <2>4. QED
    BY <2>1, <2>3, Bounds DEF Init, Types, Places
<1>2. QED
  BY <1>1, TypesNext, PTL DEF Spec

-----------------------------------------------------------------------------
(* One confirmation, one commit                                             *)

Uncommitted == {"idle", "offered", "cancelled", "addall", "export", "addsite", "diff", "commit"}

Committed(r, b, i) == i \in 1..Len(local[b]) /\ local[b][i].by = r

(* A token is that of an offer nobody has answered; a request whose handler *)
(* has not passed git commit has no commit, any other one at most.          *)
TapInv ==
  \A r \in Requests :
    /\ r \in tokens => pc[r] = "offered"
    /\ \A b, c \in Branches : \A i, j \in Nat :
         Committed(r, b, i) =>
           /\ pc[r] \notin Uncommitted
           /\ Committed(r, c, j) => b = c /\ i = j

LEMMA TapKeeps ==
  ASSUME TapInv, UNCHANGED local,
         \A r \in Requests : /\ r \in tokens' => pc'[r] = "offered"
                             /\ pc'[r] \in Uncommitted => pc[r] \in Uncommitted
  PROVE  TapInv'
<1>1. \A r \in Requests, b \in Branches, i \in Nat : Committed(r, b, i)' <=> Committed(r, b, i)
  BY DEF Committed
<1>2. QED
  BY <1>1 DEF TapInv

LEMMA TapNext == Types /\ TapInv /\ [Next]_vars => TapInv'
<1> SUFFICES ASSUME Types, TapInv, [Next]_vars PROVE TapInv'
  OBVIOUS
<1>0. \A r \in Requests : r \in tokens => pc[r] = "offered"
  BY DEF TapInv
<1>1. CASE Elsewhere
  BY <1>0, <1>1, TapKeeps DEF Elsewhere
<1>2. ASSUME NEW q \in Requests, Offers(q) PROVE TapInv'
  BY <1>0, <1>2, TapKeeps DEF Offers, Uncommitted, Types
<1>3. ASSUME NEW q \in Requests, Cancels(q) \/ Confirms(q) PROVE TapInv'
  <2>1. /\ pc[q] = "offered" /\ pc[q] \in Uncommitted /\ tokens' = tokens \ {q}
        /\ UNCHANGED local
        /\ \A r \in Requests \ {q} : pc'[r] = pc[r]
    BY <1>0, <1>3 DEF Cancels, Confirms, Uncommitted, Types
  <2>2. QED
    BY <1>0, <2>1, TapKeeps
<1>4. ASSUME NEW q \in Requests, Handles(q), UNCHANGED local PROVE TapInv'
  <2>1. /\ \A r \in Requests \ {q} : pc'[r] = pc[r]
        /\ tokens' = tokens
        /\ pc[q] # "offered" /\ (pc'[q] \in Uncommitted => pc[q] \in Uncommitted)
    BY <1>4 DEF Handles, Adds, Exports, AddsPaths, Diffs, Records, Asks, Pushes, Moves,
                Uncommitted, Types
  <2>2. QED
    BY <1>0, <1>4, <2>1, TapKeeps
<1>5. ASSUME NEW q \in Requests, Records(q), Append1(q) PROVE TapInv'
  <2>1. /\ pc[q] = "commit" /\ pc'[q] \notin Uncommitted
        /\ \A r \in Requests \ {q} : pc'[r] = pc[r]
        /\ tokens' = tokens
    BY <1>5 DEF Records, Moves, Uncommitted, Types
  <2> DEFINE n == Len(local[checkout])
             commit == [tree |-> index, by |-> q]
  <2>2. n \in Nat /\ commit \in Commits /\ local[checkout] \in Histories /\ commit.by = q
    BY HeadIsTree, LastOf DEF Commits, Types
  <2> HIDE DEF n, commit
  <2>3. /\ \A b \in Branches \ {checkout} : local'[b] = local[b]
        /\ local'[checkout] = Append(local[checkout], commit)
    BY <1>5, RecordedHistory DEF commit
  <2>4. /\ Len(local'[checkout]) = n + 1
        /\ \A i \in 1..n : local'[checkout][i] = local[checkout][i]
        /\ local'[checkout][n + 1].by = q
    BY <2>2, <2>3, AppendTo DEF n
  <2>5. \A r \in Requests, b \in Branches, i \in Nat :
          Committed(r, b, i)' <=> Committed(r, b, i) \/ (r = q /\ b = checkout /\ i = n + 1)
    <3>1. ASSUME NEW r \in Requests, NEW b \in Branches \ {checkout}, NEW i \in Nat
          PROVE  Committed(r, b, i)' <=> Committed(r, b, i)
      BY <2>3 DEF Committed
    <3>2. ASSUME NEW r \in Requests, NEW i \in Nat
          PROVE  Committed(r, checkout, i)
                   <=> i \in 1..n /\ local[checkout][i].by = r
      BY DEF Committed, n
    <3>3. \A r \in Requests, i \in Nat :
            i \in 1..Len(local'[checkout]) /\ local'[checkout][i].by = r
              <=> (i \in 1..n /\ local[checkout][i].by = r) \/ (r = q /\ i = n + 1)
      BY <2>2, <2>4
    <3>4. checkout' = checkout
      BY <1>5 DEF Records, Moves
    <3>5. \A r \in Requests, i \in Nat :
            Committed(r, checkout, i)' <=> Committed(r, checkout, i) \/ (r = q /\ i = n + 1)
      BY <3>2, <3>3, <3>4 DEF Committed
    <3>6. QED
      BY <3>1, <3>4, <3>5
  <2>6. \A b \in Branches, i \in Nat : ~Committed(q, b, i)
    BY <2>1 DEF TapInv, Uncommitted
  <2>7. QED
    BY <2>1, <2>2, <2>5, <2>6 DEF TapInv
<1>6. QED
  BY <1>1, <1>2, <1>3, <1>4, <1>5, StepShape
     DEF Handles, Adds, Exports, AddsPaths, Diffs, Records, Asks, Pushes

(* However often the button of an offer is tapped, and whichever commands   *)
(* fail or are killed after they did their work: apply_commit and           *)
(* commit_paths make one commit for it at most.                             *)
THEOREM OneCommit == Spec => []OneTapOneCommit
<1>1. Init => TapInv
  <2> SUFFICES ASSUME Init PROVE TapInv
    OBVIOUS
  <2>1. /\ Len(Initial) = 1 /\ Initial[1].by = None
        /\ \A b \in Branches : local[b] = Initial
    BY DEF Init, Initial
  <2>2. \A r \in Requests, b \in Branches, i \in Nat : ~Committed(r, b, i)
    BY <2>1 DEF Committed
  <2>3. QED
    BY <2>2 DEF TapInv, Init
<1>2. TapInv /\ Types => OneTapOneCommit
  <2> SUFFICES ASSUME TapInv, Types, NEW r \in Requests PROVE Cardinality(CommitsBy(r)) <= 1
    BY DEF OneTapOneCommit
  <2>1. \A x \in CommitsBy(r) :
          /\ x = <<x[1], x[2]>> /\ x[1] \in Branches /\ x[2] \in Nat
          /\ Committed(r, x[1], x[2])
    BY LastOf DEF CommitsBy, Committed, Types
  <2>2. \A x, y \in CommitsBy(r) : x = y
    <3> SUFFICES ASSUME NEW x \in CommitsBy(r), NEW y \in CommitsBy(r) PROVE x = y
      OBVIOUS
    <3>1. x[1] = y[1] /\ x[2] = y[2]
      BY <2>1 DEF TapInv
    <3>2. QED
      BY <2>1, <3>1
  <2>3. CASE CommitsBy(r) = {}
    BY <2>3, FS_EmptySet
  <2>4. CASE CommitsBy(r) # {}
    <3>1. PICK x : CommitsBy(r) = {x}
      BY <2>2, <2>4
    <3>2. QED
      BY <3>1, FS_Singleton
  <2>5. QED
    BY <2>3, <2>4
<1>3. QED
  BY <1>1, <1>2, TapNext, TypesHold, PTL DEF Spec

-----------------------------------------------------------------------------
(* What a publication commits and pushes in a calm                          *)

(* Some publication, or some commit, is at one of these places.             *)
PublishAt(places) == \E r \in Requests : KindOf[r] = "publish" /\ pc[r] \in places
CommitAt(places)  == \E r \in Requests : KindOf[r] = "commit" /\ pc[r] \in places

(* A handler is at a place of its kind.                                     *)
KindInv ==
  \A r \in Requests :
    /\ pc[r] = "addall" => KindOf[r] = "commit"
    /\ pc[r] \in {"export", "addsite", "diff"} => KindOf[r] = "publish"
    /\ pc[r] = "commit" => KindOf[r] \in {"commit", "publish"}
    /\ pc[r] \in {"branch", "push"} => KindOf[r] \in {"push", "publish"}

RestSame(b) ==
  \A i \in 2..Len(local[b]) :
    LET r == local[b][i].by
    IN  r # None /\ KindOf[r] = "publish"
          => local[b][i].tree["rest"] = local[b][i - 1].tree["rest"]

(* In a calm handlers take turns: the bot waits for the one that works.     *)
(* Outside of git add -A and its commit the index has the rest of HEAD.     *)
CalmRest ==
  Calm =>
    /\ \A r \in Requests : pc[r] \in Working => waiting = r
    /\ CommitAt({"commit"}) \/ index["rest"] = HeadTree["rest"]
    /\ \A b \in Branches : RestSame(b)

(* Files, index, HEAD and origin have one version of the site, but for what *)
(* the one publication that is under way has not passed on yet.             *)
CalmSite ==
  Calm =>
    /\ \A b \in Branches : IsPrefix(remote[b], local[b])
    /\ \A r \in Requests :
         /\ KindOf[r] = "publish" /\ pc[r] \in Working \ {"export"} => work["site"] = exported[r]
         /\ pc[r] = "push" => branch[r] = checkout
    /\ PublishAt({"addsite"}) \/ index["site"] = work["site"]
    /\ PublishAt({"addsite", "diff", "commit"}) \/ HeadTree["site"] = index["site"]
    /\ \/ PublishAt({"branch", "push"})
       \/ Last(remote[checkout]).tree["site"] = HeadTree["site"]

PublishInv == KindInv /\ CalmRest /\ CalmSite

LEMMA KindNext == Types /\ KindInv /\ [Next]_vars => KindInv'
<1> SUFFICES ASSUME Types, KindInv, [Next]_vars PROVE KindInv'
  OBVIOUS
<1> USE DEF KindInv
<1>1. CASE Elsewhere
  BY <1>1 DEF Elsewhere
<1>2. ASSUME NEW q \in Requests, Offers(q) \/ Cancels(q) PROVE KindInv'
  BY <1>2 DEF Offers, Cancels, Types
<1>3. ASSUME NEW q \in Requests, Confirms(q) PROVE KindInv'
  BY <1>3, FirstSteps DEF Confirms, Types
<1>4. ASSUME NEW q \in Requests, Handles(q) PROVE KindInv'
  BY <1>4 DEF Handles, Adds, Exports, AddsPaths, Diffs, Records, Asks, Pushes, Moves, Types
<1>5. QED
  BY <1>1, <1>2, <1>3, <1>4, StepShape

(* What stands still in a calm leaves both invariants alone.                *)
Still ==
  /\ UNCHANGED <<index, checkout, local, remote, mine, waiting>>
  /\ work'["site"] = work["site"]

LEMMA StillKeeps ==
  ASSUME Types, CalmRest, CalmSite, Calm, Still,
         \A r \in Requests : pc'[r] = pc[r] \/ (pc[r] \notin Working /\ pc'[r] \notin Working)
  PROVE  CalmRest' /\ CalmSite'
<1>1. HeadTree' = HeadTree /\ \A b \in Branches : RestSame(b)' <=> RestSame(b)
  BY DEF Still, HeadTree, RestSame
<1>2. \A places \in SUBSET Working :
        /\ PublishAt(places)' <=> PublishAt(places)
        /\ CommitAt(places)' <=> CommitAt(places)
  BY DEF PublishAt, CommitAt
<1>3. CalmRest'
  BY <1>1, <1>2 DEF CalmRest, Still, Working
<1>4. CalmSite'
  BY <1>1, <1>2 DEF CalmSite, Still, mine, Working
<1>5. QED
  BY <1>3, <1>4

LEMMA CalmConfirms ==
  ASSUME Types, CalmRest, CalmSite, Calm, NEW q \in Requests, Confirms(q)
  PROVE  CalmRest' /\ CalmSite'
<1>1. \A r \in Requests : pc[r] \notin Working
  BY DEF CalmRest, Confirms
<1>2. /\ pc'[q] \in {"addall", "branch", "export"}
      /\ KindOf[q] = "publish" => pc'[q] = "export"
      /\ waiting' = q
      /\ \A r \in Requests \ {q} : pc'[r] \notin Working
  BY <1>1, FirstSteps DEF Confirms, Types
<1>3. UNCHANGED <<work, index, checkout, local, remote, branch, exported>>
  BY DEF Confirms, files, mine
<1>4. HeadTree' = HeadTree /\ \A b \in Branches : RestSame(b)' <=> RestSame(b)
  BY <1>3 DEF HeadTree, RestSame
<1>5. \A places \in SUBSET Working : ~PublishAt(places) /\ ~CommitAt(places)
  BY <1>1 DEF PublishAt, CommitAt
<1>6. CalmRest'
  BY <1>2, <1>3, <1>4, <1>5 DEF CalmRest, Working
<1>7. CalmSite'
  BY <1>2, <1>3, <1>4, <1>5 DEF CalmSite, Working
<1>8. QED
  BY <1>6, <1>7

(* In a calm the handler that moves is the only one at work.                *)
Alone(r) ==
  /\ pc[r] \in Working
  /\ \A q \in Requests \ {r} : pc[q] \notin Working /\ pc'[q] \notin Working
  /\ pc'[r] \in Working => waiting' = r
  /\ checkout' = checkout

LEMMA CalmAlone ==
  ASSUME Types, CalmRest, Calm, NEW r \in Requests, Handles(r)
  PROVE  Alone(r)
<1>1. PICK from \in Working, tos \in SUBSET Places : Moves(r, from, tos)
  BY DEF Handles, Adds, Exports, AddsPaths, Diffs, Records, Asks, Pushes, Places, Working
<1>2. waiting = r /\ \A q \in Requests \ {r} : pc[q] \notin Working
  BY <1>1 DEF CalmRest, Moves
<1>3. \A q \in Requests \ {r} : pc'[q] = pc[q]
  BY <1>1 DEF Moves, Types
<1>4. "done" \notin Working
  BY DEF Working
<1>5. QED
  BY <1>1, <1>2, <1>3, <1>4 DEF Moves, Alone

LEMMA AtAlone ==
  ASSUME NEW r \in Requests, Alone(r), NEW places \in SUBSET Working
  PROVE  /\ PublishAt(places) <=> KindOf[r] = "publish" /\ pc[r] \in places
         /\ CommitAt(places) <=> KindOf[r] = "commit" /\ pc[r] \in places
         /\ PublishAt(places)' <=> KindOf[r] = "publish" /\ pc'[r] \in places
         /\ CommitAt(places)' <=> KindOf[r] = "commit" /\ pc'[r] \in places
BY DEF Alone, PublishAt, CommitAt

LEMMA HandlerRest ==
  ASSUME Types, KindInv, CalmRest, Calm, Calm', NEW r \in Requests, Handles(r)
  PROVE  CalmRest'
<1>1. Alone(r)
  BY CalmAlone
<1>2. \A q \in Requests : pc'[q] \in Working => waiting' = q
  BY <1>1 DEF Alone
<1>3. /\ CommitAt({"commit"}) <=> KindOf[r] = "commit" /\ pc[r] = "commit"
      /\ CommitAt({"commit"})' <=> KindOf[r] = "commit" /\ pc'[r] = "commit"
  BY <1>1, AtAlone DEF Working
<1>4. CASE ~(Records(r) /\ Append1(r))
  <2>0. UNCHANGED local
    BY <1>4 DEF Handles, Adds, Exports, AddsPaths, Diffs, Records, Asks, Pushes
  <2>1. HeadTree' = HeadTree /\ \A b \in Branches : RestSame(b)' <=> RestSame(b)
    BY <1>1, <2>0 DEF HeadTree, RestSame, Alone
  <2>2. CASE Adds(r)
    <3>1. KindOf[r] = "commit" /\ pc'[r] = "commit"
      BY <2>2 DEF Adds, Moves, KindInv
    <3>2. QED
      BY <1>2, <1>3, <2>1, <3>1 DEF CalmRest
  <2>3. CASE ~Adds(r)
    <3>1. index'["rest"] = index["rest"]
      BY <2>3 DEF Handles, Exports, AddsPaths, AddPaths, Diffs, Records, Asks, Pushes, Types,
                  Trees, Areas
    <3>2. KindOf[r] = "commit" /\ pc[r] = "commit" => index = HeadTree
      BY <1>4, <2>3 DEF Handles, Exports, AddsPaths, Diffs, Records, Asks, Pushes, Moves, KindInv
    <3>3. QED
      BY <1>2, <1>3, <2>1, <3>1, <3>2 DEF CalmRest
  <2>4. QED
    BY <2>2, <2>3
<1>5. CASE Records(r) /\ Append1(r)
  <2>1. pc[r] = "commit" /\ pc'[r] # "commit" /\ index' = index
    BY <1>5 DEF Records, Moves, Types
  <2>2. KindOf[r] \in {"commit", "publish"}
    BY <2>1 DEF KindInv
  <2> DEFINE h == local[checkout]
             n == Len(local[checkout])
             commit == [tree |-> index, by |-> r]
  <2>3. /\ commit \in Commits /\ commit.tree = index /\ commit.by = r
        /\ n \in Nat \ {0} /\ h \in Histories /\ HeadTree = h[n].tree
    BY HeadIsTree, LastOf DEF Commits, Types, HeadTree
  <2>4. /\ \A b \in Branches \ {checkout} : local'[b] = local[b]
        /\ local'[checkout] = Append(h, commit)
    BY <1>5, RecordedHistory
  <2>5. /\ Len(local'[checkout]) = n + 1
        /\ \A i \in 1..n : local'[checkout][i] = h[i]
        /\ local'[checkout][n + 1] = commit
        /\ Last(local'[checkout]) = commit
    BY <2>3, <2>4, AppendTo
  <2> HIDE DEF h, n, commit
  <2>6. HeadTree' = index
    BY <1>1, <2>3, <2>5 DEF HeadTree, Alone
  <2>7. KindOf[r] = "publish" => index["rest"] = HeadTree["rest"]
    BY <1>3 DEF CalmRest
  <2>8. \A b \in Branches : RestSame(b)
    BY DEF CalmRest
  <2>9. \A b \in Branches \ {checkout} : RestSame(b)'
    <3> TAKE b \in Branches \ {checkout}
    <3>1. RestSame(b) /\ local'[b] = local[b]
      BY <2>4, <2>8
    <3>2. QED
      BY ONLY <3>1 DEF RestSame
  <2>10. \A i \in 2..(n + 1) :
           LET q == local'[checkout][i].by
           IN  q # None /\ KindOf[q] = "publish"
                 => local'[checkout][i].tree["rest"] = local'[checkout][i - 1].tree["rest"]
    <3> TAKE i \in 2..(n + 1)
    <3>1. CASE i <= n
      <4>1. i \in 2..n /\ local'[checkout][i] = h[i] /\ local'[checkout][i - 1] = h[i - 1]
        <5>1. i \in 2..n /\ i \in 1..n /\ i - 1 \in 1..n
          BY <2>3, <3>1
        <5>2. QED
          BY <2>5, <5>1
      <4>2. LET q == h[i].by
            IN  q # None /\ KindOf[q] = "publish" => h[i].tree["rest"] = h[i - 1].tree["rest"]
        BY <2>8, <4>1 DEF RestSame, Types, h, n
      <4>3. QED
        BY <4>1, <4>2
    <3>2. CASE i = n + 1
      <4>1. local'[checkout][i] = commit /\ local'[checkout][i - 1] = h[n]
        <5>1. i - 1 = n /\ n \in 1..n
          BY <2>3, <3>2
        <5>2. QED
          BY <2>5, <3>2, <5>1
      <4>2. QED
        BY <2>3, <2>7, <4>1
    <3>3. QED
      BY <2>3, <3>1, <3>2
  <2>11. \A b \in Branches : RestSame(b)'
    BY <2>5, <2>9, <2>10 DEF RestSame
  <2>12. QED
    BY <1>2, <2>1, <2>6, <2>11 DEF CalmRest
<1>6. QED
  BY <1>4, <1>5 DEF Handles, Adds, Exports, AddsPaths, Diffs, Records, Asks, Pushes

LEMMA PrefixOfSelf ==
  ASSUME NEW s \in Histories
  PROVE  IsPrefix(s, s)
BY LastOf DEF IsPrefix

LEMMA PrefixGrows ==
  ASSUME NEW s \in Histories, NEW t \in Histories, NEW c \in Commits, IsPrefix(s, t)
  PROVE  IsPrefix(s, Append(t, c))
<1>1. /\ s \in Seq(Commits) /\ t \in Seq(Commits) /\ Append(t, c) \in Seq(Commits)
      /\ Len(s) \in Nat \ {0} /\ Len(t) \in Nat \ {0} /\ Len(s) <= Len(t)
      /\ Len(Append(t, c)) = Len(t) + 1
  BY LastOf, AppendTo DEF IsPrefix
<1>2. SubSeq(Append(t, c), 1, Len(s)) = SubSeq(t, 1, Len(s))
  <2> DEFINE u == SubSeq(Append(t, c), 1, Len(s))
             v == SubSeq(t, 1, Len(s))
  <2>1. \A i \in 1..Len(s) : i \in 1..Len(t) /\ t[i] \in Commits /\ Append(t, c)[i] = t[i]
    <3> TAKE i \in 1..Len(s)
    <3>1. i \in 1..Len(t)
      BY <1>1
    <3>2. QED
      BY <3>1, AppendTo, LastOf
  <2>2. /\ u \in Seq(Commits) /\ Len(u) = Len(s)
        /\ \A i \in 1..Len(s) : u[i] = Append(t, c)[i]
    BY <1>1, <2>1, SubSeqProperties
  <2>3. /\ v \in Seq(Commits) /\ Len(v) = Len(s)
        /\ \A i \in 1..Len(s) : v[i] = t[i]
    BY <1>1, <2>1, SubSeqProperties
  <2>4. QED
    BY <2>1, <2>2, <2>3, SeqEqual
<1>3. QED
  BY <1>1, <1>2 DEF IsPrefix

LEMMA HandlerSite ==
  ASSUME Types, KindInv, CalmRest, CalmSite, Calm, Calm', NEW r \in Requests, Handles(r)
  PROVE  CalmSite'
<1>1. Alone(r)
  BY CalmAlone
<1> DEFINE pub == KindOf[r] = "publish"
           head == HeadTree["site"]
           origin == Last(remote[checkout]).tree["site"]
<1>2. /\ \A b \in Branches : IsPrefix(remote[b], local[b])
      /\ pub /\ pc[r] \in Working \ {"export"} => work["site"] = exported[r]
      /\ pc[r] = "push" => branch[r] = checkout
      /\ (pub /\ pc[r] = "addsite") \/ index["site"] = work["site"]
      /\ (pub /\ pc[r] \in {"addsite", "diff", "commit"}) \/ head = index["site"]
      /\ (pub /\ pc[r] \in {"branch", "push"}) \/ origin = head
  BY <1>1, AtAlone DEF CalmSite, Working
<1>3. SUFFICES
        /\ \A b \in Branches : IsPrefix(remote'[b], local'[b])
        /\ pub /\ pc'[r] \in Working \ {"export"} => work'["site"] = exported'[r]
        /\ pc'[r] = "push" => branch'[r] = checkout
        /\ (pub /\ pc'[r] = "addsite") \/ index'["site"] = work'["site"]
        /\ (pub /\ pc'[r] \in {"addsite", "diff", "commit"})
             \/ Last(local'[checkout]).tree["site"] = index'["site"]
        /\ \/ pub /\ pc'[r] \in {"branch", "push"}
           \/ Last(remote'[checkout]).tree["site"] = Last(local'[checkout]).tree["site"]
  <2>1. \A q \in Requests \ {r} : pc'[q] \notin Working
    BY <1>1 DEF Alone
  <2>2. /\ checkout' = checkout
        /\ HeadTree' = Last(local'[checkout]).tree
    BY <1>1 DEF Alone, HeadTree
  <2>3. /\ PublishAt({"addsite"})' <=> pub /\ pc'[r] = "addsite"
        /\ PublishAt({"addsite", "diff", "commit"})'
             <=> pub /\ pc'[r] \in {"addsite", "diff", "commit"}
        /\ PublishAt({"branch", "push"})' <=> pub /\ pc'[r] \in {"branch", "push"}
    BY <1>1, AtAlone DEF Working
  <2>4. QED
    BY <1>3, <2>1, <2>2, <2>3 DEF CalmSite, Working
<1>4. head = Last(local[checkout]).tree["site"]
  BY DEF HeadTree
<1>5. CASE Adds(r)
  BY <1>2, <1>4, <1>5 DEF Adds, Moves, Types, mine, KindInv
<1>6. CASE Exports(r)
  <2>1. /\ pc[r] = "export" /\ pub /\ pc'[r] = "addsite"
        /\ work'["site"] = vault /\ exported'[r] = vault
    BY <1>6 DEF Exports, Moves, Types, Trees, Areas, KindInv
  <2>2. QED
    BY <1>2, <1>4, <1>6, <2>1 DEF Exports
<1>7. CASE AddsPaths(r)
  <2>1. /\ pc[r] = "addsite" /\ pub /\ pc'[r] = "diff"
        /\ index'["site"] = work["site"]
    BY <1>7 DEF AddsPaths, AddPaths, Moves, Types, Trees, Areas, KindInv
  <2>2. QED
    BY <1>2, <1>4, <1>7, <2>1 DEF AddsPaths, mine, Working
<1>8. CASE Diffs(r)
  BY <1>2, <1>4, <1>8 DEF Diffs, Moves, Types, mine, Working, KindInv
<1>9. CASE Records(r) /\ ~Append1(r)
  <2>1. /\ pc[r] = "commit" /\ pc'[r] = "done" /\ index = HeadTree
        /\ UNCHANGED <<work, index, local, remote, mine>>
    BY <1>9 DEF Records, Moves, Types
  <2>2. QED
    BY <1>2, <1>4, <2>1 DEF Working
<1>10. CASE Records(r) /\ Append1(r)
  <2> DEFINE commit == [tree |-> index, by |-> r]
  <2>1. commit \in Commits /\ commit.tree = index /\ local[checkout] \in Histories
    BY HeadIsTree DEF Commits, Types
  <2>2. /\ \A b \in Branches \ {checkout} : local'[b] = local[b]
        /\ local'[checkout] = Append(local[checkout], commit)
    BY <1>10, RecordedHistory
  <2> HIDE DEF commit
  <2>3. Last(local'[checkout]).tree = index
    BY <2>1, <2>2, AppendTo
  <2>4. \A b \in Branches : IsPrefix(remote[b], local'[b])
    <3>1. /\ remote[checkout] \in Histories /\ checkout \in Branches
          /\ IsPrefix(remote[checkout], local[checkout])
      BY <1>2 DEF Types
    <3>2. IsPrefix(remote[checkout], local'[checkout])
      BY <2>1, <2>2, <3>1, PrefixGrows
    <3>3. QED
      BY <1>2, <2>2, <3>2
  <2>5. /\ pc[r] = "commit" /\ pc'[r] \in {"branch", "done"}
        /\ pub => pc'[r] = "branch"
        /\ UNCHANGED <<work, index, remote, exported>>
    <3>1. local'[checkout] # local[checkout]
      BY <2>1, <2>2, AppendTo, LastOf
    <3>2. QED
      BY <1>10, <3>1 DEF Records, Moves, Types, mine
  <2>6. ~pub => origin = index["site"]
    BY <1>2, <2>5
  <2>7. QED
    BY <1>2, <2>3, <2>4, <2>5, <2>6 DEF Working
<1>11. CASE Asks(r)
  BY <1>2, <1>4, <1>11 DEF Asks, Moves, Types, Working
<1>12. CASE Pushes(r)
  <2>1. /\ pc[r] = "push" /\ pc'[r] = "done"
        /\ UNCHANGED <<work, index, local, mine>>
    BY <1>12 DEF Pushes, Moves, Types
  <2>2. FastForward(branch[r])
    BY <1>2, <2>1 DEF FastForward, Types
  <2>3. remote' = [remote EXCEPT ![checkout] = local[checkout]]
    BY <1>2, <1>12, <2>1, <2>2 DEF Pushes, Update
  <2>4. /\ \A b \in Branches \ {checkout} : remote'[b] = remote[b]
        /\ remote'[checkout] = local[checkout]
    BY <2>3 DEF Types
  <2>5. \A b \in Branches : IsPrefix(remote'[b], local[b])
    BY <1>2, <2>4, HeadIsTree, PrefixOfSelf
  <2>6. QED
    BY <1>2, <1>4, <2>1, <2>4, <2>5 DEF Working, KindInv
<1>13. QED
  BY <1>5, <1>6, <1>7, <1>8, <1>9, <1>10, <1>11, <1>12 DEF Handles, Records

LEMMA PublishNext == Types /\ PublishInv /\ [Next]_vars => PublishInv'
<1> SUFFICES ASSUME Types, KindInv, CalmRest, CalmSite, [Next]_vars, Calm'
             PROVE  CalmRest' /\ CalmSite'
  BY KindNext DEF PublishInv, CalmRest, CalmSite
<1>1. Calm
  BY CalmOnlyBefore
<1>2. CASE Elsewhere
  <2>1. Still /\ UNCHANGED pc
    BY <1>2 DEF Elsewhere, Still
  <2>2. QED
    BY <1>1, <2>1, StillKeeps
<1>3. ASSUME NEW q \in Requests, Offers(q) \/ Cancels(q) PROVE CalmRest' /\ CalmSite'
  <2>1. Still
    BY <1>3 DEF Offers, Cancels, Still, files
  <2>2. \A r \in Requests : pc'[r] = pc[r] \/ (pc[r] \notin Working /\ pc'[r] \notin Working)
    BY <1>3 DEF Offers, Cancels, Types, Working
  <2>3. QED
    BY <1>1, <2>1, <2>2, StillKeeps
<1>4. ASSUME NEW q \in Requests, Confirms(q) PROVE CalmRest' /\ CalmSite'
  BY <1>1, <1>4, CalmConfirms
<1>5. ASSUME NEW q \in Requests, Handles(q) PROVE CalmRest' /\ CalmSite'
  BY <1>1, <1>5, HandlerRest, HandlerSite
<1>6. QED
  BY <1>2, <1>3, <1>4, <1>5, StepShape

LEMMA PublishHolds == Spec => [](Types /\ PublishInv)
<1>1. Init => PublishInv
  <2> SUFFICES ASSUME Init PROVE PublishInv
    OBVIOUS
  <2>1. /\ Len(Initial) = 1 /\ Initial[1].by = None
        /\ Last(Initial).tree = [a \in Areas |-> 0]
        /\ \A b \in Branches : local[b] = Initial /\ remote[b] = Initial
    BY DEF Init, Initial, Last
  <2>2. checkout \in Branches /\ work = index /\ index = [a \in Areas |-> 0]
    BY DEF Init
  <2>3. \A r \in Requests : pc[r] = "idle"
    BY DEF Init
  <2>4. KindInv
    BY <2>3 DEF KindInv
  <2>5. HeadTree = index
    BY <2>1, <2>2 DEF HeadTree
  <2>6. CalmRest
    BY <2>1, <2>3, <2>5 DEF CalmRest, RestSame, Working
  <2>7. \A b \in Branches : IsPrefix(remote[b], local[b])
    BY <2>1 DEF IsPrefix
  <2>8. CalmSite
    BY <2>1, <2>2, <2>3, <2>5, <2>7 DEF CalmSite, Working
  <2>9. QED
    BY <2>4, <2>6, <2>8 DEF PublishInv
<1>2. QED
  BY <1>1, PublishNext, TypesHold, PTL DEF Spec

(* commit_paths does not pull in unrelated changes, for any requests that   *)
(* come and go and any edits in between, as long as nothing has failed,     *)
(* timed out, or was staged or checked out by hand.                         *)
THEOREM PublishesOnlySite == Spec => []PublishCommitsOnlySite
<1>1. PublishInv => PublishCommitsOnlySite
  BY DEF PublishInv, CalmRest, RestSame, PublishCommitsOnlySite
<1>2. QED
  BY <1>1, PublishHolds, PTL

Answers == answer \in [Requests -> {None, "ok", "failed", "nochange"}]

LEMMA AnswersNext == Answers /\ [Next]_vars => Answers'
<1> SUFFICES ASSUME Answers, Next \/ UNCHANGED vars PROVE Answers'
  OBVIOUS
<1> USE DEF Answers
<1>1. ASSUME NEW r \in Requests, Handler(r) PROVE Answers'
  BY <1>1 DEF Handler, AddAll, ExportSite, AddSite, Diff, Commit, CurrentBranch, Push, Fails,
              Answer, Goes
<1>2. ASSUME NEW r \in Requests, Preview(r) \/ Confirm(r) \/ Cancel(r) PROVE Answers'
  BY <1>2 DEF Preview, Confirm, Cancel, Goes
<1>3. ASSUME NEW a \in Areas, Stage(a) PROVE Answers'
  BY <1>3 DEF Stage
<1>4. ASSUME NEW b \in Branches, Checkout(b) PROVE Answers'
  BY <1>4 DEF Checkout
<1>5. CASE EditRest \/ EditVault \/ Fetch \/ GiveUp \/ UNCHANGED vars
  BY <1>5 DEF EditRest, EditVault, Fetch, GiveUp, vars
<1>6. QED
  BY <1>1, <1>2, <1>3, <1>4, <1>5 DEF Next

(* A publication ends well at git diff or at git push, and nowhere else.    *)
LEMMA PublishedBy ==
  ASSUME Answers, Next, NEW r \in Requests, Published(r)
  PROVE  \/ pc[r] = "diff" /\ index = HeadTree /\ UNCHANGED remote
         \/ pc[r] = "push" /\ Update(branch[r])
<1> USE DEF Answers, Published
<1>1. ASSUME NEW q \in Requests, Handler(q)
      PROVE  \/ pc[r] = "diff" /\ index = HeadTree /\ UNCHANGED remote
             \/ pc[r] = "push" /\ Update(branch[r])
  <2>1. CASE Diff(q)
    BY <2>1 DEF Diff, Fails, Answer, Goes, refs
  <2>2. CASE Push(q)
    BY <2>2 DEF Push, Fails, Answer
  <2>3. CASE AddAll(q) \/ ExportSite(q) \/ AddSite(q) \/ CurrentBranch(q)
    BY <2>3 DEF AddAll, ExportSite, AddSite, CurrentBranch, Fails, Answer, Goes
  <2>4. CASE Commit(q)
    BY <2>4 DEF Commit, Fails, Answer, Goes
  <2>5. QED
    BY <1>1, <2>1, <2>2, <2>3, <2>4 DEF Handler
<1>2. ASSUME NEW q \in Requests, Preview(q) \/ Confirm(q) \/ Cancel(q) PROVE FALSE
  BY <1>2 DEF Preview, Confirm, Cancel, Goes
<1>3. ASSUME NEW a \in Areas, Stage(a) PROVE FALSE
  BY <1>3 DEF Stage
<1>4. ASSUME NEW b \in Branches, Checkout(b) PROVE FALSE
  BY <1>4 DEF Checkout
<1>5. CASE EditRest \/ EditVault \/ Fetch \/ GiveUp
  BY <1>5 DEF EditRest, EditVault, Fetch, GiveUp
<1>6. QED
  BY <1>1, <1>2, <1>3, <1>4, <1>5 DEF Next

LEMMA OneAtWork ==
  ASSUME CalmRest, Calm, NEW r \in Requests, pc[r] \in Working, KindOf[r] = "publish",
         NEW places \in SUBSET Working
  PROVE  PublishAt(places) <=> pc[r] \in places
BY DEF CalmRest, PublishAt

(* In the same calm a publication answers that all went well only when      *)
(* origin has what it exported, also when there was nothing to commit       *)
(* (commit_paths, push_current_branch, _handle_publish_apply).              *)
THEOREM CalmPublishArrives == Spec => CalmPublishOkMeansPushed
<1>1. ASSUME Types, PublishInv, Answers, Next, NEW r \in Requests, Calm, Published(r)
      PROVE  SiteAtOrigin(r)
  <2>1. /\ work["site"] = exported[r]
        /\ index["site"] = work["site"]
        /\ HeadTree["site"] = index["site"]
        /\ pc[r] = "diff" => Last(remote[checkout]).tree["site"] = HeadTree["site"]
        /\ pc[r] = "push" => branch[r] = checkout /\ FastForward(checkout)
    <3>1. pc[r] \in {"diff", "push"} /\ KindOf[r] = "publish"
      BY <1>1, PublishedBy DEF Published
    <3>2. pc[r] \in Working \ {"export"}
      BY <3>1 DEF Working
    <3>3. /\ PublishAt({"addsite"}) <=> pc[r] \in {"addsite"}
          /\ PublishAt({"addsite", "diff", "commit"}) <=> pc[r] \in {"addsite", "diff", "commit"}
          /\ PublishAt({"branch", "push"}) <=> pc[r] \in {"branch", "push"}
      BY <1>1, <3>1, <3>2, OneAtWork DEF PublishInv, Working
    <3>4. CASE pc[r] = "diff"
      BY <1>1, <3>1, <3>2, <3>3, <3>4, PublishedBy DEF PublishInv, CalmSite
    <3>5. CASE pc[r] = "push"
      BY <1>1, <3>1, <3>2, <3>3, <3>5 DEF PublishInv, CalmSite, FastForward, Types
    <3>6. QED
      BY <3>1, <3>4, <3>5
  <2>2. CASE pc[r] = "diff" /\ index = HeadTree /\ UNCHANGED remote
    BY <2>1, <2>2 DEF SiteAtOrigin
  <2>3. CASE pc[r] = "push" /\ Update(branch[r])
    BY <1>1, <2>1, <2>3 DEF Update, SiteAtOrigin, HeadTree, Types
  <2>4. QED
    BY <1>1, <2>2, <2>3, PublishedBy
<1>2. Types /\ PublishInv /\ Answers /\ [Next]_vars
        => [\A r \in Requests : Calm /\ Published(r) => SiteAtOrigin(r)]_vars
  BY <1>1
<1>3. Init => Answers
  BY DEF Init, Answers
<1>4. QED
  BY <1>2, <1>3, AnswersNext, PublishHolds, PTL DEF Spec, CalmPublishOkMeansPushed
=============================================================================
