----------------------------- MODULE NotesProofs -----------------------------
(***************************************************************************)
(* Proofs about VaultExport and NotesPublish for any notes, aliases, lists *)
(* and foreign articles, and any number of taps, edits and failures.       *)
(***************************************************************************)
EXTENDS NotesPublish, SequenceTheorems, TLAPS

USE PathsAssumption, HoldingsAssumption, BoundsAssumption, SessionsAssumption,
    EditsAssumption

-----------------------------------------------------------------------------
(* What the steps mean to an export                                         *)

(* Flags change, once by set_publish or Obsidian.                           *)
Flips ==
  /\ \E n \in Notes, value \in BOOLEAN : Flag(n, value)
  /\ UNCHANGED <<site, manifest, export>>
  /\ failures' >= failures

Elsewhere ==
  /\ UNCHANGED <<published, site, manifest, export, ever, always>>
  /\ failures' >= failures

Adds == \E p \in ForeignPaths : PublishForeign(p)

Stops ==
  /\ step' = "idle"
  /\ owned' = {} /\ position' = 1 /\ chosen' = <<>>
  /\ ever' = {} /\ always' = {}
  /\ failures' > 0
  /\ UNCHANGED <<published, site, manifest>>

ExportStep == Flips \/ Elsewhere \/ Adds \/ Stops \/ Export

(* The threads of set_publish.                                              *)
Jobs == [at : {"sent", "read", "open", "written"}, note : Notes, value : BOOLEAN,
         from : Sessions, text : Nat]

Threads == thread \in [Taps -> Jobs \union {NoThread}]

LEMMA FlagFlips ==
  ASSUME NEW n \in Notes, NEW value \in BOOLEAN, Flag(n, value),
         UNCHANGED <<site, manifest, export>>, failures' >= failures,
         published \in [Notes -> BOOLEAN]
  PROVE  Flips /\ published' \in [Notes -> BOOLEAN]
<1>1. Flips
  BY DEF Flips
<1>2. published' = [published EXCEPT ![n] = value]
  BY DEF Flag
<1>3. QED
  BY <1>1, <1>2

Counted == toggles \in Nat /\ failures \in Nat /\ published \in [Notes -> BOOLEAN]

LEMMA StepOfExport ==
  ASSUME Counted, [Next]_vars
  PROVE  ExportStep /\ Counted'
<1> USE DEF Counted, ExportStep
<1>1. ASSUME NEW n \in Notes, SetPublish(n) PROVE Flips /\ Counted'
  <2>1. \E value \in BOOLEAN : Flag(n, value)
    <3>1. Flag(n, ~published[n]) /\ published[n] \in BOOLEAN
      BY <1>1 DEF SetPublish
    <3>2. CASE published[n]
      <4>1. (~published[n]) = FALSE
        BY <3>2
      <4>2. Flag(n, FALSE)
        BY <3>1, <4>1
      <4>3. QED
        BY <4>2
    <3>3. CASE ~published[n]
      <4>1. (~published[n]) = TRUE
        BY <3>3
      <4>2. Flag(n, TRUE)
        BY <3>1, <4>1
      <4>3. QED
        BY <4>2
    <3>4. QED
      BY <3>2, <3>3
  <2>2. UNCHANGED <<site, manifest, export, failures>> /\ toggles' = toggles + 1
    BY <1>1 DEF SetPublish
  <2>3. QED
    BY <2>1, <2>2, FlagFlips
<1>2. CASE \E p \in ForeignPaths : PublishForeign(p)
  BY <1>2 DEF PublishForeign, Adds
<1>3. CASE Export
  BY <1>3 DEF Export, Start, RemoveOwned, Collect, Copy, TruncateManifest, WriteManifest,
              EnsureIndex
<1>4. CASE CutShort
  BY <1>4 DEF CutShort, Stops
<1>5. CASE UNCHANGED vars
  BY <1>5 DEF vars, Elsewhere
<1>6. QED
  BY <1>1, <1>2, <1>3, <1>4, <1>5 DEF Next

LEMMA StepOfNotes ==
  ASSUME Counted, Threads, [NotesNext]_allVars
  PROVE  ExportStep /\ Counted'
<1> USE DEF Counted, ExportStep
<1>1. ASSUME UNCHANGED vars PROVE Elsewhere /\ Counted'
  BY <1>1 DEF vars, Elsewhere
<1>2. ASSUME NEW s \in Sessions, ListNotes(s) \/ Close(s) \/ Apply(s)
      PROVE  ExportStep /\ Counted'
  <2>1. UNCHANGED vars \/ Start
    BY <1>2 DEF ListNotes, Close, Apply
  <2>2. QED
    BY <1>1, <2>1 DEF Start, Export
<1>3. ASSUME NEW s \in Sessions, NEW n \in Notes, Toggle(s, n) PROVE Elsewhere /\ Counted'
  BY <1>3 DEF Toggle, Elsewhere
<1>4. ASSUME NEW t \in Taps, Answer(t) \/ ReadNote(t) PROVE UNCHANGED vars
  BY <1>4 DEF Answer, ReadNote
<1>5. ASSUME NEW t \in Taps, SetPublishFails(t) PROVE Elsewhere /\ Counted'
  BY <1>5 DEF SetPublishFails, Elsewhere
<1>6. CASE Applied
  BY <1>1, <1>6 DEF Applied
<1>7. CASE GiveUp
  BY <1>7 DEF GiveUp, Elsewhere
<1>8. CASE WorkerStops
  BY <1>8 DEF WorkerStops, Stops
<1>9. ASSUME NEW n \in Notes, NEW flag \in BOOLEAN, Edit(n, flag) PROVE Flips /\ Counted'
  <2>1. Flag(n, flag) /\ UNCHANGED <<site, manifest, export, toggles, failures>>
    BY <1>9 DEF Edit
  <2>2. QED
    BY <2>1, FlagFlips
<1>10. CASE Exports \/ CutShort \/ \E p \in ForeignPaths : PublishForeign(p)
  BY <1>10, StepOfExport DEF Exports, Export, Next
<1>11. CASE UNCHANGED allVars
  BY <1>1, <1>11 DEF allVars
<1>12. ASSUME NEW t \in Taps, OpenNote(t) \/ WriteNote(t) PROVE Flips /\ Counted'
  <2>0. thread[t].at \in {"read", "open"}
    BY <1>12 DEF OpenNote, WriteNote, Proceed
  <2>1. thread[t] \in Jobs
    BY <2>0 DEF Threads, NoThread
  <2>2. thread[t].note \in Notes /\ thread[t].value \in BOOLEAN
    BY <2>1 DEF Jobs
  <2>3. \E value \in BOOLEAN : Flag(thread[t].note, value)
    BY <1>12, <2>2 DEF OpenNote, WriteNote
  <2>4. UNCHANGED <<site, manifest, export, toggles, failures>>
    BY <1>12 DEF OpenNote, WriteNote
  <2>5. QED
    BY <2>2, <2>3, <2>4, FlagFlips
<1>13. QED
  BY <1>1, <1>2, <1>3, <1>4, <1>5, <1>6, <1>7, <1>8, <1>9, <1>10, <1>11, <1>12
     DEF NotesNext, SetPublishOf

-----------------------------------------------------------------------------
(* The invariant of an export                                               *)

Chosen == {chosen[i] : i \in 1..Len(chosen)}

(* The paths that hold a note.                                              *)
Held == {p \in Paths : site[p] \in Notes}

Steps == {"idle", "remove", "look", "copy", "manifest", "write", "index"}

Types ==
  /\ Counted
  /\ site \in [Paths -> Notes \union {Nothing, Foreign, Default}]
  /\ manifest \in (SUBSET Paths) \union {Broken}
  /\ step \in Steps
  /\ owned \subseteq Paths
  /\ position \in Nat \ {0}
  /\ chosen \in Seq(Notes)
  /\ ever \subseteq Notes
  /\ always \subseteq Notes
  /\ step \in {"idle", "remove"} => position = 1 /\ chosen = <<>>

(* Every note published all along is chosen once it has been looked at.     *)
AlwaysChosen ==
  /\ always \subseteq Published
  /\ step = "look" =>
       \A i \in 1..Len(NoteOrder) :
         i < position /\ NoteOrder[i] \in always => NoteOrder[i] \in Chosen
  /\ step \in {"copy", "manifest", "write", "index"} => always \subseteq Chosen

Lies(i) == PathOf[chosen[i]] = Index \/ site[PathOf[chosen[i]]] \in Notes

(* What has been copied stays: another publisher finds the path taken.      *)
CopiedLies ==
  \A i \in 1..Len(chosen) :
    step \in {"manifest", "write", "index"} \/ (step = "copy" /\ i < position) => Lies(i)

(* What is chosen was published at some moment of this export.              *)
ChosenEver == step # "idle" => Published \union Chosen \subseteq ever

(* Before anything fails, the site holds the notes that the manifest lists, *)
(* less those removed, and then those copied.                               *)
CleanSite ==
  failures = 0 =>
    /\ step \in {"idle", "index"} => manifest = Held
    /\ step = "remove" => owned = Held
    /\ step = "look" => Held = {}
    /\ step = "copy" =>
         \A p \in Held : p # Index /\ \E i \in 1..Len(chosen) : i < position /\ p = PathOf[chosen[i]]
    /\ step \in {"manifest", "write"} => Exported = Held
    /\ step \in {"copy", "manifest", "write", "index"} => \A p \in Held : site[p] \in ever

ExportInv == Types /\ AlwaysChosen /\ CopiedLies /\ ChosenEver /\ CleanSite

-----------------------------------------------------------------------------
(* Types                                                                    *)

LEMMA Orders ==
  /\ Len(NoteOrder) \in Nat
  /\ \A i \in 1..Len(NoteOrder) : NoteOrder[i] \in Notes
  /\ \A n \in Notes : PathOf[n] \in Paths
  /\ \A n \in Notes : \E i \in 1..Len(NoteOrder) : n = NoteOrder[i]
BY DEF Notes

LEMMA ChosenAreNotes ==
  ASSUME Types
  PROVE  /\ Len(chosen) \in Nat
         /\ \A i \in 1..Len(chosen) : chosen[i] \in Notes /\ PathOf[chosen[i]] \in Paths
         /\ Chosen \subseteq Notes
         /\ Exported \subseteq Paths
BY DEF Types, Chosen, Exported

LEMMA ChosenGrows ==
  ASSUME Types, NEW n \in Notes, chosen' = Append(chosen, n)
  PROVE  Chosen' = Chosen \union {n}
<1>1. Len(chosen') = Len(chosen) + 1 /\ Len(chosen) \in Nat
  BY DEF Types
<1>2. \A i \in 1..Len(chosen) : chosen'[i] = chosen[i]
  BY DEF Types
<1>3. chosen'[Len(chosen) + 1] = n
  BY DEF Types
<1>4. \A i \in 1..Len(chosen') : i \in 1..Len(chosen) \/ i = Len(chosen) + 1
  BY <1>1
<1>5. \A i \in 1..Len(chosen) : i \in 1..Len(chosen')
  BY <1>1
<1>6. Len(chosen) + 1 \in 1..Len(chosen')
  BY <1>1
<1>7. QED
  BY <1>2, <1>3, <1>4, <1>5, <1>6 DEF Chosen

(* A note that is looked at is chosen or passed over.                       *)
LEMMA CollectsOne ==
  ASSUME Types, Collect, position <= Len(NoteOrder)
  PROVE  /\ NoteOrder[position] \in Notes
         /\ step = "look" /\ step' = "look" /\ position' = position + 1
         /\ UNCHANGED <<published, site, manifest, owned, ever>>
         /\ failures' >= failures
         /\ \/ published[NoteOrder[position]] /\ chosen' = Append(chosen, NoteOrder[position])
               /\ always' = always
            \/ ~published[NoteOrder[position]] /\ chosen' = chosen /\ always' = always
            \/ chosen' = chosen /\ always' = always \ {NoteOrder[position]}
<1>1. NoteOrder[position] \in Notes
  BY Orders DEF Types
<1>2. ~(position > Len(NoteOrder))
  BY Orders DEF Types
<1>3. QED
  BY <1>1, <1>2 DEF Collect, Types, Counted

LEMMA CollectsAll ==
  ASSUME Types, Collect, ~(position <= Len(NoteOrder))
  PROVE  /\ position > Len(NoteOrder)
         /\ step = "look" /\ step' = "copy" /\ position' = 1
         /\ UNCHANGED <<published, site, manifest, owned, ever, chosen, always, failures>>
BY Orders DEF Collect, Types

LEMMA TypesInit ==
  ASSUME Init
  PROVE  Types
<1>1. <<>> \in Seq(Notes)
  OBVIOUS
<1>2. QED
  BY <1>1 DEF Init, Types, Counted, Steps

LEMMA TypesNext ==
  ASSUME Types, ExportStep, Counted'
  PROVE  Types'
<1> USE DEF Types
<1>1. CASE Flips
  <2>1. PICK n \in Notes, value \in BOOLEAN : Flag(n, value)
    BY <1>1 DEF Flips
  <2>2. ever' \subseteq Notes /\ always' \subseteq Notes
    BY <2>1 DEF Flag
  <2>3. QED
    BY <1>1, <2>2 DEF Flips, export
<1>2. CASE Elsewhere
  BY <1>2 DEF Elsewhere, export
<1>3. CASE Adds
  BY <1>3 DEF Adds, PublishForeign, export
<1>4. CASE Stops
  <2>1. <<>> \in Seq(Notes)
    OBVIOUS
  <2>2. QED
    BY <1>4, <2>1 DEF Stops, Steps
<1>5. CASE Start
  <2>1. manifest \subseteq Paths /\ owned' = manifest
    BY <1>5 DEF Start
  <2>2. ever' \subseteq Notes /\ always' \subseteq Notes
    BY <1>5 DEF Start, Published
  <2>3. step' = "remove" /\ position' = 1 /\ chosen' = <<>>
        /\ UNCHANGED <<site, manifest>>
    BY <1>5 DEF Start
  <2>4. <<>> \in Seq(Notes)
    OBVIOUS
  <2>5. QED
    BY <2>1, <2>2, <2>3, <2>4 DEF Steps
<1>6. CASE RemoveOwned
  BY <1>6 DEF RemoveOwned, Removable, Steps
<1>7. CASE Collect /\ position <= Len(NoteOrder)
  <2>1. Append(chosen, NoteOrder[position]) \in Seq(Notes)
    BY <1>7, CollectsOne
  <2>2. chosen' \in Seq(Notes) /\ always' \subseteq Notes
    BY <1>7, <2>1, CollectsOne
  <2>3. step' = "look" /\ position' \in Nat \ {0} /\ UNCHANGED <<site, manifest, owned, ever>>
    BY <1>7, CollectsOne
  <2>4. QED
    BY <2>2, <2>3 DEF Steps
<1>8. CASE Collect /\ ~(position <= Len(NoteOrder))
  BY <1>8, CollectsAll DEF Steps
<1>9. CASE Copy
  <2>1. CASE position > Len(chosen)
    BY <1>9, <2>1 DEF Copy, Steps
  <2>2. CASE ~(position > Len(chosen))
    <3>1. chosen[position] \in Notes
      BY <2>2, ChosenAreNotes
    <3>2. site' \in [Paths -> Notes \union {Nothing, Foreign, Default}]
      BY <1>9, <2>2, <3>1 DEF Copy
    <3>3. QED
      BY <1>9, <2>2, <3>2 DEF Copy, Steps
  <2>3. QED
    BY <2>1, <2>2
<1>10. CASE TruncateManifest
  <2>1. manifest' = Broken /\ step' = "write"
        /\ UNCHANGED <<site, owned, position, chosen, ever, always>>
    BY <1>10 DEF TruncateManifest
  <2>2. manifest' \in (SUBSET Paths) \union {Broken}
    BY <2>1
  <2>3. QED
    BY <2>1, <2>2 DEF Steps
<1>11. CASE WriteManifest
  BY <1>11, ChosenAreNotes DEF WriteManifest, Steps
<1>12. CASE EnsureIndex
  <2>1. <<>> \in Seq(Notes)
    OBVIOUS
  <2>2. QED
    BY <1>12, <2>1 DEF EnsureIndex, Steps
<1>13. QED
  BY <1>1, <1>2, <1>3, <1>4, <1>5, <1>6, <1>7, <1>8, <1>9, <1>10, <1>11, <1>12
     DEF ExportStep, Export

-----------------------------------------------------------------------------
(* The parts of the invariant                                               *)

LEMMA AlwaysChosenNext ==
  ASSUME Types, AlwaysChosen, ExportStep, Types'
  PROVE  AlwaysChosen'
<1>1. CASE Flips
  <2>1. PICK n \in Notes, value \in BOOLEAN : Flag(n, value)
    BY <1>1 DEF Flips
  <2>2. always' \subseteq always
    BY <2>1 DEF Flag
  <2>3. always' \subseteq Published'
    BY <2>1 DEF Flag, AlwaysChosen, Published, Types, Counted
  <2>4. UNCHANGED <<step, position, chosen, Chosen>>
    BY <1>1 DEF Flips, export, Chosen
  <2>5. QED
    BY <2>2, <2>3, <2>4 DEF AlwaysChosen
<1>2. CASE Elsewhere \/ Adds
  BY <1>2 DEF Elsewhere, Adds, PublishForeign, export, AlwaysChosen, Published, Chosen
<1>3. CASE Stops
  BY <1>3 DEF Stops, AlwaysChosen
<1>4. CASE Start
  BY <1>4 DEF Start, AlwaysChosen, Published
<1>5. CASE RemoveOwned
  <2>1. step' \in {"remove", "look"} /\ position' = 1 /\ UNCHANGED <<published, always>>
    BY <1>5 DEF RemoveOwned, Types
  <2>2. \A i \in 1..Len(NoteOrder) : ~(i < 1)
    BY Orders
  <2>3. QED
    BY <2>1, <2>2 DEF AlwaysChosen, Published
<1>6. CASE Collect /\ position <= Len(NoteOrder)
  <2> DEFINE n == NoteOrder[position]
  <2>1. always' \subseteq always /\ Published' = Published /\ step = "look" /\ step' = "look"
    BY <1>6, CollectsOne DEF Published
  <2>2. Chosen' = Chosen \/ Chosen' = Chosen \union {n}
    BY <1>6, CollectsOne, ChosenGrows DEF Chosen
  <2>3. n \in always' => n \in Chosen'
    <3>1. CASE published[n] /\ chosen' = Append(chosen, n)
      BY <1>6, <3>1, CollectsOne, ChosenGrows
    <3>2. CASE ~published[n] /\ always' = always
      BY <3>2 DEF AlwaysChosen, Published
    <3>3. CASE always' = always \ {n}
      BY <3>3
    <3>4. QED
      BY <1>6, <3>1, <3>2, <3>3, CollectsOne
  <2>4. \A i \in 1..Len(NoteOrder) : i < position' => i < position \/ i = position
    BY <1>6, CollectsOne DEF Types
  <2>5. QED
    BY <2>1, <2>2, <2>3, <2>4 DEF AlwaysChosen
<1>7. CASE Collect /\ ~(position <= Len(NoteOrder))
  <2>1. \A i \in 1..Len(NoteOrder) : i < position
    BY <1>7, CollectsAll, Orders DEF Types
  <2>2. ASSUME NEW m \in always PROVE m \in Chosen
    <3>1. PICK i \in 1..Len(NoteOrder) : m = NoteOrder[i]
      BY Orders DEF Types
    <3>2. QED
      BY <1>7, <2>1, <3>1, CollectsAll DEF AlwaysChosen
  <2>3. UNCHANGED <<always, Chosen, Published>> /\ step' = "copy"
    BY <1>7, CollectsAll DEF Chosen, Published
  <2>4. QED
    BY <2>2, <2>3 DEF AlwaysChosen
<1>8. CASE Copy \/ TruncateManifest \/ WriteManifest
  <2>1. step \in {"copy", "manifest", "write"} /\ step' \in {"copy", "manifest", "write", "index"}
        /\ UNCHANGED <<published, always, chosen>>
    BY <1>8 DEF Copy, TruncateManifest, WriteManifest
  <2>2. QED
    BY <2>1 DEF AlwaysChosen, Published, Chosen
<1>9. CASE EnsureIndex
  BY <1>9 DEF EnsureIndex, AlwaysChosen
<1>10. QED
  BY <1>1, <1>2, <1>3, <1>4, <1>5, <1>6, <1>7, <1>8, <1>9 DEF ExportStep, Export

LEMMA CopiedLiesNext ==
  ASSUME Types, CopiedLies, ExportStep, Types'
  PROVE  CopiedLies'
<1>1. CASE Flips \/ Elsewhere
  BY <1>1 DEF Flips, Elsewhere, export, CopiedLies, Lies
<1>2. CASE Adds
  <2>1. \A p \in Paths : site[p] \in Notes => site'[p] \in Notes
    BY <1>2 DEF Adds, PublishForeign, Types
  <2>2. UNCHANGED <<step, position, chosen>>
    BY <1>2 DEF Adds, PublishForeign, export
  <2>3. QED
    BY <2>1, <2>2, ChosenAreNotes DEF CopiedLies, Lies
<1>3. CASE Stops \/ Start \/ RemoveOwned \/ EnsureIndex
  <2>1. step' \notin {"copy", "manifest", "write", "index"}
    BY <1>3 DEF Stops, Start, RemoveOwned, EnsureIndex
  <2>2. QED
    BY <2>1 DEF CopiedLies
<1>4. CASE Collect
  <2>1. step' = "look" \/ (step' = "copy" /\ position' = 1)
    BY <1>4 DEF Collect
  <2>2. \A i \in 1..Len(chosen') : ~(i < 1)
    BY DEF Types
  <2>3. QED
    BY <2>1, <2>2 DEF CopiedLies
<1>5. CASE Copy /\ position > Len(chosen)
  <2>1. \A i \in 1..Len(chosen) : i < position
    BY <1>5 DEF Types
  <2>2. step = "copy" /\ UNCHANGED <<site, chosen>>
    BY <1>5 DEF Copy
  <2>3. QED
    BY <2>1, <2>2 DEF CopiedLies, Lies
<1>6. CASE Copy /\ ~(position > Len(chosen))
  <2>1. step = "copy" /\ step' = "copy" /\ chosen' = chosen /\ position' = position + 1
        /\ site' = IF PathOf[chosen[position]] = Index THEN site
                   ELSE [site EXCEPT ![PathOf[chosen[position]]] = chosen[position]]
    BY <1>6 DEF Copy
  <2>2. position \in 1..Len(chosen) /\ chosen[position] \in Notes /\ PathOf[chosen[position]] \in Paths
    BY <1>6, ChosenAreNotes DEF Types
  <2>3. \A p \in Paths : site[p] \in Notes => site'[p] \in Notes
    BY <2>1, <2>2 DEF Types
  <2>4. PathOf[chosen[position]] = Index \/ site'[PathOf[chosen[position]]] \in Notes
    BY <2>1, <2>2 DEF Types
  <2>5. \A i \in 1..Len(chosen) : i < position' => i < position \/ i = position
    BY <2>1 DEF Types
  <2>6. QED
    BY <2>1, <2>3, <2>4, <2>5, ChosenAreNotes DEF CopiedLies, Lies
<1>7. CASE TruncateManifest \/ WriteManifest
  <2>1. step \in {"manifest", "write"} /\ UNCHANGED <<site, chosen>>
    BY <1>7 DEF TruncateManifest, WriteManifest
  <2>2. QED
    BY <2>1 DEF CopiedLies, Lies
<1>8. QED
  BY <1>1, <1>2, <1>3, <1>4, <1>5, <1>6, <1>7 DEF ExportStep, Export

LEMMA ChosenEverNext ==
  ASSUME Types, ChosenEver, ExportStep, Types'
  PROVE  ChosenEver'
<1>1. CASE Flips
  <2>1. PICK n \in Notes, value \in BOOLEAN : Flag(n, value)
    BY <1>1 DEF Flips
  <2>2. ever \subseteq ever'
    BY <2>1 DEF Flag
  <2>3. step # "idle" /\ ~(n \in ever') => ~value
    BY <2>1 DEF Flag
  <2>4. \A m \in Published' : (m = n /\ value) \/ m \in Published
    BY <2>1 DEF Flag, Published, Types, Counted
  <2>5. UNCHANGED <<step, Chosen>>
    BY <1>1 DEF Flips, export, Chosen
  <2>6. QED
    BY <2>2, <2>3, <2>4, <2>5 DEF ChosenEver
<1>2. CASE Elsewhere \/ Adds
  BY <1>2 DEF Elsewhere, Adds, PublishForeign, export, ChosenEver, Published, Chosen
<1>3. CASE Stops \/ EnsureIndex
  BY <1>3 DEF Stops, EnsureIndex, ChosenEver
<1>4. CASE Start
  <2>1. chosen' = <<>> /\ ever' = Published /\ Published' = Published
    BY <1>4 DEF Start, Types, Published
  <2>2. Chosen' = {}
    BY <2>1 DEF Chosen
  <2>3. QED
    BY <2>1, <2>2 DEF ChosenEver
<1>5. CASE RemoveOwned \/ Copy \/ TruncateManifest \/ WriteManifest
  <2>1. step # "idle" /\ UNCHANGED <<published, chosen, ever>>
    BY <1>5 DEF RemoveOwned, Copy, TruncateManifest, WriteManifest
  <2>2. QED
    BY <2>1 DEF ChosenEver, Published, Chosen
<1>6. CASE Collect /\ position <= Len(NoteOrder)
  <2> DEFINE n == NoteOrder[position]
  <2>1. Published' = Published /\ ever' = ever /\ step # "idle"
    BY <1>6, CollectsOne DEF Published
  <2>2. Chosen' = Chosen \/ (published[n] /\ n \in Notes /\ Chosen' = Chosen \union {n})
    BY <1>6, CollectsOne, ChosenGrows DEF Chosen
  <2>3. QED
    BY <2>1, <2>2 DEF ChosenEver, Published
<1>7. CASE Collect /\ ~(position <= Len(NoteOrder))
  BY <1>7, CollectsAll DEF ChosenEver, Published, Chosen
<1>8. QED
  BY <1>1, <1>2, <1>3, <1>4, <1>5, <1>6, <1>7 DEF ExportStep, Export

(* Unless an export removes or copies, the same paths hold notes.           *)
LEMMA SameHeld ==
  ASSUME Types, Flips \/ Elsewhere \/ Adds \/ EnsureIndex
  PROVE  /\ Held' = Held
         /\ \A p \in Held : site'[p] = site[p]
<1>1. \A p \in Paths : site'[p] = site[p] \/ (site[p] = Nothing /\ site'[p] \in {Foreign, Default})
  BY DEF Types, Flips, Elsewhere, Adds, PublishForeign, EnsureIndex
<1>2. QED
  BY <1>1 DEF Held

LEMMA CleanSiteNext ==
  ASSUME Types, CopiedLies, ChosenEver, CleanSite, ExportStep, Types', CopiedLies'
  PROVE  CleanSite'
<1>0. SUFFICES ASSUME failures' = 0 PROVE CleanSite'
  BY DEF CleanSite
<1>1. failures = 0
  <2>1. failures \in Nat /\ failures' \in Nat
    BY DEF Types, Counted
  <2>2. CASE Flips \/ Elsewhere \/ Stops
    BY <1>0, <2>1, <2>2 DEF Flips, Elsewhere, Stops
  <2>3. CASE Adds \/ Start \/ RemoveOwned \/ Copy \/ TruncateManifest \/ WriteManifest \/ EnsureIndex
    BY <1>0, <2>3 DEF Adds, PublishForeign, Start, RemoveOwned, Copy, TruncateManifest,
       WriteManifest, EnsureIndex
  <2>4. CASE Collect
    BY <1>0, <2>1, <2>4 DEF Collect
  <2>5. QED
    BY <2>2, <2>3, <2>4 DEF ExportStep, Export
<1>2. CASE Flips \/ Elsewhere \/ Adds
  <2>1. UNCHANGED <<manifest, step, owned, position, chosen>> /\ ever \subseteq ever'
    BY <1>2 DEF Flips, Flag, Elsewhere, Adds, PublishForeign, export
  <2>2. UNCHANGED Exported
    BY <2>1 DEF Exported
  <2>3. Held' = Held /\ \A p \in Held : site'[p] = site[p]
    BY <1>2, SameHeld
  <2>4. QED
    BY <1>1, <2>1, <2>2, <2>3 DEF CleanSite
<1>3. CASE Stops
  BY <1>0, <1>3 DEF Stops
<1>4. CASE Start
  <2>1. step = "idle" /\ step' = "remove" /\ owned' = manifest /\ Held' = Held
    BY <1>4 DEF Start, Held
  <2>2. QED
    BY <1>1, <2>1 DEF CleanSite
<1>5. CASE RemoveOwned
  <2>1. CASE owned = {}
    <3>1. step = "remove" /\ step' = "look" /\ Held' = Held
      BY <1>5, <2>1 DEF RemoveOwned, Removable, Held
    <3>2. QED
      BY <1>1, <2>1, <3>1 DEF CleanSite
  <2>2. CASE owned # {}
    <3>1. PICK p \in owned : site' = [site EXCEPT ![p] = Nothing] /\ owned' = owned \ {p}
      BY <1>5, <2>2 DEF RemoveOwned, Removable
    <3>2. step = "remove" /\ step' = "remove"
      BY <1>5, <2>2 DEF RemoveOwned, Removable
    <3>3. Held' = Held \ {p}
      BY <3>1 DEF Held, Types
    <3>4. QED
      BY <1>1, <3>1, <3>2, <3>3 DEF CleanSite
  <2>3. QED
    BY <2>1, <2>2
<1>6. CASE Collect
  <2>1. step = "look" /\ step' \in {"look", "copy"} /\ Held' = Held
    BY <1>6 DEF Collect, Held
  <2>2. QED
    BY <1>1, <2>1 DEF CleanSite
<1>7. CASE Copy /\ position > Len(chosen)
  <2>1. step = "copy" /\ step' = "manifest"
        /\ UNCHANGED <<site, chosen, ever, Held, Exported>>
    BY <1>7 DEF Copy, Held, Exported
  <2>2. Held \subseteq Exported
    BY <1>1, <2>1 DEF CleanSite, Exported
  <2>3. \A i \in 1..Len(chosen) : Lies(i)
    BY <1>7, <2>1 DEF CopiedLies, Types
  <2>4. Exported \subseteq Held
    BY <2>3, ChosenAreNotes DEF Exported, Held, Lies
  <2>5. QED
    BY <1>1, <2>1, <2>2, <2>4 DEF CleanSite
<1>8. CASE Copy /\ ~(position > Len(chosen))
  <2> DEFINE n == chosen[position]
  <2>1. step = "copy" /\ step' = "copy" /\ chosen' = chosen /\ position' = position + 1
        /\ ever' = ever
        /\ site' = IF PathOf[n] = Index THEN site ELSE [site EXCEPT ![PathOf[n]] = n]
    BY <1>8 DEF Copy
  <2>2. position \in 1..Len(chosen) /\ n \in Notes /\ n \in ever
    BY <1>8, <2>1, ChosenAreNotes DEF Types, ChosenEver, Chosen
  <2>3. ASSUME NEW p \in Held'
        PROVE  /\ p # Index
               /\ \E i \in 1..Len(chosen) : i < position' /\ p = PathOf[chosen[i]]
               /\ site'[p] \in ever
    <3>1. CASE p = PathOf[n] /\ p # Index
      <4>1. site'[p] = n
        BY <2>1, <3>1 DEF Held, Types
      <4>2. position < position'
        BY <2>1 DEF Types
      <4>3. QED
        BY <2>2, <3>1, <4>1, <4>2
    <3>2. CASE ~(p = PathOf[n] /\ p # Index)
      <4>1. site'[p] = site[p] /\ p \in Held
        BY <2>1, <3>2 DEF Held, Types
      <4>2. p # Index /\ site[p] \in ever
        BY <1>1, <2>1, <4>1 DEF CleanSite
      <4>3. PICK i \in 1..Len(chosen) : i < position /\ p = PathOf[chosen[i]]
        BY <1>1, <2>1, <4>1 DEF CleanSite
      <4>4. i < position'
        BY <2>1, <4>3 DEF Types
      <4>5. QED
        BY <4>1, <4>2, <4>3, <4>4
    <3>3. QED
      BY <3>1, <3>2
  <2>4. QED
    BY <2>1, <2>3 DEF CleanSite
<1>9. CASE TruncateManifest
  <2>1. step = "manifest" /\ step' = "write" /\ UNCHANGED <<site, ever, Held, Exported>>
    BY <1>9 DEF TruncateManifest, Held, Exported
  <2>2. QED
    BY <1>1, <2>1 DEF CleanSite
<1>10. CASE WriteManifest
  <2>1. step = "write" /\ step' = "index" /\ manifest' = Exported /\ UNCHANGED <<site, ever, Held>>
    BY <1>10 DEF WriteManifest, Held
  <2>2. QED
    BY <1>1, <2>1 DEF CleanSite
<1>11. CASE EnsureIndex
  <2>1. step = "index" /\ step' = "idle" /\ manifest' = manifest /\ Held' = Held
    BY <1>11, SameHeld DEF EnsureIndex
  <2>2. QED
    BY <1>1, <2>1 DEF CleanSite
<1>12. QED
  BY <1>2, <1>3, <1>4, <1>5, <1>6, <1>7, <1>8, <1>9, <1>10, <1>11 DEF ExportStep, Export

LEMMA ExportInvInit ==
  ASSUME Init
  PROVE  ExportInv
<1>1. Types
  BY TypesInit
<1>2. AlwaysChosen /\ CopiedLies
  BY DEF Init, AlwaysChosen, CopiedLies
<1>3. ChosenEver
  BY DEF Init, ChosenEver
<1>4. CleanSite
  <2>1. \A p \in Paths : site[p] = Nothing
    BY DEF Init
  <2>2. Held = {}
    BY <2>1 DEF Held
  <2>3. QED
    BY <2>2 DEF Init, CleanSite
<1>5. QED
  BY <1>1, <1>2, <1>3, <1>4 DEF ExportInv

LEMMA ExportInvNext ==
  ASSUME ExportInv, ExportStep, Counted'
  PROVE  ExportInv'
<1>1. Types'
  BY TypesNext DEF ExportInv
<1>2. AlwaysChosen' /\ CopiedLies' /\ ChosenEver'
  BY <1>1, AlwaysChosenNext, CopiedLiesNext, ChosenEverNext DEF ExportInv
<1>3. CleanSite'
  BY <1>1, <1>2, CleanSiteNext DEF ExportInv
<1>4. QED
  BY <1>1, <1>2, <1>3 DEF ExportInv

-----------------------------------------------------------------------------
(* What the invariant gives of each step                                    *)

LEMMA CompletesIndex ==
  ASSUME Types, ExportStep, Completes
  PROVE  step = "index" /\ (EnsureIndex \/ Stops)
<1>1. ~(Flips \/ Elsewhere \/ Adds)
  BY DEF Completes, Flips, Elsewhere, Adds, PublishForeign, export
<1>2. ~(Start \/ RemoveOwned \/ Collect \/ Copy \/ TruncateManifest \/ WriteManifest)
  BY DEF Completes, Start, RemoveOwned, Collect, Copy, TruncateManifest, WriteManifest
<1>3. QED
  BY <1>1, <1>2 DEF ExportStep, Export, Completes

LEMMA ArriveStep ==
  ASSUME ExportInv, ExportStep, Completes
  PROVE  \A n \in always : PathOf[n] = Index \/ site'[PathOf[n]] \in Notes
<1>1. step = "index" /\ (EnsureIndex \/ Stops)
  BY CompletesIndex DEF ExportInv
<1>2. \A p \in Paths : site[p] \in Notes => site'[p] \in Notes
  <2>1. CASE EnsureIndex
    BY <2>1, SameHeld DEF Held, ExportInv
  <2>2. CASE Stops
    BY <2>2 DEF Stops
  <2>3. QED
    BY <1>1, <2>1, <2>2
<1>3. ASSUME NEW n \in always PROVE PathOf[n] = Index \/ site'[PathOf[n]] \in Notes
  <2>1. n \in Chosen
    BY <1>1 DEF ExportInv, AlwaysChosen
  <2>2. PICK i \in 1..Len(chosen) : n = chosen[i]
    BY <2>1 DEF Chosen
  <2>3. Lies(i)
    BY <1>1 DEF ExportInv, CopiedLies
  <2>4. PathOf[n] \in Paths
    BY <2>2, ChosenAreNotes DEF ExportInv
  <2>5. QED
    BY <1>2, <2>2, <2>3, <2>4 DEF Lies
<1>4. QED
  BY <1>3

LEMMA LeaveStep ==
  ASSUME ExportInv, ExportStep, Completes, failures = 0
  PROVE  OnlyPublished
<1>1. step = "index" /\ (EnsureIndex \/ Stops)
  BY CompletesIndex DEF ExportInv
<1>2. \A p \in Paths : site'[p] \in Notes => site[p] \in Notes /\ site'[p] = site[p]
  <2>1. CASE EnsureIndex
    BY <2>1, SameHeld DEF Held, ExportInv
  <2>2. CASE Stops
    BY <2>2 DEF Stops
  <2>3. QED
    BY <1>1, <2>1, <2>2
<1>3. QED
  BY <1>1, <1>2 DEF OnlyPublished, ExportInv, CleanSite, Held

LEMMA ForeignStep ==
  ASSUME ExportInv, ExportStep, NEW p \in Paths, site[p] = Foreign, site'[p] # Foreign
  PROVE  failures > 0 \/ (step = "copy" /\ site'[p] \in ever)
<1>1. Foreign \notin Notes /\ Nothing # Foreign
  OBVIOUS
<1>2. SUFFICES ASSUME failures = 0 PROVE step = "copy" /\ site'[p] \in ever
  BY DEF ExportInv, Types, Counted
<1>3. ~(Flips \/ Elsewhere \/ Stops \/ Start \/ Collect \/ TruncateManifest \/ WriteManifest)
  BY DEF Flips, Elsewhere, Stops, Start, Collect, TruncateManifest, WriteManifest
<1>4. ~Adds /\ ~EnsureIndex
  BY <1>1 DEF Adds, PublishForeign, EnsureIndex, ExportInv, Types
<1>5. ~RemoveOwned
  <2>1. SUFFICES ASSUME RemoveOwned PROVE FALSE
    OBVIOUS
  <2>2. owned = Held
    BY <1>2, <2>1 DEF RemoveOwned, ExportInv, CleanSite
  <2>3. PICK q \in owned : site' = [site EXCEPT ![q] = Nothing]
    BY <2>1 DEF RemoveOwned, Removable
  <2>4. p # q
    BY <1>1, <2>2, <2>3 DEF Held
  <2>5. QED
    BY <2>3, <2>4 DEF ExportInv, Types
<1>6. Copy
  BY <1>3, <1>4, <1>5 DEF ExportStep, Export
<1>7. CASE position > Len(chosen)
  BY <1>6, <1>7 DEF Copy
<1>8. CASE ~(position > Len(chosen))
  <2> DEFINE n == chosen[position]
  <2>1. step = "copy"
        /\ site' = IF PathOf[n] = Index THEN site ELSE [site EXCEPT ![PathOf[n]] = n]
    BY <1>6, <1>8 DEF Copy
  <2>2. p = PathOf[n] /\ site'[p] = n
    BY <2>1 DEF ExportInv, Types
  <2>3. position \in 1..Len(chosen)
    BY <1>8, ChosenAreNotes DEF ExportInv, Types
  <2>4. n \in ever
    BY <2>1, <2>3 DEF ExportInv, ChosenEver, Chosen
  <2>5. QED
    BY <2>1, <2>2, <2>4
<1>9. QED
  BY <1>7, <1>8

-----------------------------------------------------------------------------
(* The export of VaultExport                                                *)

LEMMA SpecExportInv == Spec => []ExportInv
<1>1. Init => ExportInv
  BY ExportInvInit
<1>2. ExportInv /\ [Next]_vars => ExportInv'
  BY StepOfExport, ExportInvNext DEF ExportInv, Types
<1>3. QED
  BY <1>1, <1>2, PTL DEF Spec

Word ==
  /\ Completes => \A n \in always : PathOf[n] = Index \/ site'[PathOf[n]] \in Notes
  /\ Completes /\ failures = 0 => OnlyPublished
  /\ \A p \in Paths :
       site[p] = Foreign /\ site'[p] # Foreign
         => failures > 0 \/ (step = "copy" /\ site'[p] \in ever)

LEMMA StepKeepsWord ==
  ASSUME ExportInv, ExportStep
  PROVE  Word
BY ArriveStep, LeaveStep, ForeignStep DEF Word

(* publish_vault.export, whatever is toggled, cut short or published beside *)
(* it: an export that completes has brought every note published all along  *)
(* to its path, and, before anything fails, only notes published at some    *)
(* moment of it.                                                            *)
THEOREM ExportKeepsItsWord == Spec => PublishedArrive /\ UnpublishedLeaveUncut
<1>1. ExportInv /\ [Next]_vars => Word
  BY StepOfExport, StepKeepsWord DEF ExportInv, Types, Word
<1>2. QED
  BY <1>1, SpecExportInv, PTL
     DEF Spec, PublishedArrive, UnpublishedLeaveUncut, Word

-----------------------------------------------------------------------------
(* The threads of set_publish, the lists and the notes                      *)

NoteTypes ==
  /\ toggles \in Nat /\ edits \in Nat
  /\ rows \in [Sessions -> [Notes -> BOOLEAN] \union {NoRows}]
  /\ waiting \in Nat
  /\ Threads
  /\ text \in [Notes -> Nat]
  /\ published \in [Notes -> BOOLEAN]

LeftType == left \in [Notes -> [text : Nat, flag : BOOLEAN] \union {Disturbed}]

(* A thread belongs to a tap that there was; the list of the tap that the   *)
(* bot waits for is open.                                                   *)
TapsInv ==
  /\ \A t \in Taps : t > toggles => thread[t] = NoThread
  /\ waiting \in Taps => thread[waiting] # NoThread /\ rows[thread[waiting].from] # NoRows

(* What a thread that works undisturbed has done to the note.               *)
Progress(n, t) ==
  /\ waiting = t
  /\ thread[t].at \in {"sent", "read"} => text[n] = left[n].text /\ published[n] = left[n].flag
  /\ thread[t].at \in {"read", "open"} => thread[t].text = left[n].text
  /\ thread[t].at = "written" => text[n] = left[n].text /\ published[n] = thread[t].value

Undisturbed(n) ==
  /\ Busy(n) = {} => text[n] = left[n].text /\ published[n] = left[n].flag
  /\ \A t \in Busy(n) : Progress(n, t)

LeftInv == \A n \in Notes : left[n] # Disturbed => Undisturbed(n)

LEMMA JobOf ==
  ASSUME Threads, NEW t \in Taps, thread[t].at # "none"
  PROVE  /\ thread[t] \in Jobs /\ thread[t] # NoThread
         /\ thread[t].at \in {"sent", "read", "open", "written"}
         /\ thread[t].note \in Notes /\ thread[t].value \in BOOLEAN
         /\ thread[t].from \in Sessions /\ thread[t].text \in Nat
<1>1. thread[t] # NoThread
  BY DEF NoThread
<1>2. thread[t] \in Jobs
  BY <1>1 DEF Threads
<1>3. QED
  BY <1>1, <1>2 DEF Jobs

LEMMA Idle ==
  ASSUME Threads, NEW t \in Taps, thread[t].at = "none"
  PROVE  thread[t] = NoThread
<1>1. thread[t] \notin Jobs
  BY DEF Jobs
<1>2. QED
  BY <1>1 DEF Threads

LEMMA Proceeds ==
  ASSUME Threads, NEW t \in Taps, NEW from, NEW to, NEW read, Proceed(t, from, to, read),
         from # "none", to \in {"sent", "read", "open", "written"}, read \in Nat
  PROVE  /\ thread[t] \in Jobs /\ thread[t].at = from /\ Threads'
         /\ thread'[t].at = to /\ thread'[t].text = read
         /\ thread'[t].value = thread[t].value /\ thread'[t].from = thread[t].from
         /\ \A u \in Taps : u # t => thread'[u] = thread[u]
         /\ \A n \in Notes : Busy(n)' = Busy(n)
<1>1. thread[t].at = from /\ thread[t].at # "none"
  BY DEF Proceed
<1>2. thread[t] \in Jobs /\ thread[t].note \in Notes /\ thread[t].value \in BOOLEAN
      /\ thread[t].from \in Sessions
  BY <1>1, JobOf
<1> DEFINE job == [at |-> to, note |-> thread[t].note, value |-> thread[t].value,
                   from |-> thread[t].from, text |-> read]
<1>3. job \in Jobs
  BY <1>2 DEF Jobs
<1>4. thread' = [thread EXCEPT ![t] = job]
  BY DEF Proceed
<1>5. /\ job.note = thread[t].note /\ job.value = thread[t].value /\ job.from = thread[t].from
      /\ job.at = to /\ job.at # "none" /\ job.text = read
  OBVIOUS
<1> HIDE DEF job
<1>6. Threads' /\ thread'[t] = job /\ \A u \in Taps : u # t => thread'[u] = thread[u]
  BY <1>3, <1>4 DEF Threads
<1>7. \A n \in Notes : Busy(n)' = Busy(n)
  BY <1>1, <1>5, <1>6 DEF Busy
<1>8. QED
  BY <1>1, <1>2, <1>5, <1>6, <1>7

(* t ends.                                                                  *)
LEMMA Ends ==
  ASSUME Threads, NEW t \in Taps, thread' = [thread EXCEPT ![t] = NoThread]
  PROVE  /\ Threads' /\ thread'[t] = NoThread
         /\ \A u \in Taps : u # t => thread'[u] = thread[u]
         /\ \A n \in Notes : Busy(n)' = Busy(n) \ {t}
<1>1. Threads' /\ thread'[t] = NoThread /\ \A u \in Taps : u # t => thread'[u] = thread[u]
  BY DEF Threads
<1>2. thread'[t].at = "none"
  BY <1>1 DEF NoThread
<1>3. QED
  BY <1>1, <1>2 DEF Busy

(* A new tap: its thread is busy with n.                                    *)
LEMMA Begins ==
  ASSUME NoteTypes, TapsInv, NEW s \in Sessions, NEW n \in Notes, Toggle(s, n)
  PROVE  /\ toggles' = toggles + 1 /\ toggles' \in Taps /\ waiting' = toggles' /\ Threads'
         /\ thread'[toggles'].at = "sent" /\ thread'[toggles'] # NoThread
         /\ thread'[toggles'].from = s
         /\ \A u \in Taps : u # toggles' => thread'[u] = thread[u]
         /\ Busy(n)' = Busy(n) \union {toggles'}
         /\ \A m \in Notes : m # n => Busy(m)' = Busy(m)
<1> DEFINE t == toggles + 1
           job == [at |-> "sent", note |-> n, value |-> ~rows[s][n], from |-> s, text |-> 0]
<1>1. t \in Taps /\ toggles' = t /\ waiting' = t /\ thread[t] = NoThread
  BY DEF Toggle, Taps, NoteTypes, TapsInv
<1>2. thread' = [thread EXCEPT ![t] = job]
  BY DEF Toggle
<1>3. rows[s] \in [Notes -> BOOLEAN]
  BY DEF Toggle, Open, NoteTypes
<1>4. job \in Jobs
  <2>1. (~rows[s][n]) = TRUE \/ (~rows[s][n]) = FALSE
    BY <1>3
  <2>2. QED
    BY <2>1 DEF Jobs
<1>5. job.note = n /\ job.at = "sent" /\ job.from = s
  OBVIOUS
<1>6. thread[t].at = "none" /\ job # NoThread
  BY <1>1, <1>5 DEF NoThread
<1> HIDE DEF job, t
<1>7. Threads' /\ thread'[t] = job /\ \A u \in Taps : u # t => thread'[u] = thread[u]
  BY <1>1, <1>2, <1>4 DEF Threads, NoteTypes
<1>8. Busy(n)' = Busy(n) \union {t} /\ \A m \in Notes : m # n => Busy(m)' = Busy(m)
  BY <1>1, <1>5, <1>6, <1>7 DEF Busy
<1>9. QED
  BY <1>1, <1>5, <1>6, <1>7, <1>8 DEF t

NotesInv == ExportInv /\ NoteTypes /\ TapsInv /\ LeftType /\ LeftInv

(* The steps of an export that leave flags, lists and threads alone.        *)
Behind ==
  UNCHANGED <<published, toggles, rows, waiting, thread, text, edits, left>>

LEMMA BehindSteps ==
  ASSUME \/ (Exports \/ CutShort \/ \E p \in ForeignPaths : PublishForeign(p)) /\ UNCHANGED notesVars
         \/ UNCHANGED allVars
  PROVE  Behind
<1>1. CASE UNCHANGED allVars
  BY <1>1 DEF allVars, vars, notesVars, Behind
<1>2. CASE Exports /\ UNCHANGED notesVars
  BY <1>2 DEF Exports, RemoveOwned, Collect, Copy, TruncateManifest, WriteManifest, EnsureIndex,
     notesVars, Behind
<1>3. CASE CutShort /\ UNCHANGED notesVars
  BY <1>3 DEF CutShort, notesVars, Behind
<1>4. CASE (\E p \in ForeignPaths : PublishForeign(p)) /\ UNCHANGED notesVars
  BY <1>4 DEF PublishForeign, notesVars, Behind
<1>5. QED
  BY <1>1, <1>2, <1>3, <1>4

LEMMA ListsNext ==
  ASSUME NoteTypes, TapsInv, Counted', [NotesNext]_allVars
  PROVE  NoteTypes' /\ TapsInv'
<1> USE DEF NoteTypes
<1>0. published' \in [Notes -> BOOLEAN] /\ toggles' \in Nat
  BY DEF Counted
<1>1. ASSUME NEW s \in Sessions, ListNotes(s) \/ Close(s) \/ Apply(s)
      PROVE  NoteTypes' /\ TapsInv'
  <2>1. toggles' = toggles
    BY <1>1 DEF ListNotes, Close, Apply, Start, vars
  <2>2. waiting' = 0 \/ waiting' = Applying
    BY <1>1 DEF ListNotes, Close, Apply, Open
  <2>3. waiting' \in Nat /\ waiting' \notin Taps
    BY <2>2 DEF Taps, Applying
  <2>4. rows' \in [Sessions -> [Notes -> BOOLEAN] \union {NoRows}]
    BY <1>1 DEF ListNotes, Close, Apply
  <2>5. UNCHANGED <<thread, text, edits>>
    BY <1>1 DEF ListNotes, Close, Apply
  <2>6. QED
    BY <1>0, <2>1, <2>3, <2>4, <2>5 DEF TapsInv, Threads
<1>2. ASSUME NEW s \in Sessions, NEW n \in Notes, Toggle(s, n) PROVE NoteTypes' /\ TapsInv'
  <2>1. UNCHANGED <<rows, text, edits>> /\ rows[s] # NoRows
    BY <1>2 DEF Toggle, Open
  <2>2. \A t \in Taps : t > toggles' => thread'[t] = NoThread
    BY <1>2, Begins DEF TapsInv, Taps
  <2>3. waiting' \in Nat
    BY <1>2, Begins
  <2>4. waiting' \in Taps => thread'[waiting'] # NoThread /\ rows'[thread'[waiting'].from] # NoRows
    BY <1>2, <2>1, Begins
  <2>5. QED
    BY <1>0, <1>2, <2>1, <2>2, <2>3, <2>4, Begins DEF TapsInv
<1>3. ASSUME NEW t \in Taps, Answer(t) PROVE NoteTypes' /\ TapsInv'
  <2>1. thread[t].at = "written" /\ thread' = [thread EXCEPT ![t] = NoThread]
        /\ UNCHANGED <<toggles, text, edits>>
    BY <1>3 DEF Answer, vars
  <2>2. Threads' /\ \A u \in Taps : u # t => thread'[u] = thread[u]
    BY <2>1, Ends
  <2>3. thread'[t] = NoThread
    BY <2>1, Ends
  <2>4. CASE waiting = t
    <3>1. thread[t].from \in Sessions /\ thread[t].note \in Notes /\ thread[t].value \in BOOLEAN
      BY <2>1, JobOf
    <3>2. rows[thread[t].from] \in [Notes -> BOOLEAN]
      BY <2>4, <3>1 DEF TapsInv
    <3>3. rows' = [rows EXCEPT ![thread[t].from][thread[t].note] = thread[t].value] /\ waiting' = 0
      BY <1>3, <2>4 DEF Answer
    <3>4. rows' \in [Sessions -> [Notes -> BOOLEAN] \union {NoRows}]
      BY <3>1, <3>2, <3>3
    <3>5. waiting' \notin Taps /\ waiting' \in Nat
      BY <3>3 DEF Taps
    <3>6. QED
      BY <1>0, <2>1, <2>2, <2>3, <3>4, <3>5 DEF TapsInv
  <2>5. CASE waiting # t
    <3>1. UNCHANGED <<waiting, rows>>
      BY <1>3, <2>5 DEF Answer
    <3>2. QED
      BY <1>0, <2>1, <2>2, <2>3, <2>5, <3>1 DEF TapsInv
  <2>6. QED
    BY <2>4, <2>5
<1>4. ASSUME NEW t \in Taps, SetPublishOf(t) PROVE NoteTypes' /\ TapsInv'
  <2>1. PICK from \in {"sent", "read", "open"}, to \in {"read", "open", "written"}, read \in Nat :
          Proceed(t, from, to, read)
    <3>1. CASE ReadNote(t)
      <4>1. thread[t].at # "none" /\ Proceed(t, "sent", "read", text[thread[t].note])
        BY <3>1 DEF ReadNote, Proceed
      <4>2. text[thread[t].note] \in Nat
        BY <4>1, JobOf
      <4>3. QED
        BY <4>1, <4>2
    <3>2. CASE OpenNote(t) \/ WriteNote(t)
      <4>1. thread[t].at # "none"
        BY <3>2 DEF OpenNote, WriteNote, Proceed
      <4>2. thread[t].text \in Nat
        BY <4>1, JobOf
      <4>3. QED
        BY <3>2, <4>2 DEF OpenNote, WriteNote
    <3>3. QED
      BY <1>4, <3>1, <3>2 DEF SetPublishOf
  <2>2. Threads' /\ thread[t] \in Jobs /\ thread'[t].from = thread[t].from /\ thread'[t].at = to
    BY <2>1, Proceeds
  <2>3. Threads' /\ thread[t] \in Jobs /\ thread'[t].from = thread[t].from
        /\ thread'[t] # NoThread
    BY <2>2 DEF NoThread
  <2>4. \A u \in Taps : u # t => thread'[u] = thread[u]
    BY <2>1, Proceeds
  <2>5. thread[t] # NoThread
    BY <2>3 DEF Jobs, NoThread
  <2>6. thread[t].note \in Notes /\ thread[t].text \in Nat
    BY <2>3 DEF Jobs
  <2>7. UNCHANGED <<toggles, rows, waiting, edits>>
    BY <1>4 DEF SetPublishOf, ReadNote, OpenNote, WriteNote, vars
  <2>8. text' \in [Notes -> Nat]
    <3>1. CASE ReadNote(t)
      BY <3>1 DEF ReadNote
    <3>2. CASE OpenNote(t)
      BY <2>6, <3>2 DEF OpenNote
    <3>3. CASE WriteNote(t)
      BY <2>6, <3>3 DEF WriteNote
    <3>4. QED
      BY <1>4, <3>1, <3>2, <3>3 DEF SetPublishOf
  <2>9. TapsInv'
    BY <2>3, <2>4, <2>5, <2>7 DEF TapsInv
  <2>10. QED
    BY <1>0, <2>3, <2>7, <2>8, <2>9
<1>5. ASSUME NEW t \in Taps, SetPublishFails(t) PROVE NoteTypes' /\ TapsInv'
  <2>1. thread' = [thread EXCEPT ![t] = NoThread] /\ UNCHANGED <<toggles, rows, text, edits>>
        /\ waiting' = IF waiting = t THEN 0 ELSE waiting
    BY <1>5 DEF SetPublishFails
  <2>2. Threads' /\ thread'[t] = NoThread /\ \A u \in Taps : u # t => thread'[u] = thread[u]
    BY <2>1, Ends
  <2>3. waiting' \in Nat /\ (waiting' \in Taps => waiting' = waiting /\ waiting # t)
    BY <2>1 DEF Taps
  <2>4. QED
    BY <1>0, <2>1, <2>2, <2>3 DEF TapsInv
<1>6. CASE Applied \/ GiveUp
  <2>1. UNCHANGED <<toggles, rows, thread, text, edits>> /\ waiting' = 0
    BY <1>6 DEF Applied, GiveUp, vars
  <2>2. waiting' \notin Taps /\ waiting' \in Nat
    BY <2>1 DEF Taps
  <2>3. QED
    BY <1>0, <2>1, <2>2 DEF TapsInv, Threads
<1>7. CASE WorkerStops
  <2>1. UNCHANGED <<toggles, rows, text, edits>> /\ waiting' = 0 /\ thread' = [t \in Taps |-> NoThread]
    BY <1>7 DEF WorkerStops
  <2>2. waiting' \notin Taps /\ waiting' \in Nat
    BY <2>1 DEF Taps
  <2>3. QED
    BY <1>0, <2>1, <2>2 DEF TapsInv, Threads
<1>8. ASSUME NEW n \in Notes, NEW flag \in BOOLEAN, Edit(n, flag) PROVE NoteTypes' /\ TapsInv'
  <2>1. UNCHANGED <<toggles, rows, waiting, thread>> /\ edits' = edits + 1
        /\ text' = [text EXCEPT ![n] = edits' + 1]
    BY <1>8 DEF Edit
  <2>2. QED
    BY <1>0, <2>1 DEF TapsInv, Threads
<1>9. ASSUME Behind PROVE NoteTypes' /\ TapsInv'
  BY <1>0, <1>9 DEF Behind, TapsInv, Threads
<1>10. QED
  BY <1>1, <1>2, <1>3, <1>4, <1>5, <1>6, <1>7, <1>8, <1>9, BehindSteps DEF NotesNext

-----------------------------------------------------------------------------
(* A note is as it was left                                                 *)

LEMMA LeftTypeNext ==
  ASSUME NoteTypes, TapsInv, LeftType, [NotesNext]_allVars
  PROVE  LeftType'
<1> DEFINE Kept == [text : Nat, flag : BOOLEAN]
<1>1. ASSUME UNCHANGED left PROVE LeftType'
  BY <1>1 DEF LeftType
<1>2. ASSUME NEW n \in Notes, left' = [left EXCEPT ![n] = Disturbed] PROVE LeftType'
  BY <1>2 DEF LeftType
<1>3. ASSUME NEW n \in Notes, NEW new \in Kept, left' = [left EXCEPT ![n] = new] PROVE LeftType'
  BY <1>3 DEF LeftType
<1>4. ASSUME NEW t \in Taps, Answer(t) PROVE LeftType'
  <2> DEFINE n == thread[t].note
             new == [text |-> left[n].text, flag |-> thread[t].value]
  <2>1. n \in Notes /\ thread[t].value \in BOOLEAN
    BY <1>4, JobOf DEF Answer, NoteTypes
  <2>2. left' = left \/ (left[n] # Disturbed /\ left' = [left EXCEPT ![n] = new])
    BY <1>4 DEF Answer
  <2>3. left[n] # Disturbed => new \in Kept
    BY <2>1 DEF LeftType
  <2> HIDE DEF n, new, Kept
  <2>4. QED
    BY <1>1, <1>3, <2>1, <2>2, <2>3
<1>5. ASSUME NEW t \in Taps, SetPublishFails(t) PROVE LeftType'
  <2>1. thread[t].note \in Notes
    BY <1>5, JobOf DEF SetPublishFails, NoteTypes
  <2>2. UNCHANGED left \/ left' = [left EXCEPT ![thread[t].note] = Disturbed]
    BY <1>5 DEF SetPublishFails
  <2>3. QED
    BY <1>1, <1>2, <2>1, <2>2
<1>6. CASE GiveUp
  <2>1. waiting \in Taps /\ left' = [left EXCEPT ![thread[waiting].note] = Disturbed]
    BY <1>6 DEF GiveUp
  <2>2. thread[waiting] \in Jobs
    BY <2>1 DEF TapsInv, NoteTypes, Threads
  <2>3. thread[waiting].note \in Notes
    BY <2>2 DEF Jobs
  <2>4. QED
    BY <1>2, <2>1, <2>3
<1>7. CASE WorkerStops
  BY <1>7 DEF WorkerStops, LeftType
<1>8. ASSUME NEW n \in Notes, NEW flag \in BOOLEAN, Edit(n, flag) PROVE LeftType'
  <2> DEFINE new == [text |-> edits' + 1, flag |-> flag]
  <2>1. new \in Kept
    BY <1>8 DEF Edit, NoteTypes
  <2>2. left' = [left EXCEPT ![n] = Disturbed] \/ left' = [left EXCEPT ![n] = new]
    BY <1>8 DEF Edit
  <2> HIDE DEF new, Kept
  <2>3. QED
    BY <1>2, <1>3, <2>1, <2>2
<1>9. ASSUME NEW s \in Sessions,
             ListNotes(s) \/ Close(s) \/ Apply(s) \/ \E n \in Notes : Toggle(s, n)
      PROVE  LeftType'
  BY <1>1, <1>9 DEF ListNotes, Close, Apply, Toggle
<1>10. ASSUME NEW t \in Taps, SetPublishOf(t) PROVE LeftType'
  BY <1>1, <1>10 DEF SetPublishOf, ReadNote, OpenNote, WriteNote
<1>11. CASE Applied \/ Behind
  BY <1>1, <1>11 DEF Applied, Behind
<1>12. QED
  BY <1>4, <1>5, <1>6, <1>7, <1>8, <1>9, <1>10, <1>11, BehindSteps DEF NotesNext

(* The bot waits for nothing of a note: nothing happens to it.              *)
LEMMA Unattended ==
  ASSUME NEW n \in Notes, Undisturbed(n), waiting \notin Taps
  PROVE  Busy(n) = {} /\ text[n] = left[n].text /\ published[n] = left[n].flag
<1>1. Busy(n) \subseteq Taps
  BY DEF Busy
<1>2. Busy(n) = {}
  BY <1>1 DEF Undisturbed, Progress
<1>3. QED
  BY <1>2 DEF Undisturbed

(* A step that leaves a note and its threads alone.                         *)
LEMMA LeftAlone ==
  ASSUME NEW n \in Notes, Undisturbed(n), Busy(n)' = Busy(n), left'[n] = left[n],
         text'[n] = text[n], published'[n] = published[n],
         \A t \in Busy(n) : thread'[t] = thread[t] /\ (waiting = t => waiting' = t)
  PROVE  Undisturbed(n)'
BY DEF Undisturbed, Progress

(* A step after which nothing works on a note.                              *)
LEMMA LeftIdle ==
  ASSUME NEW n \in Notes, Busy(n)' = {}, text'[n] = left'[n].text, published'[n] = left'[n].flag
  PROVE  Undisturbed(n)'
BY DEF Undisturbed

LEMMA LeftInvNext ==
  ASSUME NoteTypes, TapsInv, LeftType, LeftInv, [NotesNext]_allVars
  PROVE  LeftInv'
<1>1. ASSUME NEW s \in Sessions, ListNotes(s) \/ Close(s) \/ Apply(s) PROVE LeftInv'
  <2>1. UNCHANGED <<published, text, thread, left>> /\ waiting = 0
    BY <1>1 DEF ListNotes, Close, Apply, Start, Open, vars
  <2>2. ASSUME NEW n \in Notes, left'[n] # Disturbed PROVE Undisturbed(n)'
    <3>1. Busy(n) = {} /\ text[n] = left[n].text /\ published[n] = left[n].flag
      BY <2>1, <2>2, Unattended DEF LeftInv, Taps
    <3>2. Busy(n)' = {}
      BY <2>1, <3>1 DEF Busy
    <3>3. QED
      BY <2>1, <3>1, <3>2, LeftIdle
  <2>3. QED
    BY <2>2 DEF LeftInv
<1>2. ASSUME NEW s \in Sessions, NEW n \in Notes, Toggle(s, n) PROVE LeftInv'
  <2>1. UNCHANGED <<published, text, left>> /\ waiting = 0
    BY <1>2 DEF Toggle, Open
  <2>2. ASSUME NEW m \in Notes, left'[m] # Disturbed PROVE Undisturbed(m)'
    <3>1. Busy(m) = {} /\ text[m] = left[m].text /\ published[m] = left[m].flag
      BY <2>1, <2>2, Unattended DEF LeftInv, Taps
    <3>2. CASE m # n
      BY <1>2, <2>1, <3>1, <3>2, Begins, LeftIdle
    <3>3. CASE m = n
      <4>1. Busy(m)' = {toggles'} /\ waiting' = toggles' /\ thread'[toggles'].at = "sent"
        BY <1>2, <3>1, <3>3, Begins
      <4>2. QED
        BY <2>1, <3>1, <4>1 DEF Undisturbed, Progress
    <3>4. QED
      BY <3>2, <3>3
  <2>3. QED
    BY <2>2 DEF LeftInv
<1>3. ASSUME NEW t \in Taps, Answer(t) PROVE LeftInv'
  <2>0. PICK n \in Notes : n = thread[t].note
    BY <1>3, JobOf DEF Answer, NoteTypes
  <2>1. thread[t].at = "written" /\ thread' = [thread EXCEPT ![t] = NoThread]
        /\ UNCHANGED <<published, text>>
    BY <1>3 DEF Answer, vars
  <2>2. n \in Notes /\ t \in Busy(n)
    BY <2>0, <2>1 DEF Busy
  <2>3. \A m \in Notes : Busy(m)' = Busy(m) \ {t} /\ (m # n => t \notin Busy(m))
    BY <2>0, <2>1, Ends DEF Busy, NoteTypes
  <2>4. \A u \in Taps : u # t => thread'[u] = thread[u]
    BY <2>1, Ends DEF NoteTypes
  <2>5. CASE waiting # t
    <3>1. left' = left /\ waiting' = waiting
      BY <1>3, <2>5 DEF Answer
    <3>2. left[n] = Disturbed
      BY <2>2, <2>5 DEF LeftInv, Undisturbed, Progress
    <3>3. ASSUME NEW m \in Notes, left'[m] # Disturbed PROVE Undisturbed(m)'
      <4>1. Undisturbed(m) /\ m # n
        BY <3>1, <3>2, <3>3 DEF LeftInv
      <4>2. Busy(m)' = Busy(m) /\ \A u \in Busy(m) : thread'[u] = thread[u]
        BY <2>3, <2>4, <4>1 DEF Busy
      <4>3. QED
        BY <2>1, <3>1, <4>1, <4>2, LeftAlone
    <3>4. QED
      BY <3>3 DEF LeftInv
  <2>6. CASE waiting = t
    <3>1. left' = IF left[n] = Disturbed THEN left
                  ELSE [left EXCEPT ![n] = [text |-> left[n].text, flag |-> thread[t].value]]
      BY <1>3, <2>0, <2>6 DEF Answer
    <3>2. ASSUME NEW m \in Notes, left'[m] # Disturbed, m # n PROVE Undisturbed(m)'
      <4>1. left'[m] = left[m]
        BY <3>1, <3>2
      <4>2. Undisturbed(m)
        BY <3>2, <4>1 DEF LeftInv
      <4>3. Busy(m) = {}
        BY <2>3, <2>6, <3>2, <4>2 DEF Undisturbed, Progress
      <4>4. QED
        BY <2>1, <2>3, <4>1, <4>2, <4>3, LeftIdle DEF Undisturbed
    <3>3. ASSUME left'[n] # Disturbed PROVE Undisturbed(n)'
      <4>1. left[n] # Disturbed
        BY <3>1, <3>3
      <4>2. Undisturbed(n)
        BY <2>2, <4>1 DEF LeftInv
      <4>3. text[n] = left[n].text /\ published[n] = thread[t].value
        BY <2>1, <2>2, <4>2 DEF Undisturbed, Progress
      <4>4. Busy(n)' = {}
        BY <2>2, <2>3, <2>6, <4>2 DEF Undisturbed, Progress
      <4>5. left'[n] = [text |-> left[n].text, flag |-> thread[t].value]
        BY <2>2, <3>1, <4>1 DEF LeftType
      <4>6. QED
        BY <2>1, <2>2, <4>3, <4>4, <4>5, LeftIdle
    <3>4. QED
      BY <3>2, <3>3 DEF LeftInv
  <2>7. QED
    BY <2>5, <2>6
<1>4. ASSUME NEW t \in Taps, SetPublishOf(t) PROVE LeftInv'
  <2>1. thread[t].at \in {"sent", "read", "open"} /\ UNCHANGED <<waiting, left>>
    BY <1>4 DEF SetPublishOf, ReadNote, OpenNote, WriteNote, Proceed
  <2>0. PICK n \in Notes : n = thread[t].note
    BY <2>1, JobOf DEF NoteTypes
  <2>2. n \in Notes /\ t \in Busy(n) /\ thread[t].value \in BOOLEAN /\ thread[t].text \in Nat
    BY <2>0, <2>1, JobOf DEF Busy, NoteTypes
  <2>3. \/ ReadNote(t) /\ Proceed(t, "sent", "read", text[n])
        \/ OpenNote(t) /\ Proceed(t, "read", "open", thread[t].text)
        \/ WriteNote(t) /\ Proceed(t, "open", "written", thread[t].text)
    BY <1>4, <2>0 DEF SetPublishOf, ReadNote, OpenNote, WriteNote
  <2>4. text[n] \in Nat
    BY <2>2 DEF NoteTypes
  <2>5. /\ \A u \in Taps : u # t => thread'[u] = thread[u]
        /\ \A m \in Notes : Busy(m)' = Busy(m)
    BY <2>2, <2>3, <2>4, Proceeds DEF NoteTypes
  <2>6. \A m \in Notes : m # n => text'[m] = text[m] /\ published'[m] = published[m]
    BY <1>4, <2>0 DEF SetPublishOf, ReadNote, OpenNote, WriteNote, Flag, vars, NoteTypes
  <2>7. ASSUME NEW m \in Notes, left'[m] # Disturbed, m # n PROVE Undisturbed(m)'
    <3>1. Undisturbed(m)
      BY <2>1, <2>7 DEF LeftInv
    <3>2. \A u \in Busy(m) : thread'[u] = thread[u]
      BY <2>0, <2>5, <2>7 DEF Busy
    <3>3. QED
      BY <2>1, <2>5, <2>6, <2>7, <3>1, <3>2, LeftAlone
  <2>8. ASSUME left'[n] # Disturbed PROVE Undisturbed(n)'
    <3>1. Progress(n, t) /\ \A u \in Busy(n) : u = t
      BY <2>1, <2>2, <2>8 DEF LeftInv, Undisturbed, Progress
    <3>2. Progress(n, t)'
      <4>1. CASE ReadNote(t)
        <5>1. thread[t].at = "sent" /\ thread'[t].at = "read" /\ thread'[t].text = text[n]
          BY <2>0, <2>2, <2>4, <4>1, Proceeds DEF ReadNote, NoteTypes
        <5>2. UNCHANGED <<text, published>>
          BY <4>1 DEF ReadNote, vars
        <5>3. QED
          BY <2>1, <3>1, <5>1, <5>2 DEF Progress
      <4>2. CASE OpenNote(t)
        <5>1. thread[t].at = "read" /\ thread'[t].at = "open" /\ thread'[t].text = thread[t].text
          BY <2>0, <2>2, <4>2, Proceeds DEF OpenNote, NoteTypes
        <5>2. QED
          BY <2>1, <3>1, <5>1 DEF Progress
      <4>3. CASE WriteNote(t)
        <5>1. thread[t].at = "open" /\ thread'[t].at = "written" /\ thread'[t].value = thread[t].value
          BY <2>0, <2>2, <4>3, Proceeds DEF WriteNote, NoteTypes
        <5>2. text'[n] = thread[t].text
          BY <2>0, <2>2, <4>3 DEF WriteNote, NoteTypes
        <5>3. published'[n] = thread[t].value
          BY <2>0, <2>2, <4>3 DEF WriteNote, Flag, NoteTypes
        <5>4. QED
          BY <2>1, <3>1, <5>1, <5>2, <5>3 DEF Progress
      <4>4. QED
        BY <2>3, <4>1, <4>2, <4>3
    <3>3. QED
      BY <2>2, <2>5, <3>1, <3>2 DEF Undisturbed
  <2>9. QED
    BY <2>7, <2>8 DEF LeftInv
<1>5. ASSUME NEW t \in Taps, SetPublishFails(t) PROVE LeftInv'
  <2>0. PICK n \in Notes : n = thread[t].note
    BY <1>5, JobOf DEF SetPublishFails, NoteTypes
  <2>1. /\ thread[t].at \in {"sent", "read", "open"}
        /\ thread' = [thread EXCEPT ![t] = NoThread]
        /\ waiting' = IF waiting = t THEN 0 ELSE waiting
        /\ left' = IF thread[t].at = "open" THEN [left EXCEPT ![n] = Disturbed] ELSE left
        /\ UNCHANGED <<published, text>>
    BY <1>5, <2>0 DEF SetPublishFails
  <2>2. n \in Notes /\ t \in Busy(n)
    BY <2>0, <2>1 DEF Busy
  <2>3. /\ \A u \in Taps : u # t => thread'[u] = thread[u]
        /\ \A m \in Notes : Busy(m)' = Busy(m) \ {t}
    BY <2>1, Ends DEF NoteTypes
  <2>4. ASSUME NEW m \in Notes, left'[m] # Disturbed, m # n PROVE Undisturbed(m)'
    <3>1. t \notin Busy(m) /\ left'[m] = left[m]
      BY <2>0, <2>1, <2>4 DEF Busy, LeftType
    <3>2. Undisturbed(m)
      BY <2>4, <3>1 DEF LeftInv
    <3>3. \A u \in Busy(m) : u # t /\ thread'[u] = thread[u] /\ (waiting = u => waiting' = u)
      BY <2>1, <2>3, <3>1 DEF Busy
    <3>4. QED
      BY <2>1, <2>3, <3>1, <3>2, <3>3, LeftAlone
  <2>5. ASSUME left'[n] # Disturbed PROVE Undisturbed(n)'
    <3>1. thread[t].at \in {"sent", "read"} /\ left' = left
      BY <2>1, <2>2, <2>5 DEF LeftType
    <3>2. Progress(n, t) /\ \A u \in Busy(n) : u = t
      BY <2>2, <2>5, <3>1 DEF LeftInv, Undisturbed, Progress
    <3>3. Busy(n)' = {}
      BY <2>2, <2>3, <3>2
    <3>4. QED
      BY <2>1, <2>2, <3>1, <3>2, <3>3, LeftIdle DEF Progress
  <2>6. QED
    BY <2>4, <2>5 DEF LeftInv
<1>6. CASE Applied
  <2>1. waiting \notin Taps /\ UNCHANGED <<published, text, thread, left>>
    BY <1>6 DEF Applied, vars, Applying, Taps
  <2>2. ASSUME NEW n \in Notes, left'[n] # Disturbed PROVE Undisturbed(n)'
    <3>1. Undisturbed(n) /\ Busy(n) = {}
      BY <2>1, <2>2, Unattended DEF LeftInv
    <3>2. Busy(n)' = Busy(n)
      BY <2>1 DEF Busy
    <3>3. QED
      BY <2>1, <3>1, <3>2, LeftAlone
  <2>3. QED
    BY <2>2 DEF LeftInv
<1>7. CASE GiveUp
  <2>1. waiting \in Taps /\ thread[waiting] \in Jobs
    BY <1>7 DEF GiveUp, TapsInv, NoteTypes, Threads
  <2>2. PICK n \in Notes : n = thread[waiting].note
    BY <2>1 DEF Jobs
  <2>3. left' = [left EXCEPT ![n] = Disturbed] /\ UNCHANGED <<published, text, thread>>
    BY <1>7, <2>2 DEF GiveUp
  <2>4. ASSUME NEW m \in Notes, left'[m] # Disturbed PROVE Undisturbed(m)'
    <3>1. m # n /\ left'[m] = left[m]
      BY <2>3, <2>4 DEF LeftType
    <3>2. Undisturbed(m)
      BY <2>4, <3>1 DEF LeftInv
    <3>3. Busy(m) = {}
      BY <2>2, <3>1, <3>2 DEF Undisturbed, Progress, Busy
    <3>4. Busy(m)' = Busy(m)
      BY <2>3 DEF Busy
    <3>5. QED
      BY <2>3, <3>1, <3>2, <3>3, <3>4, LeftAlone
  <2>5. QED
    BY <2>4 DEF LeftInv
<1>8. CASE WorkerStops
  <2>1. /\ left' = [n \in Notes |->
                      IF \E t \in Busy(n) : thread[t].at \in {"open", "written"}
                      THEN Disturbed ELSE left[n]]
        /\ thread' = [t \in Taps |-> NoThread] /\ UNCHANGED <<published, text>>
    BY <1>8 DEF WorkerStops
  <2>2. ASSUME NEW n \in Notes, left'[n] # Disturbed PROVE Undisturbed(n)'
    <3>1. left'[n] = left[n] /\ \A t \in Busy(n) : thread[t].at \notin {"open", "written"}
      BY <2>1, <2>2
    <3>2. Undisturbed(n)
      BY <2>2, <3>1 DEF LeftInv
    <3>3. text[n] = left[n].text /\ published[n] = left[n].flag
      <4>1. CASE Busy(n) = {}
        BY <3>2, <4>1 DEF Undisturbed
      <4>2. CASE Busy(n) # {}
        <5>1. PICK t \in Busy(n) : Progress(n, t)
          BY <3>2, <4>2 DEF Undisturbed
        <5>2. thread[t].at \in {"sent", "read"}
          BY <3>1, <5>1, JobOf DEF Busy, NoteTypes
        <5>3. QED
          BY <5>1, <5>2 DEF Progress
      <4>3. QED
        BY <4>1, <4>2
    <3>4. Busy(n)' = {}
      BY <2>1 DEF Busy, NoThread
    <3>5. QED
      BY <2>1, <3>1, <3>3, <3>4, LeftIdle
  <2>3. QED
    BY <2>2 DEF LeftInv
<1>9. ASSUME NEW n \in Notes, NEW flag \in BOOLEAN, Edit(n, flag) PROVE LeftInv'
  <2>1. /\ text' = [text EXCEPT ![n] = edits' + 1]
        /\ published' = [published EXCEPT ![n] = flag]
        /\ left' = [left EXCEPT ![n] =
                      IF Calm(n) THEN [text |-> edits' + 1, flag |-> flag] ELSE Disturbed]
        /\ UNCHANGED <<waiting, thread>>
    BY <1>9 DEF Edit, Flag
  <2>2. \A m \in Notes : Busy(m)' = Busy(m)
    BY <2>1 DEF Busy
  <2>3. ASSUME NEW m \in Notes, left'[m] # Disturbed, m # n PROVE Undisturbed(m)'
    <3>1. left'[m] = left[m] /\ text'[m] = text[m] /\ published'[m] = published[m]
      BY <2>1, <2>3 DEF NoteTypes, LeftType
    <3>2. Undisturbed(m)
      BY <2>3, <3>1 DEF LeftInv
    <3>3. QED
      BY <2>1, <2>2, <3>1, <3>2, LeftAlone
  <2>4. ASSUME left'[n] # Disturbed PROVE Undisturbed(n)'
    <3>1. Calm(n) /\ left'[n] = [text |-> edits' + 1, flag |-> flag]
      BY <2>1, <2>4 DEF LeftType
    <3>2. text'[n] = left'[n].text /\ published'[n] = left'[n].flag
      BY <2>1, <3>1 DEF NoteTypes
    <3>3. \A t \in Busy(n)' : thread'[t].at = "sent" /\ waiting' = t
      BY <2>1, <2>2, <3>1 DEF Calm
    <3>4. QED
      BY <3>2, <3>3 DEF Undisturbed, Progress
  <2>5. QED
    BY <2>3, <2>4 DEF LeftInv
<1>10. ASSUME Behind PROVE LeftInv'
  <2>1. \A n \in Notes : Busy(n)' = Busy(n)
    BY <1>10 DEF Behind, Busy
  <2>2. ASSUME NEW n \in Notes, left'[n] # Disturbed PROVE Undisturbed(n)'
    BY <1>10, <2>1, <2>2, LeftAlone DEF Behind, LeftInv
  <2>3. QED
    BY <2>2 DEF LeftInv
<1>11. QED
  BY <1>1, <1>2, <1>3, <1>4, <1>5, <1>6, <1>7, <1>8, <1>9, <1>10, BehindSteps DEF NotesNext

-----------------------------------------------------------------------------
(* The theorems                                                             *)

LEMMA NotesInvInit ==
  ASSUME NotesInit
  PROVE  NotesInv
<1>1. ExportInv
  BY ExportInvInit DEF NotesInit
<1>2. NoteTypes /\ TapsInv
  BY DEF NotesInit, Init, NoteTypes, TapsInv, Threads, Taps
<1>3. LeftType
  BY DEF NotesInit, Init, LeftType
<1>4. LeftInv
  <2>1. \A n \in Notes : Busy(n) = {}
    BY DEF NotesInit, Busy, NoThread
  <2>2. \A n \in Notes : text[n] = left[n].text /\ published[n] = left[n].flag
    BY DEF NotesInit
  <2>3. QED
    BY <2>1, <2>2 DEF LeftInv, Undisturbed
<1>5. QED
  BY <1>1, <1>2, <1>3, <1>4 DEF NotesInv

LEMMA NotesInvNext ==
  ASSUME NotesInv, [NotesNext]_allVars
  PROVE  NotesInv' /\ Word
<1> USE DEF NotesInv
<1>1. ExportStep /\ Counted'
  BY StepOfNotes DEF ExportInv, Types, NoteTypes
<1>2. ExportInv' /\ Word
  BY <1>1, ExportInvNext, StepKeepsWord
<1>3. NoteTypes' /\ TapsInv'
  BY <1>1, ListsNext
<1>4. LeftType' /\ LeftInv'
  BY LeftTypeNext, LeftInvNext
<1>5. QED
  BY <1>2, <1>3, <1>4

(* The invariant of the exports, the lists, the threads and the notes.      *)
LEMMA NotesInvHolds == NotesSpec => []NotesInv
<1>1. NotesInit => NotesInv
  BY NotesInvInit
<1>2. NotesInv /\ [NotesNext]_allVars => NotesInv'
  BY NotesInvNext
<1>3. QED
  BY <1>1, <1>2, PTL DEF NotesSpec

(* publish_ops.set_publish and the lists of /notes: a note has the text and *)
(* the flag that were saved or answered last, whatever lists are open and   *)
(* however many taps, edits, failures and exports there are, unless a       *)
(* request of it was overtaken, given up or lost.                           *)
THEOREM NoteLeftAlone == NotesSpec => []NoteAsLeft
<1>1. NotesInv => NoteAsLeft
  BY DEF NotesInv, LeftInv, Undisturbed, NoteAsLeft
<1>2. QED
  BY <1>1, NotesInvHolds, PTL

(* publish_vault.export beside the taps and Obsidian: one that completes    *)
(* has brought every note published all along to its public path.           *)
THEOREM NotesArrive == NotesSpec => PublishedArrive
<1>1. NotesInv /\ [NotesNext]_allVars => Word
  BY NotesInvNext
<1>2. QED
  BY <1>1, NotesInvHolds, PTL DEF NotesSpec, PublishedArrive, Word

(* Before anything fails, every note on the site after an export was        *)
(* published at some moment of it, whatever was tapped or saved meanwhile.  *)
THEOREM NotesLeave == NotesSpec => UnpublishedLeaveUncut
<1>1. NotesInv /\ [NotesNext]_allVars => Word
  BY NotesInvNext
<1>2. QED
  BY <1>1, NotesInvHolds, PTL DEF NotesSpec, UnpublishedLeaveUncut, Word

(* Between exports, before anything fails, the manifest lists the notes on  *)
(* the site and nothing else, for any notes, aliases and foreign articles.  *)
THEOREM ManifestKept == NotesSpec => []ManifestIsInventory
<1>1. NotesInv => ManifestIsInventory
  BY DEF NotesInv, ExportInv, CleanSite, Held, ManifestIsInventory
<1>2. QED
  BY <1>1, NotesInvHolds, PTL

(* The only ways in which an export takes an article of another publisher:  *)
(* for a note of the same path that was published during it, or after a     *)
(* failure.                                                                 *)
THEOREM ForeignLosses == NotesSpec => ForeignLostToNoteOnly
<1>1. NotesInv /\ [NotesNext]_allVars => Word
  BY NotesInvNext
<1>2. QED
  BY <1>1, NotesInvHolds, PTL DEF NotesSpec, ForeignLostToNoteOnly, Word
=============================================================================
