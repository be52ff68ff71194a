-------------------------- MODULE VaultNotesProofs --------------------------
(***************************************************************************)
(* Proofs about VaultNotes for any finite set of saves, any titles they    *)
(* share, any reindexings and any number of faults.                        *)
(***************************************************************************)
EXTENDS VaultNotes, FiniteSetTheorems, WellFoundedInduction, TLAPS

USE SavesAssumption, ReindexesAssumption, TitleOfAssumption, MaxFaultsAssumption,
    MarksAssumption

-----------------------------------------------------------------------------
(* The shapes of steps                                                      *)

SavePlaces    == {"idle", "chosen", "opened", "written", "adding", "indexed",
                  "unindexed", "error", "lost"}
ReindexPlaces == {"idle", "missing", "client", "listing", "reading", "unavailable",
                  "moc", "scanning", "filling", "ok", "error", "lost"}
Texts         == Saves \union {Blank, Absent}

Documents == UNION {[D -> Texts] : D \in SUBSET Paths}

Types ==
  /\ file \in [Paths -> Texts]
  /\ index \in [Paths -> Texts]
  /\ moc \in SUBSET Paths
  /\ pc \in [Threads -> SavePlaces \union ReindexPlaces]
  /\ \A s \in Saves : pc[s] \in SavePlaces
  /\ \A r \in Reindexes : pc[r] \in ReindexPlaces
  /\ digests \in SUBSET Saves
  /\ path \in [Saves -> Paths \union {Unset}]
  /\ \A s \in Saves : path[s] = Unset <=> pc[s] = "idle"
  /\ older \in [Saves -> SUBSET Saves]
  /\ todo \in [Reindexes -> SUBSET Paths]
  /\ docs \in [Reindexes -> Documents]
  /\ seen \in [Reindexes -> Documents]

MayFollow(from, to) ==
  \/ from \in {"chosen", "opened"} /\ to = "error"
  \/ from = "written" /\ to \in {"adding", "unindexed"}
  \/ from = "adding" /\ to = "unindexed"

MayFollowReindex(from, to) ==
  \/ from = "idle" /\ to \in {"client", "missing"}
  \/ from = "client" /\ to \in {"listing", "unavailable"}
  \/ from \in {"scanning", "filling"} /\ to = "error"

(* A step that changes nothing but one place, or nothing at all.            *)
MovesSave(s) ==
  /\ \E to \in SavePlaces : MayFollow(pc[s], to) /\ pc' = [pc EXCEPT ![s] = to]
  /\ UNCHANGED <<store, local>>

MovesReindex(r) ==
  /\ \E to \in ReindexPlaces :
       MayFollowReindex(pc[r], to) /\ pc' = [pc EXCEPT ![r] = to]
  /\ UNCHANGED <<store, local>>

Chooses(s) ==
  /\ LoopFree(s)
  /\ pc[s] = "idle"
  /\ pc' = [pc EXCEPT ![s] = "chosen"]
  /\ path' = [path EXCEPT ![s] = <<TitleOf[s], FirstFree(TitleOf[s])>>]
  /\ older' = [older EXCEPT ![s] = {q \in Saves : pc[q] \in Saved}]
  /\ UNCHANGED <<store, digests, todo, docs, seen>>

Fills(s, from, to, text) ==
  /\ pc[s] = from
  /\ pc' = [pc EXCEPT ![s] = to]
  /\ file' = [file EXCEPT ![path[s]] = text]
  /\ UNCHANGED <<index, moc, local>>

Adds(s) ==
  /\ pc[s] = "adding"
  /\ \E to \in {"indexed", "unindexed"} : pc' = [pc EXCEPT ![s] = to]
  /\ index' = [index EXCEPT ![path[s]] = s]
  /\ UNCHANGED <<file, moc, local>>

Lists(r, from, to) ==
  /\ pc[r] = from
  /\ pc' = [pc EXCEPT ![r] = to]
  /\ todo' = [todo EXCEPT ![r] = Existing]
  /\ UNCHANGED <<store, digests, path, older, docs, seen>>

Reads(r) ==
  /\ pc[r] = "reading"
  /\ \E p \in todo[r] :
       /\ todo' = [todo EXCEPT ![r] = todo[r] \ {p}]
       /\ \/ docs' = [docs EXCEPT ![r] = Put(docs[r], p, file[p])]
          \/ docs' = docs
  /\ UNCHANGED <<store, pc, digests, path, older, seen>>

Scans(r) ==
  /\ pc[r] = "scanning"
  /\ \E p \in todo[r] :
       /\ todo' = [todo EXCEPT ![r] = todo[r] \ {p}]
       /\ \/ seen' = [seen EXCEPT ![r] = Put(seen[r], p, file[p])]
          \/ seen' = seen
  /\ UNCHANGED <<store, pc, digests, path, older, docs>>

Upserts(r) ==
  /\ pc[r] = "reading"
  /\ \E some \in SUBSET DOMAIN docs[r] : \E to \in {"moc", "unavailable"} :
       /\ pc' = [pc EXCEPT ![r] = to]
       /\ to = "moc" => some = DOMAIN docs[r]
       /\ Upsert(r, some)
  /\ UNCHANGED <<file, moc, local>>

Skips(r) ==
  /\ pc[r] = "scanning"
  /\ pc' = [pc EXCEPT ![r] = "ok"]
  /\ Listed(r) = {}
  /\ UNCHANGED <<store, local>>

Cuts(r) ==
  /\ pc[r] = "scanning"
  /\ pc' = [pc EXCEPT ![r] = "filling"]
  /\ Listed(r) # {}
  /\ moc' = {}
  /\ UNCHANGED <<file, index, local>>

Maps(r) ==
  /\ pc[r] = "filling"
  /\ \E to \in {"ok", "error"} :
       /\ pc' = [pc EXCEPT ![r] = to]
       /\ to = "ok" => Listed(r) \subseteq moc'
  /\ moc' \subseteq moc \union Listed(r)
  /\ UNCHANGED <<file, index, local>>

Dies ==
  /\ pc' = [t \in Threads |-> IF pc[t] \in Busy THEN "lost" ELSE pc[t]]
  /\ todo' = [r \in Reindexes |-> {}]
  /\ UNCHANGED <<store, digests, path, older, docs, seen>>

SaveStep(s) ==
  \/ MovesSave(s) \/ Chooses(s) \/ Adds(s)
  \/ Fills(s, "chosen", "opened", Blank) \/ Fills(s, "opened", "written", s)

ReindexStep(r) ==
  \/ MovesReindex(r) \/ Lists(r, "listing", "reading") \/ Reads(r) \/ Upserts(r)
  \/ Lists(r, "moc", "scanning") \/ Scans(r) \/ Skips(r) \/ Cuts(r) \/ Maps(r)

Step ==
  \/ \E s \in Saves : SaveStep(s)
  \/ \E r \in Reindexes : ReindexStep(r)
  \/ Dies
  \/ UNCHANGED <<store, pc, local>>

LEMMA SaveStepShape ==
  ASSUME NEW s \in Saves, VaultSave(s)
  PROVE  SaveStep(s) \/ UNCHANGED <<store, pc, local>>
<1>1. CASE Choose(s)
  BY <1>1 DEF Choose, Move, SaveStep, Chooses
<1>2. CASE Open(s)
  <2>1. CASE Move(s, "chosen", "opened") /\ file' = [file EXCEPT ![path[s]] = Blank]
    BY <1>2, <2>1 DEF Open, Move, SaveStep, Fills
  <2>2. CASE Move(s, "chosen", "error") /\ UNCHANGED file
    BY <1>2, <2>2 DEF Open, Move, SaveStep, MovesSave, MayFollow, SavePlaces, store, local
  <2>3. QED
    BY <1>2, <2>1, <2>2 DEF Open
<1>3. CASE Write(s)
  <2>1. CASE Move(s, "opened", "written") /\ file' = [file EXCEPT ![path[s]] = s]
    BY <1>3, <2>1 DEF Write, Move, SaveStep, Fills
  <2>2. CASE Move(s, "opened", "error") /\ UNCHANGED file
    BY <1>3, <2>2 DEF Write, Move, SaveStep, MovesSave, MayFollow, SavePlaces, store, local
  <2>3. QED
    BY <1>3, <2>1, <2>2 DEF Write
<1>4. CASE GetClient(s, "written", "adding", "unindexed")
  BY <1>4 DEF GetClient, Move, SaveStep, MovesSave, MayFollow, SavePlaces, store, local
<1>5. CASE AddNote(s)
  <2>1. pc[s] = "adding" /\ \E to \in {"indexed", "unindexed"} : pc' = [pc EXCEPT ![s] = to]
    BY <1>5 DEF AddNote, Move
  <2>2. CASE index' = [index EXCEPT ![path[s]] = s]
    BY <1>5, <2>1, <2>2 DEF AddNote, SaveStep, Adds
  <2>3. CASE Move(s, "adding", "unindexed") /\ UNCHANGED index
    BY <1>5, <2>3 DEF AddNote, Move, SaveStep, MovesSave, MayFollow, SavePlaces, store, local
  <2>4. QED
    BY <1>5, <2>2, <2>3 DEF AddNote
<1>6. QED
  BY <1>1, <1>2, <1>3, <1>4, <1>5 DEF VaultSave

LEMMA ReindexStepShape ==
  ASSUME Types, NEW r \in Reindexes, Reindex(r)
  PROVE  ReindexStep(r)
<1>1. CASE StartReindex(r)
  BY <1>1 DEF StartReindex, Move, ReindexStep, MovesReindex, MayFollowReindex, ReindexPlaces
<1>2. CASE GetClient(r, "client", "listing", "unavailable")
  BY <1>2 DEF GetClient, Move, ReindexStep, MovesReindex, MayFollowReindex, ReindexPlaces
<1>3. CASE List(r)
  BY <1>3 DEF List, Move, ReindexStep, Lists
<1>4. CASE Read(r)
  <2> DEFINE p == CHOOSE q \in todo[r] : TRUE
  <2>1. p \in todo[r]
    BY <1>4 DEF Read
  <2>2. /\ todo' = [todo EXCEPT ![r] = todo[r] \ {p}]
        /\ docs' = [docs EXCEPT ![r] = Put(docs[r], p, file[p])] \/ docs' = docs
    BY <1>4 DEF Read
  <2> HIDE DEF p
  <2>3. Reads(r)
    BY <1>4, <2>1, <2>2 DEF Read, Reads
  <2>4. QED
    BY <2>3 DEF ReindexStep
<1>5. CASE AddAll(r)
  BY <1>5 DEF AddAll, Move, ReindexStep, Upserts
<1>6. CASE ListMap(r)
  BY <1>6 DEF ListMap, Move, ReindexStep, Lists
<1>7. CASE Scan(r)
  <2> DEFINE p == CHOOSE q \in todo[r] : TRUE
  <2>1. p \in todo[r]
    BY <1>7 DEF Scan
  <2>2. /\ todo' = [todo EXCEPT ![r] = todo[r] \ {p}]
        /\ seen' = [seen EXCEPT ![r] = Put(seen[r], p, file[p])] \/ seen' = seen
    BY <1>7 DEF Scan
  <2> HIDE DEF p
  <2>3. Scans(r)
    BY <1>7, <2>1, <2>2 DEF Scan, Scans
  <2>4. QED
    BY <2>3 DEF ReindexStep
<1>8. CASE NoMap(r)
  BY <1>8 DEF NoMap, Move, ReindexStep, Skips, MovesReindex, MayFollowReindex, ReindexPlaces
<1>9. CASE OpenMap(r)
  <2>1. CASE Move(r, "scanning", "filling") /\ moc' = {}
    BY <1>9, <2>1 DEF OpenMap, Move, ReindexStep, Cuts
  <2>2. CASE Move(r, "scanning", "error") /\ UNCHANGED moc
    BY <1>9, <2>2 DEF OpenMap, Move, ReindexStep, MovesReindex, MayFollowReindex,
           ReindexPlaces, store
  <2>3. QED
    BY <1>9, <2>1, <2>2 DEF OpenMap
<1>10. CASE FillMap(r)
  <2>1. \E to \in {"ok", "error"} : pc[r] = "filling" /\ pc' = [pc EXCEPT ![r] = to]
    BY <1>10 DEF FillMap, Move
  <2>2. CASE \E tail \in SUBSET moc : moc' = Listed(r) \union tail
    <3>1. Listed(r) \subseteq moc' /\ moc' \subseteq moc \union Listed(r)
      BY <2>2
    <3>2. QED
      BY <1>10, <2>1, <3>1 DEF FillMap, ReindexStep, Maps
  <2>3. CASE pc'[r] = "error" /\ UNCHANGED moc
    <3>1. pc[r] = "filling" /\ pc' = [pc EXCEPT ![r] = "error"]
      BY <2>1, <2>3 DEF Types, Threads
    <3>2. QED
      BY <1>10, <2>3, <3>1 DEF FillMap, ReindexStep, MovesReindex, MayFollowReindex,
             ReindexPlaces, store
  <2>4. QED
    BY <1>10, <2>2, <2>3 DEF FillMap
<1>11. QED
  BY <1>1, <1>2, <1>3, <1>4, <1>5, <1>6, <1>7, <1>8, <1>9, <1>10 DEF Reindex

LEMMA StepShape == Types /\ [Next]_vars => Step
<1> SUFFICES ASSUME Types, [Next]_vars PROVE Step
  OBVIOUS
<1>1. CASE \E s \in Saves : VaultSave(s)
  BY <1>1, SaveStepShape DEF Step
<1>2. CASE \E r \in Reindexes : Reindex(r)
  BY <1>2, ReindexStepShape DEF Step
<1>3. CASE SearchFails \/ WindowEnds \/ Outage \/ UNCHANGED vars
  BY <1>3 DEF SearchFails, WindowEnds, Outage, vars, Step
<1>4. CASE Crash
  BY <1>4 DEF Crash, Dies, Step, store
<1>5. QED
  BY <1>1, <1>2, <1>3, <1>4 DEF Next

-----------------------------------------------------------------------------
(* Names                                                                    *)

Numbers == 1 .. Cardinality(Saves)

LEMMA NumbersFinite ==
  /\ Cardinality(Saves) \in Nat
  /\ IsFiniteSet(Numbers) /\ Cardinality(Numbers) = Cardinality(Saves)
  /\ Numbers \subseteq Nat
  /\ Paths = Titles \X Numbers /\ Unset \notin Paths
<1>1. Cardinality(Saves) \in Nat
  BY FS_CardinalityType
<1>2. IsFiniteSet(Numbers) /\ Cardinality(Numbers) = Cardinality(Saves)
  BY <1>1, FS_Interval, 1 \in Int, Cardinality(Saves) \in Int DEF Numbers
<1>3. Numbers \subseteq Nat /\ 0 \notin Numbers
  BY <1>1 DEF Numbers
<1>4. Paths = Titles \X Numbers
  BY DEF Paths, Numbers
<1>5. QED
  BY <1>1, <1>2, <1>3, <1>4 DEF Unset

NatLess == OpToRel(<, Nat)

LEMMA NatLessPairs == \A m, n \in Nat : m < n => <<m, n>> \in NatLess
BY DEF NatLess, OpToRel

(* Of the free names one is the first.                                      *)
LEMMA LeastNumber ==
  ASSUME NEW F \in SUBSET Nat, F # {}
  PROVE  \E n \in F : \A m \in F : ~(m < n)
<1>1. IsWellFoundedOn(NatLess, Nat)
  BY NatLessThanWellFounded DEF NatLess
<1>2. PICK n \in F : \A m \in F : ~(<<m, n>> \in NatLess)
  BY <1>1, WFMin
<1>3. \A m \in F : ~(m < n)
  BY <1>2, NatLessPairs
<1>4. QED
  BY <1>3

(* Something is free, since every name that is taken is that of another     *)
(* save: the loop over suffixes ends with a name of its own.                *)
LEMMA NameIsFree ==
  ASSUME Types, \A p \in Existing : \E q \in Saves : path[q] = p,
         NEW s \in Saves, pc[s] = "idle"
  PROVE  /\ <<TitleOf[s], FirstFree(TitleOf[s])>> \in Paths
         /\ file[<<TitleOf[s], FirstFree(TitleOf[s])>>] = Absent
<1> DEFINE t == TitleOf[s]
           others == Saves \ {s}
           free == {n \in Numbers : file[<<t, n>>] = Absent}
<1>0. t \in Titles /\ \A n \in Numbers : <<t, n>> \in Paths
  BY NumbersFinite
<1>1. free # {}
  <2> SUFFICES ASSUME free = {} PROVE FALSE
    OBVIOUS
  <2>1. \A n \in Numbers : \E q \in others : path[q] = <<t, n>>
    <3> TAKE n \in Numbers
    <3>1. <<t, n>> \in Existing
      BY <1>0 DEF Existing
    <3>2. PICK q \in Saves : path[q] = <<t, n>>
      BY <3>1
    <3>3. path[s] = Unset /\ Unset \notin Paths
      BY NumbersFinite DEF Types
    <3>4. q # s
      BY <1>0, <3>2, <3>3
    <3>5. QED
      BY <3>2, <3>4
  <2> DEFINE f == [n \in Numbers |-> CHOOSE q \in others : path[q] = <<t, n>>]
  <2>2. \A n \in Numbers : f[n] \in others /\ path[f[n]] = <<t, n>>
    BY <2>1
  <2>3. f \in [Numbers -> others]
    BY <2>2
  <2>4. IsFiniteSet(others) /\ Cardinality(others) = Cardinality(Saves) - 1
    BY FS_RemoveElement
  <2>5. Cardinality(others) < Cardinality(Numbers)
    BY <2>4, NumbersFinite
  <2> HIDE DEF f, others, free
  <2>6. \E m, n \in Numbers : m # n /\ f[m] = f[n]
    <3>1. IsFiniteSet(Numbers) /\ IsFiniteSet(others)
      BY <2>4, NumbersFinite
    <3>2. QED
      BY <2>3, <2>5, <3>1, FS_PigeonHole
  <2>7. PICK m, n \in Numbers : m # n /\ f[m] = f[n]
    BY <2>6
  <2>8. <<t, m>> = <<t, n>>
    BY <2>2, <2>7
  <2>9. QED
    BY <2>7, <2>8
<1>2. PICK n \in free : \A m \in free : ~(m < n)
  <2>1. free \in SUBSET Nat
    BY NumbersFinite
  <2> HIDE DEF free
  <2>2. QED
    BY <1>1, <2>1, LeastNumber
<1>3. n \in Numbers /\ file[<<t, n>>] = Absent
        /\ \A m \in 1 .. (n - 1) : file[<<t, m>>] # Absent
  BY <1>2, NumbersFinite DEF Numbers
<1>4. /\ FirstFree(t) \in Numbers
      /\ file[<<t, FirstFree(t)>>] = Absent
  BY <1>3 DEF FirstFree, Numbers
<1>5. QED
  BY <1>0, <1>4

-----------------------------------------------------------------------------
(* Types                                                                    *)

LEMMA TypesInit == Init => Types
<1> SUFFICES ASSUME Init PROVE Types
  OBVIOUS
<1>1. <<>> \in Documents
  BY DEF Documents
<1>2. QED
  BY <1>1, NumbersFinite, DigestSetsAssumption
     DEF Init, Types, SavePlaces, ReindexPlaces, Texts, Threads

LEMMA PutType ==
  ASSUME NEW d \in Documents, NEW p \in Paths, NEW text \in Texts
  PROVE  /\ Put(d, p, text) \in Documents
         /\ DOMAIN Put(d, p, text) = DOMAIN d \union {p}
         /\ Put(d, p, text)[p] = text
         /\ \A q \in DOMAIN d : q # p => Put(d, p, text)[q] = d[q]
<1>1. PICK D \in SUBSET Paths : d \in [D -> Texts]
  BY DEF Documents
<1>2. Put(d, p, text) \in [D \union {p} -> Texts]
  BY <1>1 DEF Put
<1>3. D \union {p} \in SUBSET Paths /\ DOMAIN d = D
  BY <1>1
<1>4. Put(d, p, text) \in Documents
  BY <1>2, <1>3 DEF Documents
<1>5. QED
  BY <1>1, <1>3, <1>4 DEF Put

LEMMA DocumentsType ==
  ASSUME NEW d \in Documents
  PROVE  /\ DOMAIN d \subseteq Paths
         /\ \A p \in DOMAIN d : d[p] \in Texts
BY DEF Documents

LEMMA SaveTypes ==
  ASSUME Types, \A p \in Existing : \E q \in Saves : path[q] = p,
         NEW s \in Saves, SaveStep(s)
  PROVE  Types'
<1> USE DEF Types, SavePlaces, Threads, Texts
<1>1. CASE MovesSave(s)
  BY <1>1 DEF MovesSave, MayFollow, store, local
<1>2. CASE Chooses(s)
  <2> DEFINE new == <<TitleOf[s], FirstFree(TitleOf[s])>>
  <2>1. new \in Paths /\ Unset \notin Paths
    BY <1>2, NameIsFree, NumbersFinite DEF Chooses
  <2>2. path' = [path EXCEPT ![s] = new]
    BY <1>2 DEF Chooses
  <2> HIDE DEF new
  <2>3. QED
    BY <1>2, <2>1, <2>2 DEF Chooses, store
<1>3. CASE Adds(s)
  BY <1>3 DEF Adds, local
<1>4. CASE Fills(s, "chosen", "opened", Blank)
  BY <1>4 DEF Fills, local
<1>5. CASE Fills(s, "opened", "written", s)
  BY <1>5 DEF Fills, local
<1>6. QED
  BY <1>1, <1>2, <1>3, <1>4, <1>5 DEF SaveStep

LEMMA ReindexTypes ==
  ASSUME Types, NEW r \in Reindexes, ReindexStep(r)
  PROVE  Types'
<1> USE DEF Types, ReindexPlaces, Threads, Texts
<1>1. CASE MovesReindex(r)
  BY <1>1 DEF MovesReindex, MayFollowReindex, store, local
<1>2. CASE \E from, to \in ReindexPlaces : Lists(r, from, to)
  BY <1>2 DEF Lists, Existing, store
<1>3. CASE Reads(r)
  <2>1. PICK p \in todo[r] :
          /\ todo' = [todo EXCEPT ![r] = todo[r] \ {p}]
          /\ \/ docs' = [docs EXCEPT ![r] = Put(docs[r], p, file[p])]
             \/ docs' = docs
    BY <1>3 DEF Reads
  <2>2. p \in Paths /\ docs[r] \in Documents
    OBVIOUS
  <2>3. Put(docs[r], p, file[p]) \in Documents
    BY <2>2, PutType
  <2>4. docs' \in [Reindexes -> Documents]
    BY <2>1, <2>3
  <2>5. todo' \in [Reindexes -> SUBSET Paths]
    BY <2>1
  <2>6. QED
    BY <1>3, <2>4, <2>5 DEF Reads, store
<1>4. CASE Upserts(r)
  <2>1. \A p \in DOMAIN docs[r] : docs[r][p] \in Texts
    BY DocumentsType
  <2>2. PICK some \in SUBSET DOMAIN docs[r] : Upsert(r, some)
    BY <1>4 DEF Upserts
  <2>3. index' \in [Paths -> Texts]
    BY <2>1, <2>2 DEF Upsert
  <2>4. QED
    BY <1>4, <2>3 DEF Upserts, local
<1>5. CASE Skips(r) \/ Cuts(r)
  BY <1>5 DEF Skips, Cuts, store, local
<1>6. CASE Maps(r)
  <2>1. Listed(r) \subseteq Paths
    BY DocumentsType DEF Listed
  <2>2. QED
    BY <1>6, <2>1 DEF Maps, local
<1>7. CASE Scans(r)
  <2>1. PICK p \in todo[r] :
          /\ todo' = [todo EXCEPT ![r] = todo[r] \ {p}]
          /\ \/ seen' = [seen EXCEPT ![r] = Put(seen[r], p, file[p])]
             \/ seen' = seen
    BY <1>7 DEF Scans
  <2>2. p \in Paths /\ seen[r] \in Documents
    OBVIOUS
  <2>3. Put(seen[r], p, file[p]) \in Documents
    BY <2>2, PutType
  <2>4. seen' \in [Reindexes -> Documents]
    BY <2>1, <2>3
  <2>5. todo' \in [Reindexes -> SUBSET Paths]
    BY <2>1
  <2>6. QED
    BY <1>7, <2>4, <2>5 DEF Scans, store
<1>8. QED
  BY <1>1, <1>2, <1>3, <1>4, <1>5, <1>6, <1>7 DEF ReindexStep

LEMMA Marks == Absent # Blank /\ Absent \notin Saves /\ Blank \notin Saves
BY DEF Absent, Blank

-----------------------------------------------------------------------------
(* The files                                                                *)

Wrote == Saved \union {"lost"}

(* A file is there because of a save, has a text when that save has written *)
(* it, and stays.                                                           *)
FilesInv ==
  /\ Types
  /\ \A p \in Existing : \E q \in Saves : path[q] = p
  /\ \A p \in Paths : file[p] \in Saves => path[file[p]] = p /\ pc[file[p]] \in Wrote
  /\ \A s \in Saves : pc[s] \in Saved \union {"opened"} => file[path[s]] # Absent
  /\ BlankExplained

LEMMA FilesStay ==
  ASSUME FilesInv, Step
  PROVE  Existing \subseteq Existing'
<1>1. \A s \in Saves : SaveStep(s) => \A p \in Paths : file[p] # Absent => file'[p] # Absent
  <2> SUFFICES ASSUME NEW s \in Saves, SaveStep(s), NEW p \in Paths, file[p] # Absent
               PROVE  file'[p] # Absent
    OBVIOUS
  <2>1. CASE file' = file
    BY <2>1
  <2>2. CASE \E from, to : Fills(s, from, to, Blank) \/ Fills(s, from, to, s)
    BY <2>2, Marks DEF Fills, FilesInv, Types
  <2>3. QED
    BY <2>1, <2>2 DEF SaveStep, MovesSave, Chooses, Adds, store
<1>2. \A r \in Reindexes : ReindexStep(r) => file' = file
  BY DEF ReindexStep, MovesReindex, Lists, Reads, Scans, Upserts, Skips, Cuts, Maps, store
<1>3. Dies \/ UNCHANGED <<store, pc, local>> => file' = file
  BY DEF Dies, store
<1>4. QED
  BY <1>1, <1>2, <1>3 DEF Step, Existing

LEMMA FilesSave ==
  ASSUME FilesInv, NEW s \in Saves, SaveStep(s)
  PROVE  FilesInv'
<1>0. Types'
  BY SaveTypes DEF FilesInv
<1> USE DEF Existing, BlankExplained, Wrote, Saved
<1>1. CASE MovesSave(s)
  BY <1>0, <1>1 DEF FilesInv, Types, MovesSave, MayFollow, store, local
<1>2. CASE Chooses(s)
  <2>1. /\ path[s] = Unset /\ Unset \notin Paths
        /\ path' = [path EXCEPT ![s] = path'[s]]
        /\ pc[s] = "idle" /\ pc' = [pc EXCEPT ![s] = "chosen"] /\ file' = file
    BY <1>2, NumbersFinite DEF Chooses, FilesInv, Types, store
  <2>2. \A q \in Saves \ {s} : path'[q] = path[q] /\ pc'[q] = pc[q]
    BY <2>1 DEF FilesInv, Types
  <2>3. pc'[s] = "chosen"
    BY <2>1 DEF FilesInv, Types, Threads
  <2>4. QED
    BY <1>0, <2>1, <2>2, <2>3 DEF FilesInv, Types, Texts
<1>3. CASE Adds(s)
  BY <1>0, <1>3 DEF FilesInv, Types, Adds, local
<1>4. CASE Fills(s, "chosen", "opened", Blank)
  BY <1>0, <1>4, Marks DEF FilesInv, Types, Fills, local, Threads
<1>5. CASE Fills(s, "opened", "written", s)
  BY <1>0, <1>5 DEF FilesInv, Types, Fills, local, Threads
<1>6. QED
  BY <1>1, <1>2, <1>3, <1>4, <1>5 DEF SaveStep

LEMMA FilesReindex ==
  ASSUME FilesInv, NEW r \in Reindexes, ReindexStep(r)
  PROVE  FilesInv'
<1>1. file' = file /\ path' = path /\ \A s \in Saves : pc'[s] = pc[s]
  <2>1. file' = file /\ path' = path
    BY DEF ReindexStep, MovesReindex, Lists, Reads, Scans, Upserts, Skips, Cuts, Maps, store, local
  <2>2. pc' = pc \/ \E to : pc' = [pc EXCEPT ![r] = to]
    BY DEF ReindexStep, MovesReindex, Lists, Reads, Scans, Upserts, Skips, Cuts, Maps
  <2>3. QED
    BY <2>1, <2>2 DEF FilesInv, Types, Threads
<1>2. Types'
  BY ReindexTypes DEF FilesInv
<1>3. QED
  BY <1>1, <1>2 DEF FilesInv, Existing, BlankExplained

LEMMA FilesDies ==
  ASSUME FilesInv, Dies
  PROVE  FilesInv'
<1> USE DEF Existing, BlankExplained, Wrote, Saved, Busy, Writing, Mapping
<1>1. Types'
  BY DEF FilesInv, Types, Dies, store, local, Threads, SavePlaces, ReindexPlaces
<1>2. QED
  BY <1>1 DEF FilesInv, Types, Dies, store, local, Threads

LEMMA FilesStep ==
  ASSUME FilesInv, Step
  PROVE  FilesInv'
<1>1. CASE UNCHANGED <<store, pc, local>>
  BY <1>1 DEF FilesInv, Types, Existing, BlankExplained, store, local
<1>2. QED
  BY <1>1, FilesSave, FilesReindex, FilesDies DEF Step

LEMMA FilesNext == FilesInv /\ [Next]_vars => FilesInv'
BY StepShape, FilesStep DEF FilesInv

LEMMA FilesHold == Spec => []FilesInv
<1>1. Init => FilesInv
  BY TypesInit, Marks DEF Init, FilesInv, Existing, BlankExplained, Saved, Threads
<1>2. QED
  BY <1>1, FilesNext, PTL DEF Spec

(* A file is empty only while it is being written, or after its save failed *)
(* or died: no later save, digest or crash leaves another.                  *)
THEOREM BlanksExplained == Spec => []BlankExplained
BY FilesHold, PTL DEF FilesInv

-----------------------------------------------------------------------------
(* Names that are given                                                     *)

Gone(s) == pc[s] \in {"error", "lost"}

(* A save that had written has another name than those that chose later;    *)
(* of two digests of one name, one has come to nothing.                     *)
NamesInv ==
  /\ \A s \in Saves : \A q \in older[s] :
       path[s] # Unset /\ path[q] # Unset /\ path[q] # path[s]
  /\ \A s, q \in digests :
       s # q /\ path[s] # Unset /\ path[s] = path[q] => Gone(s) \/ Gone(q)

LEMMA NamesChoose ==
  ASSUME FilesInv, NamesInv, NEW s \in Saves, Chooses(s)
  PROVE  NamesInv'
<1> DEFINE new == <<TitleOf[s], FirstFree(TitleOf[s])>>
<1>1. new \in Paths /\ file[new] = Absent /\ Unset \notin Paths
  BY NameIsFree, NumbersFinite DEF Chooses, FilesInv
<1>2. /\ path' = [path EXCEPT ![s] = new]
      /\ older' = [older EXCEPT ![s] = {q \in Saves : pc[q] \in Saved}]
      /\ digests' = digests
      /\ pc' = [pc EXCEPT ![s] = "chosen"]
      /\ pc[s] = "idle" /\ path[s] = Unset
  BY DEF Chooses, FilesInv, Types
<1> HIDE DEF new
<1>3. /\ path'[s] = new
      /\ \A q \in Saves \ {s} : path'[q] = path[q] /\ pc'[q] = pc[q]
  BY <1>2 DEF FilesInv, Types
<1>4. ASSUME NEW q \in Saves, pc[q] \in Saved
      PROVE  q # s /\ path[q] # Unset /\ path[q] # new
  BY <1>1, <1>2, <1>4 DEF FilesInv, Types, Saved
<1>5. ASSUME NEW r \in Saves, NEW q \in older'[r]
      PROVE  path'[r] # Unset /\ path'[q] # Unset /\ path'[q] # path'[r]
  <2>1. CASE r = s
    BY <1>1, <1>2, <1>3, <1>4, <1>5, <2>1 DEF FilesInv, Types
  <2>2. CASE r # s
    BY <1>2, <1>3, <1>5, <2>2 DEF FilesInv, Types, NamesInv
  <2>3. QED
    BY <2>1, <2>2
<1>6. ASSUME s \in digests, NEW q \in digests, q # s, path[q] = new
      PROVE  Gone(q)'
  <2>1. pc[q] \notin Busy /\ pc[q] # "idle"
    BY <1>1, <1>6 DEF Chooses, LoopFree, FilesInv, Types
  <2>2. pc[q] \notin Saved
    BY <1>4, <1>6 DEF FilesInv, Types
  <2>3. pc[q] \in {"error", "lost"}
    BY <2>1, <2>2 DEF Busy, Writing, Saved, FilesInv, Types, SavePlaces
  <2>4. QED
    BY <1>3, <1>6, <2>3 DEF Gone, FilesInv, Types
<1>7. ASSUME NEW r \in digests, NEW q \in digests, r # q, path'[r] # Unset, path'[r] = path'[q]
      PROVE  Gone(r)' \/ Gone(q)'
  BY <1>2, <1>3, <1>6, <1>7 DEF Gone, FilesInv, Types, NamesInv
<1>8. QED
  BY <1>2, <1>5, <1>7 DEF NamesInv

LEMMA NamesKept ==
  ASSUME FilesInv, NamesInv, UNCHANGED <<path, older, digests>>,
         \A s \in Saves : Gone(s) => Gone(s)'
  PROVE  NamesInv'
BY DEF NamesInv, FilesInv, Types

LEMMA NamesNext == FilesInv /\ NamesInv /\ [Next]_vars => NamesInv'
<1> SUFFICES ASSUME FilesInv, NamesInv, [Next]_vars PROVE NamesInv'
  OBVIOUS
<1> USE DEF Gone
<1>1. ASSUME NEW s \in Saves, SaveStep(s), ~Chooses(s) PROVE NamesInv'
  <2>1. UNCHANGED <<path, older, digests>> /\ pc[s] \notin {"error", "lost"}
    BY <1>1 DEF SaveStep, MovesSave, MayFollow, Adds, Fills, local
  <2>2. \E to : pc' = [pc EXCEPT ![s] = to]
    BY <1>1 DEF SaveStep, MovesSave, Adds, Fills
  <2>3. QED
    BY <2>1, <2>2, NamesKept DEF FilesInv, Types, Threads
<1>2. ASSUME NEW r \in Reindexes, ReindexStep(r) PROVE NamesInv'
  <2>1. UNCHANGED <<path, older, digests>>
    BY <1>2 DEF ReindexStep, MovesReindex, Lists, Reads, Scans, Upserts, Skips, Cuts, Maps, local
  <2>2. pc' = pc \/ \E to : pc' = [pc EXCEPT ![r] = to]
    BY <1>2 DEF ReindexStep, MovesReindex, Lists, Reads, Scans, Upserts, Skips, Cuts, Maps
  <2>3. QED
    BY <2>1, <2>2, NamesKept DEF FilesInv, Types, Threads
<1>3. CASE Dies
  BY <1>3, NamesKept DEF Dies, local, Threads, Busy, Writing
<1>4. CASE UNCHANGED <<store, pc, local>>
  BY <1>4, NamesKept DEF local
<1>5. QED
  BY <1>1, <1>2, <1>3, <1>4, NamesChoose, StepShape DEF Step, FilesInv

(* However many saves share a title, in threads or on the loop, fail and    *)
(* die: no note takes the name of one that was written before it chose, and *)
(* no digest that of another digest.                                        *)
THEOREM OlderKept == Spec => []OlderNotesKept
<1>1. Init => NamesInv
  BY DigestSetsAssumption DEF Init, NamesInv
<1>2. Spec => []NamesInv
  BY <1>1, FilesHold, NamesNext, PTL DEF Spec
<1>3. FilesInv /\ NamesInv => OlderNotesKept
  BY DEF NamesInv, OlderNotesKept, Gone, Saved, FilesInv, Types
<1>4. QED
  BY <1>2, <1>3, FilesHold, PTL

-----------------------------------------------------------------------------
(* The documents of a reindexing, the index and the map                     *)

Early  == {"idle", "missing", "client", "listing"}
Mapped == Mapping \union {"ok"}

(* A save but that of the text v has the path p.                            *)
Shared(p, v) == \E s \in Saves \ {v} : path[s] = p

(* Each file is read once, after it was written or before it has a text;    *)
(* what a reindexing has sent is in the index.                              *)
DocsInv(r) ==
  /\ pc[r] \in Early => DOMAIN docs[r] = {}
  /\ todo[r] \subseteq Existing
  /\ DOMAIN docs[r] \subseteq Existing
  /\ pc[r] = "reading" => DOMAIN docs[r] \cap todo[r] = {}
  /\ \A p \in DOMAIN docs[r] :
       /\ docs[r][p] # Absent
       /\ docs[r][p] \in Saves => pc[docs[r][p]] \in Wrote
  /\ pc[r] \in Mapped => DOMAIN docs[r] \subseteq Indexed

(* A document or a text that is not the file's any more shares its path;    *)
(* what is listed is in the map, or another reindexing has overtaken it.    *)
MapInv(r) ==
  /\ pc[r] \in Early \union {"reading", "moc"} => DOMAIN seen[r] = {}
  /\ pc[r] = "filling" => Listed(r) # {}
  /\ \A p \in DOMAIN docs[r] : docs[r][p] \in Saves =>
       /\ file[p] = docs[r][p] \/ Shared(p, docs[r][p])
       /\ p \in DOMAIN seen[r] => seen[r][p] = docs[r][p] \/ Shared(p, docs[r][p])
  /\ pc[r] = "ok" => \A p \in Listed(r) : p \in moc \/ Overtaken(r, p)

IndexInv ==
  /\ \A s \in Saves : pc[s] = "indexed" => path[s] \in Indexed
  /\ \A r \in Reindexes : DocsInv(r)
  /\ \A r \in Reindexes : MapInv(r)
  /\ IndexCurrent

(* What is in the index stays there, under some text.                       *)
LEMMA IndexedStay ==
  ASSUME FilesInv, IndexInv, Step
  PROVE  Indexed \subseteq Indexed'
<1>1. ASSUME NEW s \in Saves, SaveStep(s) PROVE Indexed \subseteq Indexed'
  <2>1. CASE index' = index
    BY <2>1 DEF Indexed
  <2>2. CASE Adds(s)
    BY <2>2, Marks DEF Adds, FilesInv, Types, Indexed
  <2>3. QED
    BY <1>1, <2>1, <2>2 DEF SaveStep, MovesSave, Chooses, Fills, store
<1>2. ASSUME NEW r \in Reindexes, ReindexStep(r) PROVE Indexed \subseteq Indexed'
  <2>1. CASE index' = index
    BY <2>1 DEF Indexed
  <2>2. CASE Upserts(r)
    <3>1. PICK some \in SUBSET DOMAIN docs[r] : Upsert(r, some)
      BY <2>2 DEF Upserts
    <3>2. \A p \in some : docs[r][p] # Absent
      BY <3>1 DEF IndexInv, DocsInv
    <3>3. QED
      BY <3>1, <3>2 DEF Upsert, Indexed
  <2>3. QED
    BY <1>2, <2>1, <2>2 DEF ReindexStep, MovesReindex, Lists, Reads, Scans, Skips, Cuts, Maps, store
<1>3. Dies \/ UNCHANGED <<store, pc, local>> => index' = index
  BY DEF Dies, store
<1>4. QED
  BY <1>1, <1>2, <1>3 DEF Step, Indexed

(* Saves that have written stay so.                                         *)
LEMMA WroteStays ==
  ASSUME FilesInv, Step, NEW s \in Saves
  PROVE  pc[s] \in Wrote => pc'[s] \in Wrote
<1> USE DEF Wrote, Saved, FilesInv, Types, Threads
<1>1. ASSUME NEW q \in Saves, SaveStep(q) PROVE pc[s] \in Wrote => pc'[s] \in Wrote
  BY <1>1 DEF SaveStep, MovesSave, MayFollow, Chooses, Adds, Fills
<1>2. ASSUME NEW r \in Reindexes, ReindexStep(r) PROVE pc'[s] = pc[s]
  BY <1>2 DEF ReindexStep, MovesReindex, Lists, Reads, Scans, Upserts, Skips, Cuts, Maps
<1>3. CASE Dies
  BY <1>3 DEF Dies
<1>4. QED
  BY <1>1, <1>2, <1>3 DEF Step

LEMMA DocsRest ==
  ASSUME FilesInv, IndexInv, Step, NEW r \in Reindexes,
         docs'[r] = docs[r], todo'[r] \subseteq Existing',
         pc'[r] = "reading" => pc[r] = "reading" /\ todo'[r] = todo[r],
         pc'[r] \in Early => pc[r] \in Early,
         pc'[r] \in Mapped => DOMAIN docs[r] \subseteq Indexed'
  PROVE  DocsInv(r)'
BY FilesStay, WroteStays DEF IndexInv, DocsInv

LEMMA DocsNext ==
  ASSUME FilesInv, IndexInv, Step, NEW r \in Reindexes
  PROVE  DocsInv(r)'
<1> USE DEF FilesInv, Types, Threads
<1>0. /\ pc[r] \in Mapped => DOMAIN docs[r] \subseteq Indexed'
      /\ todo[r] \subseteq Existing'
  BY IndexedStay, FilesStay DEF IndexInv, DocsInv
<1>1. ASSUME NEW s \in Saves, SaveStep(s) PROVE DocsInv(r)'
  <2>1. todo' = todo /\ docs' = docs
    BY <1>1 DEF SaveStep, MovesSave, Chooses, Adds, Fills, local
  <2>2. pc'[r] = pc[r]
    BY <1>1 DEF SaveStep, MovesSave, Chooses, Adds, Fills
  <2>3. QED
    BY <1>0, <2>1, <2>2, DocsRest
<1>2. ASSUME NEW x \in Reindexes, ReindexStep(x), x # r PROVE DocsInv(r)'
  <2>1. todo'[r] = todo[r] /\ docs'[r] = docs[r]
    BY <1>2 DEF ReindexStep, MovesReindex, Lists, Reads, Scans, Upserts, Skips, Cuts, Maps, local
  <2>2. pc'[r] = pc[r]
    BY <1>2 DEF ReindexStep, MovesReindex, Lists, Reads, Scans, Upserts, Skips, Cuts, Maps
  <2>3. QED
    BY <1>0, <2>1, <2>2, DocsRest
<1>3. CASE MovesReindex(r)
  BY <1>0, <1>3, DocsRest DEF MovesReindex, MayFollowReindex, Early, Mapped, Mapping, local
<1>4. CASE Lists(r, "listing", "reading")
  <2>1. DOMAIN docs[r] = {}
    BY <1>4 DEF Lists, IndexInv, DocsInv, Early
  <2>2. docs' = docs /\ todo'[r] = Existing /\ pc'[r] = "reading" /\ Existing' = Existing
    BY <1>4 DEF Lists, Existing, store
  <2>3. QED
    BY <2>1, <2>2 DEF DocsInv, Early, Mapped, Mapping
<1>5. CASE Reads(r)
  <2>1. PICK p \in todo[r] :
          /\ todo' = [todo EXCEPT ![r] = todo[r] \ {p}]
          /\ \/ docs' = [docs EXCEPT ![r] = Put(docs[r], p, file[p])]
             \/ docs' = docs
    BY <1>5 DEF Reads
  <2>2. /\ p \in Paths /\ docs[r] \in Documents /\ p \in Existing
        /\ p \notin DOMAIN docs[r]
    BY <1>5 DEF Reads, IndexInv, DocsInv
  <2>3. file[p] \in Texts /\ file[p] # Absent
          /\ (file[p] \in Saves => pc[file[p]] \in Wrote)
    BY <2>2 DEF Existing
  <2>4. todo'[r] = todo[r] \ {p} /\ pc' = pc /\ pc[r] = "reading" /\ Existing' = Existing
    BY <1>5, <2>1 DEF Reads, Existing, store
  <2>5. CASE docs'[r] = docs[r]
    BY <2>4, <2>5 DEF IndexInv, DocsInv, Early, Mapped, Mapping
  <2>6. CASE docs'[r] = Put(docs[r], p, file[p])
    <3> DEFINE new == Put(docs[r], p, file[p])
    <3>0. docs[r] \in Documents /\ p \in Paths /\ file[p] \in Texts
      BY <2>2, <2>3
    <3>1. /\ DOMAIN new = DOMAIN docs[r] \union {p}
          /\ new[p] = file[p]
          /\ \A q \in DOMAIN docs[r] : q # p => new[q] = docs[r][q]
      BY ONLY <3>0, PutType
    <3> HIDE DEF new
    <3>2. /\ DOMAIN docs'[r] = DOMAIN docs[r] \union {p}
          /\ docs'[r][p] = file[p]
          /\ \A q \in DOMAIN docs[r] : q # p => docs'[r][q] = docs[r][q]
      BY <2>6, <3>1 DEF new
    <3>3. QED
      BY <2>2, <2>3, <2>4, <3>2 DEF IndexInv, DocsInv, Early, Mapped, Mapping
  <2>7. QED
    BY <2>1, <2>5, <2>6
<1>6. CASE Upserts(r)
  <2>1. PICK some \in SUBSET DOMAIN docs[r] : \E to \in {"moc", "unavailable"} :
          /\ pc' = [pc EXCEPT ![r] = to]
          /\ to = "moc" => some = DOMAIN docs[r]
          /\ Upsert(r, some)
    BY <1>6 DEF Upserts
  <2>2. \A p \in DOMAIN docs[r] : p \in Paths /\ docs[r][p] # Absent
    BY DocumentsType DEF IndexInv, DocsInv
  <2>3. pc'[r] \in {"moc", "unavailable"}
          /\ (pc'[r] = "moc" => DOMAIN docs[r] \subseteq Indexed')
    BY <2>1, <2>2 DEF Upsert, Indexed
  <2>4. QED
    BY <1>0, <1>6, <2>3, DocsRest DEF Upserts, local, Early, Mapped, Mapping
<1>7. CASE Lists(r, "moc", "scanning")
  <2>1. docs' = docs /\ todo'[r] = Existing /\ pc'[r] = "scanning" /\ pc[r] = "moc"
    BY <1>7 DEF Lists
  <2>2. QED
    BY <1>0, <2>1, FilesStay, DocsRest DEF Early, Mapped, Mapping
<1>8. CASE Scans(r)
  <2>1. todo'[r] \subseteq todo[r] /\ docs' = docs /\ pc' = pc /\ pc[r] = "scanning"
    BY <1>8 DEF Scans
  <2>2. QED
    BY <1>0, <2>1, DocsRest DEF Early
<1>9. CASE Skips(r) \/ Cuts(r) \/ Maps(r)
  <2>1. todo' = todo /\ docs' = docs /\ pc[r] \in Mapped
          /\ pc'[r] \in {"ok", "filling", "error"}
    BY <1>9 DEF Skips, Cuts, Maps, local, Mapped, Mapping
  <2>2. QED
    BY <1>0, <2>1, DocsRest DEF Early
<1>10. CASE Dies
  BY <1>0, <1>10, DocsRest DEF Dies, Early, Mapped, Mapping, Busy, Writing
<1>11. CASE UNCHANGED <<store, pc, local>>
  BY <1>0, <1>11, DocsRest DEF local
<1>12. QED
  BY <1>1, <1>2, <1>3, <1>4, <1>5, <1>6, <1>7, <1>8, <1>9, <1>10, <1>11
     DEF Step, ReindexStep

-----------------------------------------------------------------------------
(* The text of a path in the index                                          *)

(* Nobody but s has a text for p in hand.                                   *)
Uncontested(p, s) ==
  /\ \A q \in Saves : path[q] = p => q = s
  /\ \A r \in Reindexes : p \in DOMAIN docs[r] => docs[r][p] = s

(* A name that was given and a document that was read are not changed.      *)
LEMMA NamesAndDocumentsStay ==
  ASSUME FilesInv, IndexInv, Step, NEW p \in Paths, NEW s \in Saves, Uncontested(p, s)'
  PROVE  Uncontested(p, s)
<1> USE DEF FilesInv, Types, Threads
<1>1. ASSUME NEW q \in Saves, path[q] = p PROVE path'[q] = p
  <2>1. path[q] # Unset
    BY <1>1, NumbersFinite
  <2>2. \A t \in Saves : Chooses(t) => path'[q] = path[q]
    BY <2>1 DEF Chooses
  <2>3. QED
    BY <1>1, <2>2 DEF Step, SaveStep, ReindexStep, MovesSave, MovesReindex, Adds, Fills,
           Lists, Reads, Scans, Skips, Cuts, Upserts, Maps, Dies, local
<1>2. ASSUME NEW r \in Reindexes, p \in DOMAIN docs[r]
      PROVE  p \in DOMAIN docs'[r] /\ docs'[r][p] = docs[r][p]
  <2>1. ASSUME NEW x \in Reindexes, Reads(x)
        PROVE  p \in DOMAIN docs'[r] /\ docs'[r][p] = docs[r][p]
    <3>1. PICK q \in todo[x] :
            docs' = [docs EXCEPT ![x] = Put(docs[x], q, file[q])] \/ docs' = docs
      BY <2>1 DEF Reads
    <3>2. CASE docs'[r] = docs[r]
      BY <1>2, <3>2
    <3>3. CASE x = r /\ docs'[r] = Put(docs[r], q, file[q])
      <4>1. q \in Existing /\ q \notin DOMAIN docs[r]
        BY <2>1, <3>3 DEF Reads, IndexInv, DocsInv
      <4>2. q \in Paths /\ file[q] \in Texts /\ docs[r] \in Documents
        BY <4>1 DEF Existing
      <4> DEFINE new == Put(docs[r], q, file[q])
      <4>3. DOMAIN new = DOMAIN docs[r] \union {q}
              /\ \A z \in DOMAIN docs[r] : z # q => new[z] = docs[r][z]
        BY ONLY <4>2, PutType
      <4> HIDE DEF new
      <4>4. docs'[r] = new
        BY <3>3 DEF new
      <4>5. QED
        BY <1>2, <4>1, <4>3, <4>4
    <3>4. QED
      BY <3>1, <3>2, <3>3
  <2>2. QED
    BY <1>2, <2>1 DEF Step, SaveStep, ReindexStep, MovesSave, MovesReindex, Adds, Fills,
           Chooses, Lists, Scans, Skips, Cuts, Upserts, Maps, Dies, local
<1>3. QED
  BY <1>1, <1>2 DEF Uncontested

LEMMA IndexWrites ==
  ASSUME FilesInv, IndexInv, Step, NEW p \in Paths, NEW s \in Saves, Uncontested(p, s)
  PROVE  index'[p] = index[p] \/ index'[p] = s
<1>1. ASSUME NEW q \in Saves, Adds(q) PROVE index'[p] = index[p] \/ index'[p] = s
  BY <1>1 DEF Adds, FilesInv, Types, Uncontested
<1>2. ASSUME NEW r \in Reindexes, Upserts(r) PROVE index'[p] = index[p] \/ index'[p] = s
  BY <1>2 DEF Upserts, Upsert, Uncontested
<1>3. QED
  BY <1>1, <1>2 DEF Step, SaveStep, ReindexStep, MovesSave, MovesReindex, Fills,
         Chooses, Lists, Reads, Scans, Skips, Cuts, Maps, Dies, store

(* What makes the text of a path upserted puts it in the index.             *)
LEMMA BecomesUpserted ==
  ASSUME FilesInv, IndexInv, Step, NEW p \in Paths, NEW s \in Saves,
         Uncontested(p, s)', file[p] = s, file'[p] = s, Upserted(p)', ~Upserted(p)
  PROVE  index'[p] = s
<1> USE DEF FilesInv, Types, Threads
<1>1. path[s] = p
  OBVIOUS
<1>2. CASE pc'[s] = "indexed"
  <2>1. pc[s] # "indexed"
    BY DEF Upserted
  <2>2. Adds(s)
    BY <1>2, <2>1 DEF Step, SaveStep, ReindexStep, MovesSave, MayFollow, MovesReindex, Fills,
           Adds, Chooses, Lists, Reads, Scans, Skips, Cuts, Upserts, Maps, Dies
  <2>3. QED
    BY <1>1, <2>2 DEF Adds
<1>3. ASSUME NEW r \in Reindexes, pc'[r] \in Mapped, p \in DOMAIN docs'[r],
             docs'[r][p] = s
      PROVE  index'[p] = s
  <2>1. docs'[r] = docs[r]
    <3>1. ~Reads(r)
      BY <1>3 DEF Reads, Mapped, Mapping
    <3>2. \A x \in Reindexes \ {r} : Reads(x) => docs'[r] = docs[r]
      BY DEF Reads
    <3>3. QED
      BY <3>1, <3>2 DEF Step, SaveStep, ReindexStep, MovesSave, MovesReindex, Adds, Fills,
             Chooses, Lists, Scans, Skips, Cuts, Upserts, Maps, Dies, local
  <2>2. pc[r] \notin Mapped
    BY <1>3, <2>1 DEF Upserted, Mapped, Mapping
  <2>3. Upserts(r)
    <3>1. \A x \in Reindexes \ {r} : ReindexStep(x) => pc'[r] = pc[r]
      BY DEF ReindexStep, MovesReindex, Lists, Reads, Scans, Upserts, Skips, Cuts, Maps
    <3>2. \A q \in Saves : SaveStep(q) => pc'[r] = pc[r]
      BY DEF SaveStep, MovesSave, Adds, Fills, Chooses
    <3>3. /\ ~MovesReindex(r) /\ ~Reads(r) /\ ~Scans(r) /\ ~Dies
          /\ ~Lists(r, "listing", "reading") /\ ~Lists(r, "moc", "scanning")
          /\ ~Skips(r) /\ ~Cuts(r) /\ ~Maps(r)
      BY <1>3, <2>2 DEF Mapped, Mapping, MovesReindex, MayFollowReindex, Lists, Reads, Scans, Skips, Cuts, Maps, Dies
    <3>4. QED
      BY <1>3, <2>2, <3>1, <3>2, <3>3 DEF Step, ReindexStep
  <2>4. PICK some \in SUBSET DOMAIN docs[r] : \E to \in {"moc", "unavailable"} :
          /\ pc' = [pc EXCEPT ![r] = to]
          /\ to = "moc" => some = DOMAIN docs[r]
          /\ Upsert(r, some)
    BY <2>3 DEF Upserts
  <2>5. p \in some
    BY <1>3, <2>1, <2>4 DEF Mapped, Mapping
  <2>6. QED
    BY <1>3, <2>1, <2>4, <2>5 DEF Upsert
<1>4. QED
  BY <1>2, <1>3 DEF Upserted, Mapped, Mapping

LEMMA CurrentNext ==
  ASSUME FilesInv, IndexInv, Step, NEW p \in Paths,
         file'[p] \in Saves, Upserted(p)', ~Contested(p)'
  PROVE  index'[p] = file'[p]
<1> SUFFICES ASSUME NEW s \in Saves, s = file'[p] PROVE index'[p] = s
  OBVIOUS
<1>1. Uncontested(p, s)'
  BY DEF Contested, Uncontested
<1>2. Uncontested(p, s)
  BY <1>1, NamesAndDocumentsStay
<1>3. file[p] = s
  <2>1. ASSUME NEW q \in Saves, Fills(q, "opened", "written", q), path[q] = p PROVE FALSE
    <3>1. s = q /\ pc'[q] = "written" /\ docs' = docs /\ pc[q] = "opened"
      BY <2>1 DEF Fills, FilesInv, Types, Threads, local
    <3>2. PICK r \in Reindexes : p \in DOMAIN docs[r] /\ docs[r][p] = q
      BY <3>1 DEF Upserted
    <3>3. QED
      BY <2>1, <3>1, <3>2 DEF IndexInv, DocsInv, Wrote, Saved
  <2>2. ASSUME NEW q \in Saves, Fills(q, "chosen", "opened", Blank), path[q] = p PROVE FALSE
    BY <2>2, Marks DEF Fills, FilesInv, Types
  <2>3. ASSUME NEW q \in Saves, NEW from, NEW to, NEW text,
               Fills(q, from, to, text), path[q] # p
        PROVE  file'[p] = file[p]
    BY <2>3 DEF Fills, FilesInv, Types
  <2>4. QED
    BY <2>1, <2>2, <2>3 DEF Step, SaveStep, ReindexStep, MovesSave, MovesReindex, Adds,
           Chooses, Lists, Reads, Scans, Skips, Cuts, Upserts, Maps, Dies, store
<1>4. CASE Upserted(p)
  <2>1. ~Contested(p)
    BY <1>2, <1>3 DEF Contested, Uncontested
  <2>2. index[p] = s
    BY <1>3, <1>4, <2>1 DEF IndexInv, IndexCurrent
  <2>3. QED
    BY <1>2, <2>2, IndexWrites
<1>5. CASE ~Upserted(p)
  BY <1>1, <1>3, <1>5, BecomesUpserted
<1>6. QED
  BY <1>4, <1>5

-----------------------------------------------------------------------------
(* The map                                                                  *)

(* What another reindexing has done to the map stays so.                    *)
LEMMA OvertakenStays ==
  ASSUME FilesInv, IndexInv, Step, NEW r \in Reindexes, NEW p \in Paths, Overtaken(r, p)
  PROVE  p \in moc' \/ Overtaken(r, p)'
<1> USE DEF FilesInv, Types, Threads
<1>1. PICK x \in Reindexes \ {r} :
        /\ Listed(x) # {}
        /\ \/ pc[x] \in {"filling", "error", "lost"}
           \/ pc[x] = "ok" /\ p \notin Listed(x)
  BY DEF Overtaken
<1>2. seen'[x] = seen[x]
  <2>1. ~Scans(x)
    BY <1>1 DEF Scans
  <2>2. \A y \in Reindexes \ {x} : Scans(y) => seen'[x] = seen[x]
    BY DEF Scans
  <2>3. QED
    BY <2>1, <2>2 DEF Step, SaveStep, ReindexStep, MovesSave, MovesReindex, Adds, Fills,
           Chooses, Lists, Reads, Skips, Cuts, Upserts, Maps, Dies, local
<1>3. Listed(x)' = Listed(x)
  BY <1>2 DEF Listed
<1>4. \/ pc'[x] = pc[x]
      \/ pc'[x] \in {"error", "lost"}
      \/ pc[x] = "filling" /\ pc'[x] = "ok" /\ Listed(x) \subseteq moc'
  <2>1. ASSUME NEW y \in Reindexes \ {x}, ReindexStep(y) PROVE pc'[x] = pc[x]
    BY <2>1 DEF ReindexStep, MovesReindex, Lists, Reads, Scans, Upserts, Skips, Cuts, Maps
  <2>2. ASSUME NEW s \in Saves, SaveStep(s) PROVE pc'[x] = pc[x]
    BY <2>2 DEF SaveStep, MovesSave, Adds, Fills, Chooses
  <2>3. CASE ReindexStep(x)
    <3>1. ~Lists(x, "listing", "reading") /\ ~Lists(x, "moc", "scanning") /\ ~Reads(x)
            /\ ~Scans(x) /\ ~Upserts(x) /\ ~Skips(x) /\ ~Cuts(x)
      BY <1>1 DEF Lists, Reads, Scans, Upserts, Skips, Cuts
    <3>2. CASE MovesReindex(x)
      BY <1>1, <3>2 DEF MovesReindex, MayFollowReindex
    <3>3. CASE Maps(x)
      BY <3>3 DEF Maps
    <3>4. QED
      BY <2>3, <3>1, <3>2, <3>3 DEF ReindexStep
  <2>4. CASE Dies
    BY <2>4 DEF Dies
  <2>5. QED
    BY <2>1, <2>2, <2>3, <2>4 DEF Step
<1>5. CASE p \in moc'
  BY <1>5
<1>6. CASE p \notin moc'
  <2>1. /\ Listed(x)' # {}
        /\ \/ pc'[x] \in {"filling", "error", "lost"}
           \/ pc'[x] = "ok" /\ p \notin Listed(x)'
    BY <1>1, <1>3, <1>4, <1>6
  <2>2. QED
    BY <2>1 DEF Overtaken
<1>7. QED
  BY <1>5, <1>6

(* A note that leaves the map was there before another reindexing took it.  *)
LEMMA MapLoses ==
  ASSUME FilesInv, IndexInv, Step, NEW r \in Reindexes, pc[r] = "ok",
         NEW p \in Paths, p \in moc, p \notin moc'
  PROVE  Overtaken(r, p)'
<1> USE DEF FilesInv, Types, Threads
<1>1. PICK x \in Reindexes : Cuts(x) \/ Maps(x)
  BY DEF Step, SaveStep, ReindexStep, MovesSave, MovesReindex, Adds, Fills, Chooses,
         Lists, Reads, Scans, Skips, Upserts, Dies, store
<1>2. x # r /\ Listed(x)' = Listed(x) /\ Listed(x) # {}
  BY <1>1 DEF Cuts, Maps, Listed, local, IndexInv, MapInv
<1>3. pc'[x] \in {"filling", "error"} \/ (pc'[x] = "ok" /\ p \notin Listed(x))
  BY <1>1 DEF Cuts, Maps
<1>4. QED
  BY <1>2, <1>3 DEF Overtaken

(* A file changes at the hands of a save that shares its path with the text *)
(* that was there.                                                          *)
LEMMA FileChanges ==
  ASSUME FilesInv, Step, NEW p \in Paths, NEW s \in Saves, pc[s] \in Wrote
  PROVE  /\ file[p] = s => file'[p] = s \/ Shared(p, s)'
         /\ Shared(p, s) => Shared(p, s)'
<1> USE DEF FilesInv, Types, Threads, Shared
<1>1. Shared(p, s) => Shared(p, s)'
  <2> SUFFICES ASSUME NEW q \in Saves \ {s}, path[q] = p PROVE path'[q] = p
    OBVIOUS
  <2>1. path[q] # Unset
    BY NumbersFinite
  <2>2. \A x \in Saves : Chooses(x) => path'[q] = path[q]
    BY <2>1 DEF Chooses
  <2>3. QED
    BY <2>2 DEF Step, SaveStep, ReindexStep, MovesSave, MovesReindex, Adds, Fills,
           Lists, Reads, Scans, Skips, Cuts, Upserts, Maps, Dies, local
<1>2. ASSUME file[p] = s, file'[p] # s PROVE Shared(p, s)'
  <2>1. PICK q \in Saves : Fills(q, "chosen", "opened", Blank) \/ Fills(q, "opened", "written", q)
    BY <1>2 DEF Step, SaveStep, ReindexStep, MovesSave, MovesReindex, Adds, Chooses,
           Lists, Reads, Scans, Skips, Cuts, Upserts, Maps, Dies, store
  <2>2. path[q] = p /\ path' = path
    BY <1>2, <2>1 DEF Fills, local
  <2>3. q # s
    BY <2>1 DEF Fills, Wrote, Saved
  <2>4. QED
    BY <2>2, <2>3
<1>3. QED
  BY <1>1, <1>2

LEMMA TextsNext ==
  ASSUME FilesInv, IndexInv, Step, NEW r \in Reindexes,
         NEW p \in Paths, p \in DOMAIN docs'[r], NEW v \in Saves, docs'[r][p] = v
  PROVE  /\ file'[p] = v \/ Shared(p, v)'
         /\ p \in DOMAIN seen'[r] => seen'[r][p] = v \/ Shared(p, v)'
<1> USE DEF FilesInv, Types, Threads
<1>1. CASE docs'[r] = docs[r]
  <2>1. pc[v] \in Wrote
    BY <1>1 DEF IndexInv, DocsInv
  <2>2. file[p] = v \/ Shared(p, v)
    BY <1>1 DEF IndexInv, MapInv
  <2>3. file'[p] = v \/ Shared(p, v)'
    BY <2>1, <2>2, FileChanges
  <2>4. CASE seen'[r] = seen[r]
    <3>1. p \in DOMAIN seen[r] => seen[r][p] = v \/ Shared(p, v)
      BY <1>1 DEF IndexInv, MapInv
    <3>2. p \in DOMAIN seen[r] => seen[r][p] = v \/ Shared(p, v)'
      BY <2>1, <3>1, FileChanges
    <3>3. QED
      BY <1>1, <2>3, <2>4, <3>2
  <2>5. CASE Scans(r)
    <3>1. PICK q \in todo[r] :
            seen' = [seen EXCEPT ![r] = Put(seen[r], q, file[q])] \/ seen' = seen
      BY <2>5 DEF Scans
    <3>2. q \in Paths /\ file[q] \in Texts /\ seen[r] \in Documents
      OBVIOUS
    <3> DEFINE new == Put(seen[r], q, file[q])
    <3>3. /\ DOMAIN new = DOMAIN seen[r] \union {q}
          /\ new[q] = file[q]
          /\ \A z \in DOMAIN seen[r] : z # q => new[z] = seen[r][z]
      BY ONLY <3>2, PutType
    <3> HIDE DEF new
    <3>4. seen'[r] = new \/ seen'[r] = seen[r]
      BY <3>1 DEF new
    <3>5. p \in DOMAIN seen[r] => seen[r][p] = v \/ Shared(p, v)
      BY <1>1 DEF IndexInv, MapInv
    <3>6. p \in DOMAIN seen'[r] => seen'[r][p] = v \/ Shared(p, v)
      BY <2>2, <3>3, <3>4, <3>5
    <3>7. p \in DOMAIN seen'[r] => seen'[r][p] = v \/ Shared(p, v)'
      BY <2>1, <3>6, FileChanges
    <3>8. QED
      BY <1>1, <2>3, <3>7
  <2>6. seen'[r] = seen[r] \/ Scans(r)
    <3>1. \A x \in Reindexes \ {r} : Scans(x) => seen'[r] = seen[r]
      BY DEF Scans
    <3>2. QED
      BY <3>1 DEF Step, SaveStep, ReindexStep, MovesSave, MovesReindex, Adds, Fills,
             Chooses, Lists, Reads, Skips, Cuts, Upserts, Maps, Dies, local
  <2>7. QED
    BY <2>4, <2>5, <2>6
<1>2. CASE Reads(r) /\ docs'[r] # docs[r]
  <2>1. PICK q \in todo[r] : docs'[r] = Put(docs[r], q, file[q])
    BY <1>2 DEF Reads
  <2>2. q \in Paths /\ file[q] \in Texts /\ docs[r] \in Documents
    OBVIOUS
  <2> DEFINE new == Put(docs[r], q, file[q])
  <2>3. /\ DOMAIN new = DOMAIN docs[r] \union {q}
        /\ new[q] = file[q]
        /\ \A z \in DOMAIN docs[r] : z # q => new[z] = docs[r][z]
    BY ONLY <2>2, PutType
  <2> HIDE DEF new
  <2>4. docs'[r] = new
    BY <2>1 DEF new
  <2>5. UNCHANGED <<file, path>> /\ seen'[r] = seen[r] /\ DOMAIN seen[r] = {}
    BY <1>2 DEF Reads, store, IndexInv, MapInv
  <2>6. CASE p = q
    BY <2>3, <2>4, <2>5, <2>6
  <2>7. CASE p # q
    <3>1. p \in DOMAIN docs[r] /\ docs[r][p] = v
      BY <2>3, <2>4, <2>7
    <3>2. file[p] = v \/ Shared(p, v)
      BY <3>1 DEF IndexInv, MapInv
    <3>3. QED
      BY <2>5, <3>1, <3>2 DEF Shared
  <2>8. QED
    BY <2>6, <2>7
<1>3. docs'[r] = docs[r] \/ Reads(r)
  <2>1. \A x \in Reindexes \ {r} : Reads(x) => docs'[r] = docs[r]
    BY DEF Reads
  <2>2. QED
    BY <2>1 DEF Step, SaveStep, ReindexStep, MovesSave, MovesReindex, Adds, Fills,
           Chooses, Lists, Scans, Skips, Cuts, Upserts, Maps, Dies, local
<1>4. QED
  BY <1>1, <1>2, <1>3

LEMMA MapNext ==
  ASSUME FilesInv, IndexInv, Step, NEW r \in Reindexes
  PROVE  MapInv(r)'
<1> USE DEF FilesInv, Types, Threads
<1>1. (\A p \in DOMAIN docs[r] : docs[r][p] \in Saves =>
         /\ file[p] = docs[r][p] \/ Shared(p, docs[r][p])
         /\ p \in DOMAIN seen[r] => seen[r][p] = docs[r][p] \/ Shared(p, docs[r][p]))'
  <2>1. docs'[r] \in Documents
    BY FilesStep
  <2>2. DOMAIN docs'[r] \subseteq Paths
    BY <2>1, DocumentsType
  <2>3. QED
    BY <2>2, TextsNext DEF Shared
<1>2. CASE ~ReindexStep(r)
  <2>1. seen'[r] = seen[r] /\ (pc'[r] = pc[r] \/ pc'[r] = "lost")
    <3>1. \A x \in Reindexes \ {r} : ReindexStep(x) =>
            seen'[r] = seen[r] /\ pc'[r] = pc[r]
      BY DEF ReindexStep, MovesReindex, Lists, Reads, Scans, Upserts, Skips, Cuts, Maps,
             local
    <3>2. \A s \in Saves : SaveStep(s) => seen'[r] = seen[r] /\ pc'[r] = pc[r]
      BY DEF SaveStep, MovesSave, Adds, Fills, Chooses, local
    <3>3. Dies => seen'[r] = seen[r] /\ (pc'[r] = pc[r] \/ pc'[r] = "lost")
      BY DEF Dies
    <3>4. QED
      BY <1>2, <3>1, <3>2, <3>3 DEF Step, local
  <2>2. Listed(r)' = Listed(r) /\ Listed(r) \subseteq Paths
    BY <2>1, DocumentsType DEF Listed
  <2>3. ASSUME pc'[r] = "ok", NEW p \in Listed(r) PROVE p \in moc' \/ Overtaken(r, p)'
    BY <2>1, <2>2, <2>3, OvertakenStays, MapLoses DEF IndexInv, MapInv
  <2>4. QED
    BY <1>1, <2>1, <2>2, <2>3 DEF IndexInv, MapInv, Early
<1>3. CASE ReindexStep(r)
  <2>1. pc[r] # "ok"
    BY <1>3 DEF ReindexStep, MovesReindex, MayFollowReindex, Lists, Reads, Scans, Upserts,
           Skips, Cuts, Maps
  <2>2. pc'[r] = "ok" => Listed(r)' \subseteq moc'
    BY <1>3, <2>1 DEF ReindexStep, MovesReindex, MayFollowReindex, Lists, Reads, Scans,
           Upserts, Skips, Cuts, Maps, Listed, local
  <2>3. pc'[r] = "filling" => Listed(r)' # {}
    BY <1>3 DEF ReindexStep, MovesReindex, MayFollowReindex, Lists, Reads, Scans,
           Upserts, Skips, Cuts, Maps, Listed, local
  <2>4. pc'[r] \in Early \union {"reading", "moc"} => DOMAIN seen'[r] = {}
    BY <1>3 DEF ReindexStep, MovesReindex, MayFollowReindex, Lists, Reads, Scans,
           Upserts, Skips, Cuts, Maps, local, IndexInv, MapInv, Early
  <2>5. QED
    BY <1>1, <2>2, <2>3, <2>4 DEF MapInv
<1>4. QED
  BY <1>2, <1>3

-----------------------------------------------------------------------------
(* The theorems                                                             *)

LEMMA IndexedNext ==
  ASSUME FilesInv, IndexInv, Step, NEW s \in Saves, pc'[s] = "indexed"
  PROVE  path'[s] \in Indexed'
<1> USE DEF FilesInv, Types, Threads
<1>1. CASE pc[s] = "indexed"
  <2>1. path'[s] = path[s]
    BY <1>1 DEF Step, SaveStep, ReindexStep, MovesSave, MovesReindex, Adds, Fills, Chooses,
           Lists, Reads, Scans, Skips, Cuts, Upserts, Maps, Dies, local
  <2>2. QED
    BY <1>1, <2>1, IndexedStay DEF IndexInv
<1>2. CASE pc[s] # "indexed"
  <2>1. Adds(s)
    BY <1>2 DEF Step, SaveStep, ReindexStep, MovesSave, MayFollow, MovesReindex, Adds, Fills,
           Chooses, Lists, Reads, Scans, Skips, Cuts, Upserts, Maps, Dies
  <2>2. QED
    BY <2>1, Marks, NumbersFinite DEF Adds, Indexed, local
<1>3. QED
  BY <1>1, <1>2

LEMMA IndexNext == FilesInv /\ IndexInv /\ [Next]_vars => IndexInv'
<1> SUFFICES ASSUME FilesInv, IndexInv, [Next]_vars PROVE IndexInv'
  OBVIOUS
<1>1. Step
  BY StepShape DEF FilesInv
<1>2. \A r \in Reindexes : DocsInv(r)'
  BY <1>1, DocsNext
<1>3. IndexCurrent'
  BY <1>1, CurrentNext DEF IndexCurrent
<1>4. \A r \in Reindexes : MapInv(r)'
  BY <1>1, MapNext
<1>5. QED
  BY <1>1, <1>2, <1>3, <1>4, IndexedNext DEF IndexInv

LEMMA IndexHolds == Spec => []IndexInv
<1>1. Init => IndexInv
  BY Marks DEF Init, IndexInv, DocsInv, MapInv, Mapped, Mapping, Existing, IndexCurrent,
         Upserted, Threads
<1>2. QED
  BY <1>1, FilesHold, IndexNext, PTL DEF Spec

(* The index has the text of the file, through outages, batches of which a  *)
(* part arrives, and restarts, unless two texts of it were under way.       *)
THEOREM IndexIsCurrent == Spec => []IndexCurrent
BY IndexHolds, PTL DEF IndexInv

(* A note under the tag that a reindexing has indexed is missing from the   *)
(* map only when its scan could not read the file, the file was written     *)
(* over, or another reindexing has the map in hand, left it cut or wrote it *)
(* from a scan without the note.                                            *)
THEOREM MissingNotesExplained == Spec => []MissingExplained
<1>1. FilesInv /\ IndexInv => MissingExplained
  <2> SUFFICES ASSUME FilesInv, IndexInv, NEW r \in Reindexes, pc[r] = "ok",
                      NEW p \in DOMAIN docs[r], docs[r][p] \in Tagged, p \notin moc,
                      p \in DOMAIN seen[r], ~Overtaken(r, p)
               PROVE  \E s \in Saves \ {docs[r][p]} : path[s] = p
    BY DEF MissingExplained
  <2>1. p \notin Listed(r)
    BY DEF IndexInv, MapInv
  <2>2. docs[r][p] \in Saves /\ seen[r][p] # docs[r][p]
    BY <2>1, TaggedAssumption DEF Listed
  <2>3. QED
    BY <2>2 DEF IndexInv, MapInv, Shared
<1>2. QED
  BY <1>1, FilesHold, IndexHolds, PTL

(* A note that was saved is found, unless it could not be indexed, no       *)
(* reindexing has read it since and the index answers with something else.  *)
THEOREM HiddenNotesExplained == Spec => []HiddenExplained
<1>1. FilesInv /\ IndexInv => HiddenExplained
  <2> SUFFICES ASSUME FilesInv, IndexInv, NEW s \in Saves,
                      pc[s] \in {"indexed", "unindexed"}, path[s] \notin VaultSearch
               PROVE  /\ pc[s] = "unindexed" /\ Indexed # {}
                      /\ \A r \in Reindexes : pc[r] = "ok" => path[s] \notin DOMAIN docs[r]
    BY DEF HiddenExplained
  <2>1. path[s] \in Paths /\ path[s] \in Existing
    BY DEF FilesInv, Types, Saved, Existing
  <2>2. VaultSearch = Indexed /\ Indexed # {}
    BY <2>1 DEF VaultSearch
  <2>3. QED
    BY <2>2 DEF IndexInv, DocsInv, Mapped, Mapping
<1>2. QED
  BY <1>1, FilesHold, IndexHolds, PTL
=============================================================================
