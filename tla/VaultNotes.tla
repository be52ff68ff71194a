------------------------------ MODULE VaultNotes ------------------------------
(***************************************************************************)
(* Notes of the vault: vault_save and vault_search (app/tools/obsidian.py),*)
(* the vector index in Qdrant (app/rag/vault_index.py), and the reindexing *)
(* that also writes the map of content (app/worker/server.py, moc.py).     *)
(*                                                                         *)
(* Tools of agents and reindexings run in threads of the worker            *)
(* (asyncio.to_thread), a digest saves its note in the event loop.  A note *)
(* is known by the save that wrote it; its path is its title and a number. *)
(***************************************************************************)
EXTENDS Integers, FiniteSets

CONSTANTS
  Saves,       (* calls of vault_save                                       *)
  Titles,
  TitleOf,     (* the sanitised title and category of a save                *)
  Tagged,      (* the saves whose note has a tag area/...                   *)
  DigestSets,  (* which saves may be digests, those of the event loop       *)
  Reindexes,   (* POST /vault/reindex                                       *)
  MaxFaults    (* bound: outages of Qdrant and calls to it, files and       *)
               (* models that fail, crashes of the worker                   *)

ASSUME SavesAssumption == IsFiniteSet(Saves)
ASSUME ReindexesAssumption == IsFiniteSet(Reindexes) /\ Reindexes \cap Saves = {}
ASSUME TitleOfAssumption == TitleOf \in [Saves -> Titles]
ASSUME TaggedAssumption == Tagged \subseteq Saves
ASSUME DigestSetsAssumption == DigestSets \subseteq SUBSET Saves
ASSUME MaxFaultsAssumption == MaxFaults \in Nat

VARIABLES
  file,      (* the .md files                                               *)
  index,     (* the text Qdrant has under the point id of a path            *)
  moc,       (* the notes that the map of content of that area lists        *)
  qdrant,    (* Qdrant is up                                                *)
  client,    (* _client is there                                            *)
  down,      (* the time is before _down_until                              *)
  pc,        (* where a save or a reindexing stands                         *)
  digests,   (* the saves of the event loop (generate_digest)               *)
  path,      (* the path a save has chosen                                  *)
  older,     (* auxiliary: the saves that had written when it chose         *)
  todo,      (* the files a reindexing, or its scan, has still to read      *)
  docs,      (* the documents it has read                                   *)
  seen,      (* the texts that the scan for its map has read                *)
  faults

store  == <<file, index, moc>>
engine == <<qdrant, client, down>>
local  == <<digests, path, older, todo, docs, seen>>
vars   == <<store, engine, pc, local, faults>>

-----------------------------------------------------------------------------

Absent == "absent"
Blank  == "blank"           (* opened for writing, and nothing in it yet *)
Unset  == <<"none", 0>>

ASSUME MarksAssumption == {Absent, Blank} \cap Saves = {}

Paths    == Titles \X (1..Cardinality(Saves))
Threads  == Saves \union Reindexes
Existing == {p \in Paths : file[p] # Absent}

Writing == {"chosen", "opened"}
Saved   == {"written", "adding", "indexed", "unindexed"}
Mapping == {"moc", "scanning", "filling"}
Busy    == Writing \union Mapping \union {"written", "adding", "client", "listing", "reading"}

(* A function extended or changed at p.                                     *)
Put(f, p, v) == [q \in DOMAIN f \union {p} |-> IF q = p THEN v ELSE f[q]]

Move(t, from, to) == pc[t] = from /\ pc' = [pc EXCEPT ![t] = to]

Fault == faults < MaxFaults /\ faults' = faults + 1

MarkDown == down' = TRUE /\ UNCHANGED <<qdrant, client>>

Init ==
  /\ file = [p \in Paths |-> Absent]
  /\ index = [p \in Paths |-> Absent]
  /\ moc = {}
  /\ qdrant = TRUE
  /\ client = FALSE
  /\ down = FALSE
  /\ pc = [t \in Threads |-> "idle"]
  /\ digests \in DigestSets
  /\ path = [s \in Saves |-> Unset]
  /\ older = [s \in Saves |-> {}]
  /\ todo = [r \in Reindexes |-> {}]
  /\ docs = [r \in Reindexes |-> <<>>]
  /\ seen = [r \in Reindexes |-> <<>>]
  /\ faults = 0

-----------------------------------------------------------------------------
(* vault_save.                                                              *)

(* The event loop saves one digest at a time.                               *)
LoopFree(s) == s \in digests => \A q \in digests \ {s} : pc[q] \notin Busy

(* Mutant of FirstFree: nobody looks whether the name is free.              *)
AlwaysFirst(t) == 1

(* base.md, base-2.md, base-3.md, ...: no file is ever removed, so that the *)
(* loop ends where the first free name is at its last look.                 *)
FirstFree(t) ==
  CHOOSE n \in 1..Cardinality(Saves) :
    file[<<t, n>>] = Absent /\ \A m \in 1..(n - 1) : file[<<t, m>>] # Absent

(* A save without a title or with too much text changes nothing: it is the  *)
(* one that stays idle.                                                     *)
Choose(s) ==
  /\ LoopFree(s)
  /\ Move(s, "idle", "chosen")
  /\ path' = [path EXCEPT ![s] = <<TitleOf[s], FirstFree(TitleOf[s])>>]
  /\ older' = [older EXCEPT ![s] = {q \in Saves : pc[q] \in Saved}]
  /\ UNCHANGED <<store, engine, digests, todo, docs, seen, faults>>

(* write_text opens (and cuts) the file ...                                 *)
Open(s) ==
  /\ \/ Move(s, "chosen", "opened") /\ file' = [file EXCEPT ![path[s]] = Blank]
                                    /\ UNCHANGED faults
     \/ Move(s, "chosen", "error") /\ Fault /\ UNCHANGED file
  /\ UNCHANGED <<index, moc, engine, local>>

(* Mutant of Write: what is written stays in a buffer.                      *)
WriteUnflushed(s) ==
  /\ Move(s, "opened", "written")
  /\ UNCHANGED <<store, engine, local, faults>>

(* ... and fills it.                                                        *)
Write(s) ==
  /\ \/ Move(s, "opened", "written") /\ file' = [file EXCEPT ![path[s]] = s]
                                     /\ UNCHANGED faults
     \/ Move(s, "opened", "error") /\ Fault /\ UNCHANGED file
  /\ UNCHANGED <<index, moc, engine, local>>

(* _get_client: none within 30 s of a failure; else the one there is, or a  *)
(* new one, whose embedding model may not load.                             *)
GetClient(t, from, to, without) ==
  /\ \/ down /\ Move(t, from, without) /\ UNCHANGED <<engine, faults>>
     \/ ~down /\ Move(t, from, to) /\ client' = TRUE /\ UNCHANGED <<qdrant, down, faults>>
     \/ ~down /\ ~client /\ Move(t, from, without) /\ MarkDown /\ Fault
  /\ UNCHANGED <<store, local>>

(* A call of Qdrant fails when it is down, and may fail when it is up.      *)
CallFails == MarkDown /\ (IF qdrant THEN Fault ELSE UNCHANGED faults)

(* index_note: one upsert of the text in hand; its time-out may come late.  *)
AddNote(s) ==
  /\ \/ /\ qdrant /\ Move(s, "adding", "indexed")
        /\ index' = [index EXCEPT ![path[s]] = s]
        /\ UNCHANGED <<engine, faults>>
     \/ /\ Move(s, "adding", "unindexed")
        /\ CallFails
        /\ UNCHANGED index \/ (qdrant /\ index' = [index EXCEPT ![path[s]] = s])
  /\ UNCHANGED <<file, moc, local>>

-----------------------------------------------------------------------------
(* POST /vault/reindex.                                                     *)

VaultExists == \E s \in Saves : path[s] # Unset

StartReindex(r) ==
  /\ Move(r, "idle", IF VaultExists THEN "client" ELSE "missing")
  /\ UNCHANGED <<store, engine, local, faults>>

List(r) ==
  /\ Move(r, "listing", "reading")
  /\ todo' = [todo EXCEPT ![r] = Existing]
  /\ UNCHANGED <<store, engine, digests, path, older, docs, seen, faults>>

(* One file after the other, in a fixed order; one that cannot be read is   *)
(* passed over.                                                             *)
Read(r) ==
  /\ pc[r] = "reading"
  /\ todo[r] # {}
  /\ LET p == CHOOSE q \in todo[r] : TRUE
     IN  /\ todo' = [todo EXCEPT ![r] = @ \ {p}]
         /\ \/ docs' = [docs EXCEPT ![r] = Put(@, p, file[p])] /\ UNCHANGED faults
            \/ UNCHANGED docs /\ Fault
  /\ UNCHANGED <<store, engine, pc, digests, path, older, seen>>

Upsert(r, some) == index' = [p \in Paths |-> IF p \in some THEN docs[r][p] ELSE index[p]]

(* Mutant of AddAll: an error after some of the batches passes for success. *)
AddSome(r) ==
  /\ todo[r] = {}
  /\ Move(r, "reading", "moc")
  /\ \/ qdrant /\ Upsert(r, DOMAIN docs[r]) /\ UNCHANGED <<engine, faults>>
     \/ /\ CallFails
        /\ \E some \in SUBSET DOMAIN docs[r] : (some # {} => qdrant) /\ Upsert(r, some)
  /\ UNCHANGED <<file, moc, local>>

(* index_all sends the documents in batches, of which some may have arrived *)
(* when it fails; with no document it sends nothing.                        *)
AddAll(r) ==
  /\ todo[r] = {}
  /\ \/ /\ qdrant \/ DOMAIN docs[r] = {}
        /\ Move(r, "reading", "moc")
        /\ Upsert(r, DOMAIN docs[r])
        /\ UNCHANGED <<engine, faults>>
     \/ /\ DOMAIN docs[r] # {}
        /\ Move(r, "reading", "unavailable")
        /\ CallFails
        /\ \E some \in SUBSET DOMAIN docs[r] : (some # {} => qdrant) /\ Upsert(r, some)
  /\ UNCHANGED <<file, moc, local>>

(* build_moc runs in a thread of its own call.  It looks for the notes ...   *)
ListMap(r) ==
  /\ Move(r, "moc", "scanning")
  /\ todo' = [todo EXCEPT ![r] = Existing]
  /\ UNCHANGED <<store, engine, digests, path, older, docs, seen, faults>>

(* ... and reads them again; one that cannot be read is passed over.        *)
Scan(r) ==
  /\ pc[r] = "scanning"
  /\ todo[r] # {}
  /\ LET p == CHOOSE q \in todo[r] : TRUE
     IN  /\ todo' = [todo EXCEPT ![r] = @ \ {p}]
         /\ \/ seen' = [seen EXCEPT ![r] = Put(@, p, file[p])] /\ UNCHANGED faults
            \/ UNCHANGED seen /\ Fault
  /\ UNCHANGED <<store, engine, pc, digests, path, older, docs>>

(* The notes under the tag of the area.                                     *)
Listed(r) == {p \in DOMAIN seen[r] : seen[r][p] \in Tagged}

(* Without any, no map is written: the one that is there stays.  The        *)
(* dashboard, which nobody reads, is written in any case, if it can be.     *)
NoMap(r) ==
  /\ todo[r] = {} /\ Listed(r) = {}
  /\ \/ Move(r, "scanning", "ok") /\ UNCHANGED faults
     \/ Move(r, "scanning", "error") /\ DOMAIN seen[r] # {} /\ Fault
  /\ UNCHANGED <<store, engine, local>>

(* write_text cuts the map that was there ...                               *)
OpenMap(r) ==
  /\ todo[r] = {} /\ Listed(r) # {}
  /\ \/ Move(r, "scanning", "filling") /\ moc' = {} /\ UNCHANGED faults
     \/ Move(r, "scanning", "error") /\ Fault /\ UNCHANGED moc
  /\ UNCHANGED <<file, index, engine, local>>

(* Mutant of FillMap: only what has changed since it was indexed is listed. *)
FillChanged(r) ==
  /\ Move(r, "filling", "ok")
  /\ moc' = moc \union {p \in Listed(r) : p \in DOMAIN docs[r] => seen[r][p] # docs[r][p]}
  /\ UNCHANGED <<file, index, engine, local, faults>>

(* ... and fills it; what another has written since it was cut is replaced, *)
(* but for a longer tail.  An error comes before, or after the map with the *)
(* dashboard; what the index has is kept.                                   *)
FillMap(r) ==
  /\ \/ Move(r, "filling", "ok") /\ UNCHANGED faults
     \/ Move(r, "filling", "error") /\ Fault
  /\ \/ \E tail \in SUBSET moc : moc' = Listed(r) \union tail
     \/ pc'[r] = "error" /\ UNCHANGED moc
  /\ UNCHANGED <<file, index, engine, local>>

-----------------------------------------------------------------------------

(* semantic_search asks Qdrant too, and marks it down when that fails.      *)
SearchFails ==
  /\ ~down
  /\ client
  /\ CallFails
  /\ UNCHANGED <<store, pc, local>>

Indexed == {p \in Paths : index[p] # Absent}

(* Mutant of VaultSearch: no fallback.                                      *)
SemanticOnly == Indexed

(* What vault_search finds, for a query that every note matches: the index, *)
(* or the files when it cannot be asked or has nothing.                     *)
VaultSearch == IF qdrant /\ ~down /\ Indexed # {} THEN Indexed ELSE Existing

(* Threads die with the worker, files and points stay.                      *)
Crash ==
  /\ Fault
  /\ pc' = [t \in Threads |-> IF pc[t] \in Busy THEN "lost" ELSE pc[t]]
  /\ client' = FALSE
  /\ down' = FALSE
  /\ todo' = [r \in Reindexes |-> {}]
  /\ UNCHANGED <<store, qdrant, digests, path, older, docs, seen>>

WindowEnds == down /\ down' = FALSE /\ UNCHANGED <<store, qdrant, client, pc, local, faults>>

Outage ==
  /\ \/ qdrant /\ Fault
     \/ ~qdrant /\ UNCHANGED faults
  /\ qdrant' = ~qdrant
  /\ UNCHANGED <<store, client, down, pc, local>>

VaultSave(s) ==
  \/ Choose(s) \/ Open(s) \/ Write(s)
  \/ GetClient(s, "written", "adding", "unindexed") \/ AddNote(s)

Reindex(r) ==
  \/ StartReindex(r) \/ GetClient(r, "client", "listing", "unavailable")
  \/ List(r) \/ Read(r) \/ AddAll(r)
  \/ ListMap(r) \/ Scan(r) \/ NoMap(r) \/ OpenMap(r) \/ FillMap(r)

Next ==
  \/ \E s \in Saves : VaultSave(s)
  \/ \E r \in Reindexes : Reindex(r)
  \/ SearchFails \/ Crash \/ WindowEnds \/ Outage

Spec == Init /\ [][Next]_vars

-----------------------------------------------------------------------------

(* A save never replaces a note that was written before it chose its name,  *)
(* and a digest never one of another digest ("동일 파일명 존재 시 -2, -3 …    *)
(* 접미사", a suffix when the name exists, in app/tools/obsidian.py).  Saves  *)
(* in threads that overlap may choose the same name.                        *)
OlderNotesKept ==
  \A s, q \in Saves :
    s # q /\ path[s] # Unset /\ path[s] = path[q] =>
      /\ q \notin older[s]
      /\ {s, q} \subseteq digests => pc[s] \notin Saved \/ pc[q] \notin Saved

(* A file that is empty is being written, or its save failed or died.       *)
BlankExplained ==
  \A p \in Paths : file[p] = Blank =>
    \E s \in Saves : path[s] = p /\ pc[s] \in {"opened", "error", "lost"}

(* The text of p has been put in the index by its own save, or by a         *)
(* reindexing that read it.                                                 *)
Upserted(p) ==
  \/ pc[file[p]] = "indexed"
  \/ \E r \in Reindexes : /\ pc[r] \in Mapping \union {"ok"}
                          /\ p \in DOMAIN docs[r] /\ docs[r][p] = file[p]

(* Somebody has another text of p in hand: a save that chose the same name, *)
(* or a reindexing that read the file too early.                            *)
Contested(p) ==
  \/ \E s \in Saves : path[s] = p /\ s # file[p]
  \/ \E r \in Reindexes : p \in DOMAIN docs[r] /\ docs[r][p] # file[p]

(* The index has the text of the file, through outages, batches that fail   *)
(* half-way and restarts, unless two texts of one path were under way       *)
(* (index_note, index_all).                                                 *)
IndexCurrent ==
  \A p \in Paths :
    file[p] \in Saves /\ Upserted(p) /\ ~Contested(p) => index[p] = file[p]

(* "미가용 시 무시 — 키워드 검색은 계속 동작" (ignored when there is no        *)
(* index, the keyword search goes on), in app/tools/obsidian.py: a note     *)
(* whose save has ended is found, unless the index was not to be had when   *)
(* it was saved, no reindexing has read it since, and the index has         *)
(* something else to answer with.                                           *)
HiddenExplained ==
  \A s \in Saves :
    pc[s] \in {"indexed", "unindexed"} /\ path[s] \notin VaultSearch =>
      /\ pc[s] = "unindexed" /\ Indexed # {}
      /\ \A r \in Reindexes : pc[r] = "ok" => path[s] \notin DOMAIN docs[r]

(* Another reindexing has the map in hand, or left it cut, or has written   *)
(* it from a scan that did not find p: one that is older perhaps.           *)
Overtaken(r, p) ==
  \E x \in Reindexes \ {r} :
    /\ Listed(x) # {}
    /\ \/ pc[x] \in {"filling", "error", "lost"}
       \/ pc[x] = "ok" /\ p \notin Listed(x)

(* "/reindex 마다 덮어쓴다" (every reindexing overwrites it, app/rag/moc.py):  *)
(* a note under the tag that a reindexing has put in the index before it    *)
(* answered ok is in the map as well, whatever came later, unless its scan  *)
(* could not read the file, another save of the same name has written over  *)
(* it, or another reindexing's map replaced this one.                       *)
MissingExplained ==
  \A r \in Reindexes : pc[r] = "ok" =>
    \A p \in DOMAIN docs[r] : docs[r][p] \in Tagged /\ p \notin moc =>
      \/ p \notin DOMAIN seen[r]
      \/ \E s \in Saves \ {docs[r][p]} : path[s] = p
      \/ Overtaken(r, p)
=============================================================================
