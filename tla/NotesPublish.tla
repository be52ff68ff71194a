---------------------------- MODULE NotesPublish ----------------------------
(***************************************************************************)
(* /notes (app/bot/commands/notes_cmd.py, app/worker/publish_ops.py) next  *)
(* to the export it starts: a list of the notes with a button for each, in *)
(* a session of its own; a tap asks the worker to set the flag of a note   *)
(* to the opposite of what the session shows.  set_publish runs in a       *)
(* thread: it reads the whole note and writes the whole note, opening      *)
(* (and emptying) the file in between.  Obsidian saves the same files.     *)
(*                                                                         *)
(* The bot handles one tap at a time and waits at most 15 s; the thread of *)
(* a request it has given up goes on.  The list is read in one step: only  *)
(* such a thread could change a note meanwhile.                            *)
(***************************************************************************)
EXTENDS VaultExport

CONSTANTS
  Sessions,    (* tokens of the lists that /notes shows                     *)
  NoRows,      (* no such token, or one that was closed                     *)
  Disturbed,   (* of a note whose state depends on a race                   *)
  MaxEdits     (* bound: notes saved in Obsidian                            *)

ASSUME SessionsAssumption == NoRows \notin [Notes -> BOOLEAN]
ASSUME EditsAssumption == MaxEdits \in Nat

Taps     == 1 .. MaxToggles   (* toggles counts the taps so far             *)
Applying == MaxToggles + 1

VARIABLES
  rows,       (* _sessions: the flags a list shows                          *)
  waiting,    (* what the bot waits for: a tap, Applying or nothing (0)     *)
  thread,     (* set_publish in the worker, by the tap that asked for it    *)
  text,       (* version of a note; 0 when the file is empty                *)
  edits,
  left        (* history: text and flag as Obsidian or an answer left them, *)
              (* or Disturbed: a request overlapped with another change of  *)
              (* the note, was given up or lost                             *)

notesVars == <<rows, waiting, thread, text, edits, left>>
allVars   == <<vars, notesVars>>

NoThread == [at |-> "none"]

NotesInit ==
  /\ Init
  /\ rows = [s \in Sessions |-> NoRows]
  /\ waiting = 0
  /\ thread = [t \in Taps |-> NoThread]
  /\ text = [n \in Notes |-> 1]
  /\ edits = 0
  /\ left = [n \in Notes |-> [text |-> 1, flag |-> published[n]]]

Busy(n) == {t \in Taps : thread[t].at # "none" /\ thread[t].note = n}

(* At most a request the bot waits for, which has not looked at n yet.      *)
Calm(n) == \A t \in Busy(n) : thread[t].at = "sent" /\ waiting = t

-----------------------------------------------------------------------------
(* The bot                                                                  *)

(* cmd_notes *)
ListNotes(s) ==
  /\ waiting = 0
  /\ rows[s] = NoRows
  /\ rows' = [rows EXCEPT ![s] = published]
  /\ UNCHANGED <<vars, waiting, thread, text, edits, left>>

Open(s) == waiting = 0 /\ rows[s] # NoRows

Close(s) ==
  /\ Open(s)
  /\ rows' = [rows EXCEPT ![s] = NoRows]
  /\ UNCHANGED <<vars, waiting, thread, text, edits, left>>

(* handle_notes_callback, "tog": new_val is the opposite of the row.        *)
Toggle(s, n) ==
  /\ Open(s)
  /\ toggles < MaxToggles
  /\ toggles' = toggles + 1
  /\ waiting' = toggles'
  /\ thread' = [thread EXCEPT ![toggles'] =
                  [at |-> "sent", note |-> n, value |-> ~rows[s][n], from |-> s, text |-> 0]]
  /\ UNCHANGED <<published, site, manifest, export, ever, always, failures,
                 rows, text, edits, left>>

(* "applyok": the session ends and the worker exports.                      *)
Apply(s) ==
  /\ Open(s)
  /\ rows' = [rows EXCEPT ![s] = NoRows]
  /\ \/ Start /\ waiting' = Applying
     \/ manifest = Broken /\ UNCHANGED <<vars, waiting>>
  /\ UNCHANGED <<thread, text, edits, left>>

Applied ==
  /\ waiting = Applying /\ step = "idle"
  /\ waiting' = 0
  /\ UNCHANGED <<vars, rows, thread, text, edits, left>>

(* The answer to a tap: the row follows what was written.  Nobody listens   *)
(* after a time-out.                                                        *)
Answer(t) ==
  LET n == thread[t].note  s == thread[t].from IN
  /\ thread[t].at = "written"
  /\ thread' = [thread EXCEPT ![t] = NoThread]
  /\ IF waiting = t
     THEN /\ waiting' = 0
          /\ rows' = [rows EXCEPT ![s][n] = thread[t].value]
          /\ left' = IF left[n] = Disturbed THEN left
                     ELSE [left EXCEPT ![n] = [text |-> @.text, flag |-> thread[t].value]]
     ELSE UNCHANGED <<waiting, rows, left>>
  /\ UNCHANGED <<vars, text, edits>>

GiveUp ==
  /\ waiting \in Taps
  /\ failures < MaxFailures /\ failures' = failures + 1
  /\ left' = [left EXCEPT ![thread[waiting].note] = Disturbed]
  /\ waiting' = 0
  /\ UNCHANGED <<published, site, manifest, export, ever, always, toggles,
                 rows, thread, text, edits>>

-----------------------------------------------------------------------------
(* The worker                                                               *)

(* t goes on, with what it has read of the note.                            *)
Proceed(t, from, to, read) ==
  /\ thread[t].at = from
  /\ thread' = [thread EXCEPT ![t] =
                  [at |-> to, note |-> @.note, value |-> @.value, from |-> @.from, text |-> read]]

(* set_publish: read_text ...                                               *)
ReadNote(t) ==
  /\ Proceed(t, "sent", "read", text[thread[t].note])
  /\ UNCHANGED <<vars, rows, waiting, text, edits, left>>

(* ... write_text opens the file, which empties it ...                      *)
OpenNote(t) ==
  LET n == thread[t].note IN
  /\ Proceed(t, "read", "open", thread[t].text)
  /\ text' = [text EXCEPT ![n] = 0]
  /\ Flag(n, FALSE)
  /\ UNCHANGED <<site, manifest, export, toggles, failures, rows, waiting, edits, left>>

(* Mutant of WriteNote: the flag is flipped, whatever was asked for.        *)
WriteFlipped(t) ==
  LET n == thread[t].note IN
  /\ Proceed(t, "open", "written", thread[t].text)
  /\ text' = [text EXCEPT ![n] = thread[t].text]
  /\ Flag(n, left[n] = Disturbed \/ ~left[n].flag)
  /\ UNCHANGED <<site, manifest, export, toggles, failures, rows, waiting, edits, left>>

(* ... and writes what was read with the flag that was asked for.           *)
WriteNote(t) ==
  LET n == thread[t].note IN
  /\ Proceed(t, "open", "written", thread[t].text)
  /\ text' = [text EXCEPT ![n] = thread[t].text]
  /\ Flag(n, thread[t].value)
  /\ UNCHANGED <<site, manifest, export, toggles, failures, rows, waiting, edits, left>>

(* An OSError of any of the three; the bot is told of a failure.            *)
SetPublishFails(t) ==
  LET n == thread[t].note IN
  /\ thread[t].at \in {"sent", "read", "open"}
  /\ failures < MaxFailures /\ failures' = failures + 1
  /\ thread' = [thread EXCEPT ![t] = NoThread]
  /\ waiting' = IF waiting = t THEN 0 ELSE waiting
  /\ left' = IF thread[t].at = "open" THEN [left EXCEPT ![n] = Disturbed] ELSE left
  /\ UNCHANGED <<published, site, manifest, export, ever, always, toggles, rows, text, edits>>

SetPublishOf(t) == ReadNote(t) \/ OpenNote(t) \/ WriteNote(t)

(* The worker is stopped: its threads and an export end where they are, and *)
(* what the bot waits for fails.                                            *)
WorkerStops ==
  /\ failures < MaxFailures /\ failures' = failures + 1
  /\ left' = [n \in Notes |->
                IF \E t \in Busy(n) : thread[t].at \in {"open", "written"}
                THEN Disturbed ELSE left[n]]
  /\ thread' = [t \in Taps |-> NoThread]
  /\ waiting' = 0
  /\ step' = "idle" /\ owned' = {} /\ position' = 1 /\ chosen' = <<>>
  /\ ever' = {} /\ always' = {}
  /\ UNCHANGED <<published, site, manifest, toggles, rows, text, edits>>

(* Obsidian saves a note, flag and all.                                     *)
Edit(n, flag) ==
  /\ edits < MaxEdits /\ edits' = edits + 1
  /\ text' = [text EXCEPT ![n] = edits' + 1]
  /\ Flag(n, flag)
  /\ left' = [left EXCEPT ![n] =
                IF Calm(n) THEN [text |-> edits' + 1, flag |-> flag] ELSE Disturbed]
  /\ UNCHANGED <<site, manifest, export, toggles, failures, rows, waiting, thread>>

(* export(), started by Apply.                                              *)
Exports ==
  RemoveOwned \/ Collect \/ Copy \/ TruncateManifest \/ WriteManifest \/ EnsureIndex

NotesNext ==
  \/ \E s \in Sessions :
       ListNotes(s) \/ Close(s) \/ Apply(s) \/ \E n \in Notes : Toggle(s, n)
  \/ \E t \in Taps : Answer(t) \/ SetPublishOf(t) \/ SetPublishFails(t)
  \/ Applied \/ GiveUp \/ WorkerStops
  \/ \E n \in Notes, flag \in BOOLEAN : Edit(n, flag)
  \/ /\ \/ Exports \/ CutShort
        \/ \E p \in ForeignPaths : PublishForeign(p)
     /\ UNCHANGED notesVars

NotesSpec == NotesInit /\ [][NotesNext]_allVars

-----------------------------------------------------------------------------

(* A note has the text that Obsidian saved last and the flag that was saved *)
(* or answered last, whichever list the tap came from and however old that  *)
(* list is, unless its requests were overtaken by another change of the     *)
(* same note, given up or lost (set_publish writes the whole note).         *)
NoteAsLeft ==
  \A n \in Notes :
    Busy(n) = {} /\ left[n] # Disturbed
      => text[n] = left[n].text /\ published[n] = left[n].flag
=============================================================================
