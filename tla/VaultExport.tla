------------------------------ MODULE VaultExport ------------------------------
(***************************************************************************)
(* scripts/publish_vault.py, which the worker loads for "publish":         *)
(* export() refreshes site/content from the notes of the vault that carry  *)
(* publish: true.  It removes the files the manifest of the last export    *)
(* lists, looks at every note in turn, copies the published ones and       *)
(* writes a new manifest.  Meanwhile the user toggles flags                *)
(* (publish_ops.set_publish) and another publisher adds articles of its    *)
(* own to the same directory.                                              *)
(*                                                                         *)
(* Every step is one file operation.  An export may be cut short at any of *)
(* them: an OSError, a full disk, a worker that is stopped.  Exports do    *)
(* not overlap: the bot dispatches one callback at a time and waits 90 s.  *)
(***************************************************************************)
EXTENDS Integers, Sequences, FiniteSets

CONSTANTS
  NoteOrder,      (* the notes of the vault, as sorted(rglob) yields them   *)
  Paths,          (* public paths below site/content                        *)
  PathOf,         (* public_path of a note, after the category aliases      *)
  Index,          (* index.md, which is never exported from the vault       *)
  ForeignPaths,   (* where other publishers put articles                    *)
  Nothing, Foreign, Default, Broken,   (* what a path, the manifest holds   *)
  MaxToggles,     (* bound: toggled flags                                   *)
  MaxFailures     (* bound: exports cut short, notes that cannot be read    *)

Notes == {NoteOrder[i] : i \in 1..Len(NoteOrder)}

ASSUME PathsAssumption ==
  /\ NoteOrder \in Seq(Notes)
  /\ PathOf \in [Notes -> Paths]
  /\ Index \in Paths
  /\ ForeignPaths \subseteq Paths \ {Index}
ASSUME HoldingsAssumption ==
  {Nothing, Foreign, Default, Broken} \cap Notes = {} /\ Foreign # Nothing
ASSUME BoundsAssumption == MaxToggles \in Nat /\ MaxFailures \in Nat

VARIABLES
  published,  (* the flag in the frontmatter of a note                      *)
  site,       (* what site/content holds at a path                          *)
  manifest,   (* the paths in .vault-export-manifest.json                   *)
  step,       (* where export() stands                                      *)
  owned,      (* paths it has still to remove                               *)
  position,   (* the note it looks at, or copies, next                      *)
  chosen,     (* the notes it has found published                           *)
  ever,       (* notes published at some moment of this export              *)
  always,     (* notes published at every moment of this export, and read   *)
  toggles,
  failures

export == <<step, owned, position, chosen>>
vars   == <<published, site, manifest, export, ever, always, toggles, failures>>

Published == {n \in Notes : published[n]}

-----------------------------------------------------------------------------

Init ==
  /\ published \in [Notes -> BOOLEAN]
  /\ site = [p \in Paths |-> Nothing]
  /\ manifest = {}
  /\ step = "idle"
  /\ owned = {}
  /\ position = 1
  /\ chosen = <<>>
  /\ ever = {}
  /\ always = {}
  /\ toggles = 0
  /\ failures = 0

Flag(n, value) ==
  /\ published' = [published EXCEPT ![n] = value]
  /\ ever' = IF value /\ step # "idle" THEN ever \union {n} ELSE ever
  /\ always' = IF value THEN always ELSE always \ {n}

(* publish_ops.set_publish rewrites the frontmatter of one note.            *)
SetPublish(n) ==
  /\ toggles < MaxToggles
  /\ toggles' = toggles + 1
  /\ Flag(n, ~published[n])
  /\ UNCHANGED <<site, manifest, export, failures>>

(* Another publisher adds an article.                                       *)
PublishForeign(p) ==
  /\ site[p] = Nothing
  /\ site' = [site EXCEPT ![p] = Foreign]
  /\ UNCHANGED <<published, manifest, export, ever, always, toggles, failures>>

(* export() reads the manifest; one that is cut off in the middle is        *)
(* refused, and so is every export after it.                                *)
Start ==
  /\ step = "idle"
  /\ manifest # Broken
  /\ step' = "remove"
  /\ owned' = manifest
  /\ ever' = Published
  /\ always' = Published
  /\ UNCHANGED <<published, site, manifest, position, chosen, toggles, failures>>

(* Mutant of Removable: nothing is removed.                                 *)
NoFile == {}

Removable == owned

(* _remove_owned, path by path; a file that is gone already is no error.    *)
RemoveOwned ==
  /\ step = "remove"
  /\ IF Removable = {}
     THEN step' = "look" /\ UNCHANGED <<site, owned>>
     ELSE \E p \in Removable :
            /\ site' = [site EXCEPT ![p] = Nothing]
            /\ owned' = owned \ {p}
            /\ UNCHANGED step
  /\ UNCHANGED <<published, manifest, position, chosen, ever, always, toggles, failures>>

(* collect() reads the notes one after the other; one that cannot be read   *)
(* is passed over.                                                          *)
Collect ==
  /\ step = "look"
  /\ \/ /\ position > Len(NoteOrder)
        /\ step' = "copy" /\ position' = 1
        /\ UNCHANGED <<chosen, always, failures>>
     \/ /\ position <= Len(NoteOrder)
        /\ position' = position + 1
        /\ LET n == NoteOrder[position]
           IN  \/ /\ chosen' = IF published[n] THEN Append(chosen, n) ELSE chosen
                  /\ UNCHANGED <<always, failures>>
               \/ /\ failures < MaxFailures /\ failures' = failures + 1
                  /\ always' = always \ {n}
                  /\ UNCHANGED chosen
        /\ UNCHANGED step
  /\ UNCHANGED <<published, site, manifest, owned, ever, toggles>>

(* Mutant of Copy: the loop ends one note early.                            *)
CopyAllButLast ==
  /\ step = "copy"
  /\ IF position >= Len(chosen)
     THEN step' = "manifest" /\ UNCHANGED <<site, position>>
     ELSE LET n == chosen[position]
          IN  /\ site' = IF PathOf[n] = Index THEN site ELSE [site EXCEPT ![PathOf[n]] = n]
              /\ position' = position + 1
              /\ UNCHANGED step
  /\ UNCHANGED <<published, manifest, owned, chosen, ever, always, toggles, failures>>

(* The loop over the notes: index.md is skipped, anything else at the path  *)
(* is overwritten.                                                          *)
Copy ==
  /\ step = "copy"
  /\ IF position > Len(chosen)
     THEN step' = "manifest" /\ UNCHANGED <<site, position>>
     ELSE LET n == chosen[position]
          IN  /\ site' = IF PathOf[n] = Index THEN site ELSE [site EXCEPT ![PathOf[n]] = n]
              /\ position' = position + 1
              /\ UNCHANGED step
  /\ UNCHANGED <<published, manifest, owned, chosen, ever, always, toggles, failures>>

(* Mutant of Exported: the manifest lists every article in the directory.   *)
AllArticles == {p \in Paths : site[p] # Nothing} \ {Index}

Exported == {PathOf[chosen[i]] : i \in 1..Len(chosen)} \ {Index}

(* write_text truncates the manifest and then writes it.                    *)
TruncateManifest ==
  /\ step = "manifest"
  /\ step' = "write"
  /\ manifest' = Broken
  /\ UNCHANGED <<published, site, owned, position, chosen, ever, always, toggles, failures>>

WriteManifest ==
  /\ step = "write"
  /\ step' = "index"
  /\ manifest' = Exported
  /\ UNCHANGED <<published, site, owned, position, chosen, ever, always, toggles, failures>>

(* The default home page, unless there is one; export() returns.            *)
EnsureIndex ==
  /\ step = "index"
  /\ step' = "idle"
  /\ site' = IF site[Index] = Nothing THEN [site EXCEPT ![Index] = Default] ELSE site
  /\ position' = 1
  /\ chosen' = <<>>
  /\ ever' = {} /\ always' = {}
  /\ UNCHANGED <<published, manifest, owned, toggles, failures>>

(* The export is cut short: what it did so far stays as it is.              *)
CutShort ==
  /\ step # "idle"
  /\ failures < MaxFailures
  /\ failures' = failures + 1
  /\ step' = "idle"
  /\ owned' = {}
  /\ position' = 1
  /\ chosen' = <<>>
  /\ ever' = {} /\ always' = {}
  /\ UNCHANGED <<published, site, manifest, toggles>>

Export ==
  Start \/ RemoveOwned \/ Collect \/ Copy \/ TruncateManifest \/ WriteManifest
    \/ EnsureIndex

Next ==
  \/ \E n \in Notes : SetPublish(n)
  \/ \E p \in ForeignPaths : PublishForeign(p)
  \/ Export
  \/ CutShort

Spec == Init /\ [][Next]_vars

-----------------------------------------------------------------------------

Completes == step = "index" /\ step' = "idle"

(* An export that completes has brought every note that was published all   *)
(* along, and could be read, to its public path, or another note of the     *)
(* same path there, even after exports that were cut short.                 *)
PublishedArrive ==
  [][Completes =>
       \A n \in always :
         PathOf[n] = Index \/ site'[PathOf[n]] \in Notes]_vars

(* site/README.md: "미발행 노트는 git 에 절대 올라가지 않는다" (a note that is  *)
(* not published is never committed): when an export completes, every note  *)
(* on the site was published at some moment of it.                          *)
OnlyPublished == \A p \in Paths : site'[p] \in Notes => site'[p] \in ever

UnpublishedLeave == [][Completes => OnlyPublished]_vars

(* What holds of it: unless an export was cut short, whatever was toggled   *)
(* while the notes were read and copied, and with two notes at one path.    *)
UnpublishedLeaveUncut == [][Completes /\ failures = 0 => OnlyPublished]_vars

(* site/README.md: the manifest lists the files the vault owns, which only   *)
(* the next export replaces.  Between exports, until something fails,       *)
(* they are exactly the notes on the site, whatever was toggled, aliased or *)
(* added by others while the exports ran: nothing of the vault is left      *)
(* behind later, and no article of another publisher is removed as owned.   *)
ManifestIsInventory ==
  step = "idle" /\ failures = 0 => manifest = {p \in Paths : site[p] \in Notes}

(* How an article of another publisher is lost: to a published note of the  *)
(* same path, which copy2 puts over it, or, after an export that was cut    *)
(* short, because the manifest still lists its path.  publish_vault.py and  *)
(* site/README.md promise more: that such articles are kept.                *)
ForeignLostToNoteOnly ==
  [][\A p \in Paths :
       site[p] = Foreign /\ site'[p] # Foreign
         => failures > 0 \/ (step = "copy" /\ site'[p] \in ever)]_vars
=============================================================================
