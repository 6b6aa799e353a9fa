-------------------------------- MODULE Editor --------------------------------
(***************************************************************************)
(* The built-in editor (frontend: features/editor, widgets/editor): a file is *)
(* read, typed into and saved; one with unsaved text is left only after a     *)
(* question.  A file in a protected archive asks for the password first.      *)
(***************************************************************************)
EXTENDS Integers

CONSTANTS
  Files,
  Protected,     \* the files in a protected archive
  MaxEdits,      \* bound on the edits
  MaxVisits      \* bound on the files opened

EditorAssumption == MaxEdits \in Nat /\ MaxVisits \in Nat

Nothing == [of |-> "", n |-> 0]
Original(f) == [of |-> f, n |-> 0]

VARIABLES
  desk,          \* the store: [open, mode, file, dirty], and since which visit
  content,       \* the text of the editor: which file's, after how many edits
  loading, failed, \* shown instead of it
  confirm,       \* "", or what is asked about: "close", "diff", a file to open
  reads, writes, \* calls under way: [file, visit], [file, text]
  prompt, busy,  \* {}, or the read to repeat with the password; passwords sent
  unlocked,      \* the files whose password the backend knows
  disk,          \* [Files -> text]
  edits, visits

view == <<content, loading, failed>>
question == <<prompt, busy, unlocked>>
vars == <<desk, view, confirm, reads, writes, question, disk, edits, visits>>

Closed == [open |-> FALSE, mode |-> "edit", file |-> {}, dirty |-> FALSE, since |-> 0]

(* A read counts while its file is the one in the editor.                     *)
Live(r) == desk.open /\ r.visit = visits

----------------------------------------------------------------------------
(* Which file.  Its text follows when it was read: until then, and in the      *)
(* editor all the time, there is the text before.                            *)

Visit(f, mode) ==
  /\ desk' = [open |-> TRUE, mode |-> mode, file |-> {f}, dirty |-> FALSE,
               since |-> IF desk.open THEN desk.since ELSE visits + 1]
  /\ IF desk.file = {f}
     THEN UNCHANGED <<view, reads, visits>>
     ELSE /\ visits < MaxVisits /\ visits' = visits + 1
          /\ reads' = reads \cup {[file |-> f, visit |-> visits']}
          /\ content' = IF desk.open THEN content ELSE Nothing
          /\ loading' = TRUE /\ failed' = FALSE

Leave ==
  /\ desk' = Closed /\ content' = Nothing /\ loading' = FALSE /\ failed' = FALSE
  /\ UNCHANGED <<reads, visits>>

SetMode(mode) ==
  /\ desk' = [desk EXCEPT !.mode = mode, !.dirty = mode = "edit" /\ @]
  /\ UNCHANGED <<view, reads, visits>>

Unasked == confirm = "" /\ prompt = {}
Dirty == desk.mode = "edit" /\ desk.dirty

OpenWorkspace(f) ==
  /\ ~desk.open /\ prompt = {} /\ (Visit(f, "edit") \/ Visit(f, "diff"))
  /\ UNCHANGED <<confirm, writes, question, disk, edits>>

(* A file found by a search is opened without a question.                     *)
SelectResult(f) ==
  /\ desk.open /\ Unasked /\ Visit(f, "edit")
  /\ UNCHANGED <<confirm, writes, question, disk, edits>>

Ask(what) == confirm' = what /\ UNCHANGED <<desk, view, reads, visits>>

RequestClose ==
  /\ desk.open /\ Unasked
  /\ IF Dirty THEN Ask("close") ELSE Leave /\ UNCHANGED confirm
  /\ UNCHANGED <<writes, question, disk, edits>>

(* Picked in the tree of folders, which only the editor has.                  *)
OpenFile(f) ==
  /\ desk.open /\ desk.mode = "edit" /\ Unasked /\ desk.file # {f}
  /\ IF Dirty THEN Ask(f) ELSE Visit(f, "edit") /\ UNCHANGED confirm
  /\ UNCHANGED <<writes, question, disk, edits>>

ShowDiff ==
  /\ desk.open /\ desk.mode = "edit" /\ Unasked
  /\ IF Dirty THEN Ask("diff") ELSE SetMode("diff") /\ UNCHANGED confirm
  /\ UNCHANGED <<writes, question, disk, edits>>

ShowEdit ==
  /\ desk.open /\ desk.mode = "diff" /\ SetMode("edit")
  /\ UNCHANGED <<confirm, writes, question, disk, edits>>

DiscardAndContinue ==
  /\ confirm # "" /\ confirm' = ""
  /\ \/ confirm \in Files /\ Visit(confirm, "edit")
     \/ confirm = "diff" /\ SetMode("diff")
     \/ confirm = "close" /\ Leave
  /\ UNCHANGED <<writes, question, disk, edits>>

CancelConfirm ==
  /\ confirm # "" /\ confirm' = ""
  /\ UNCHANGED <<desk, view, reads, writes, question, disk, edits, visits>>

----------------------------------------------------------------------------
(* Reading.                                                                 *)

Show(text) == content' = text /\ loading' = FALSE

\* Fault: a text is shown whenever it comes.
ReadAlways(r) ==
  /\ r \in reads /\ reads' = reads \ {r} /\ r.file \notin Protected \ unlocked
  /\ Show(disk[r.file]) /\ desk' = [desk EXCEPT !.dirty = FALSE]
  /\ UNCHANGED <<failed, confirm, writes, question, disk, edits, visits>>

Read(r) ==
  /\ r \in reads /\ reads' = reads \ {r} /\ r.file \notin Protected \ unlocked
  /\ IF Live(r) THEN Show(disk[r.file]) /\ desk' = [desk EXCEPT !.dirty = FALSE]
     ELSE UNCHANGED <<content, loading, desk>>
  /\ UNCHANGED <<failed, confirm, writes, question, disk, edits, visits>>

(* Without its password a member of an archive asks for it.                   *)
ReadFails(r) ==
  /\ r \in reads /\ reads' = reads \ {r}
  /\ IF Live(r) THEN Show(Nothing) /\ failed' = TRUE ELSE UNCHANGED view
  /\ prompt' = IF Live(r) /\ r.file \in Protected \ unlocked THEN {r} ELSE prompt
  /\ UNCHANGED <<desk, confirm, writes, busy, unlocked, disk, edits, visits>>

SubmitPassword ==
  /\ prompt \ busy # {} /\ busy' = busy \cup prompt
  /\ UNCHANGED <<desk, view, confirm, reads, writes, prompt, unlocked, disk, edits, visits>>

ClosePrompt ==
  /\ prompt # {} /\ prompt' = {}
  /\ UNCHANGED <<desk, view, confirm, reads, writes, busy, unlocked, disk, edits, visits>>

(* The read is repeated, even if another file is in the editor by now: only a *)
(* read that counts ends the waiting.                                       *)
PasswordTaken(r) ==
  /\ r \in busy /\ busy' = busy \ {r} /\ prompt' = {}
  /\ unlocked' = unlocked \cup {r.file} /\ reads' = reads \cup {r}
  /\ IF desk.open /\ r.visit >= desk.since THEN loading' = TRUE /\ failed' = FALSE
     ELSE UNCHANGED <<loading, failed>>
  /\ UNCHANGED <<desk, content, confirm, writes, disk, edits, visits>>

PasswordRefused(r) ==
  /\ r \in busy /\ busy' = busy \ {r}
  /\ UNCHANGED <<desk, view, confirm, reads, writes, prompt, unlocked, disk, edits, visits>>

----------------------------------------------------------------------------
(* Typing and saving.                                                        *)

Type ==
  /\ desk.open /\ desk.mode = "edit" /\ ~loading /\ ~failed /\ Unasked
  /\ edits < MaxEdits /\ edits' = edits + 1
  /\ content' = [content EXCEPT !.n = edits'] /\ desk' = [desk EXCEPT !.dirty = TRUE]
  /\ UNCHANGED <<loading, failed, confirm, reads, writes, question, disk, visits>>

Save ==
  /\ Dirty /\ Unasked
  /\ writes' = writes \cup {[file |-> f, text |-> content] : f \in desk.file}
  /\ UNCHANGED <<desk, view, confirm, reads, question, disk, edits, visits>>

(* Whatever is in the editor by now counts as saved.  Nothing is saved in an  *)
(* archive.                                                                 *)
Saved(w) ==
  /\ w \in writes /\ writes' = writes \ {w} /\ w.file \notin Protected
  /\ disk' = [disk EXCEPT ![w.file] = w.text] /\ desk' = [desk EXCEPT !.dirty = FALSE]
  /\ UNCHANGED <<view, confirm, reads, question, edits, visits>>

SaveFails(w) ==
  /\ w \in writes /\ writes' = writes \ {w}
  /\ UNCHANGED <<desk, view, confirm, reads, question, disk, edits, visits>>

----------------------------------------------------------------------------
Init ==
  /\ desk = Closed /\ content = Nothing /\ loading = FALSE /\ failed = FALSE /\ confirm = ""
  /\ reads = {} /\ writes = {} /\ prompt = {} /\ busy = {} /\ unlocked = {}
  /\ disk = [f \in Files |-> Original(f)] /\ edits = 0 /\ visits = 0

Next ==
  \/ \E f \in Files : OpenWorkspace(f) \/ SelectResult(f) \/ OpenFile(f)
  \/ RequestClose \/ ShowDiff \/ ShowEdit \/ DiscardAndContinue \/ CancelConfirm
  \/ \E r \in reads : Read(r) \/ ReadFails(r)
  \/ SubmitPassword \/ ClosePrompt
  \/ \E r \in busy : PasswordTaken(r) \/ PasswordRefused(r)
  \/ Type \/ Save
  \/ \E w \in writes : Saved(w) \/ SaveFails(w)

TypeOK ==
  /\ desk.file \subseteq Files /\ desk.open = (desk.file # {}) /\ (desk.dirty => desk.open)
  /\ \A r \in reads \cup prompt \cup busy : r.file \in Files /\ r.visit \in 1..visits
  /\ confirm \in {"", "close", "diff"} \cup Files /\ edits \in 0..MaxEdits

(* No file is overwritten with the text of another, in whatever order files    *)
(* are opened, read, typed into and saved (useEditorFile.ts:34).              *)
TextsStayInTheirFile ==
  /\ \A w \in writes : w.text.of = w.file
  /\ \A f \in Files : disk[f].of = f

(* What counts as saved is what the file holds (useEditorFile.ts:100).         *)
CleanIsSaved ==
  desk.open /\ ~desk.dirty /\ ~loading /\ ~failed => \A f \in desk.file : content = disk[f]
===============================================================================
