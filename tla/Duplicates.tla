----------------------------- MODULE Duplicates ------------------------------
(***************************************************************************)
(* The duplicate finder's dialog (frontend: features/duplicates and         *)
(* widgets/duplicates) over one scan at a time in the backend, whose events *)
(* are handed over in any order.  Closing the dialog stops neither the scan  *)
(* nor the calls its views made; a view that is shown again knows nothing    *)
(* of the calls of the one before.                                          *)
(***************************************************************************)
EXTENDS Integers, FiniteSets

CONSTANTS
  Costs, Blank,  \* what of the setup an estimate depends on; Blank: no folder
  Pcts,          \* the similarity, which it does not depend on
  Hashes,        \* the groups a scan may find
  FilesOf,       \* [hash -> its files], files being numbers in path order
  Jobs,          \* 1..n: bound on the job ids handed out
  MaxCalls       \* bound on the calls in flight

DuplicatesAssumption ==
  /\ Blank \in Costs /\ Pcts \subseteq Nat /\ Pcts # {}
  /\ FilesOf \in [Hashes -> SUBSET Nat] /\ \A h \in Hashes : FilesOf[h] # {}
  /\ Jobs \subseteq Nat \ {0}
  /\ MaxCalls \in Nat

VARIABLES
  dialog, phase, setup,
  estimate,      \* {}, or the costs the estimate shown is of
  jobId,         \* the scan shown, 0 for none
  keep,          \* [hash of a group shown -> the file to keep]
  checked,       \* [hash of a group shown -> the files to delete]
  batch,         \* the merge can be undone
  calls,         \* [op, arg, mine]: calls in flight, mine if of the view shown
  ids,           \* the job ids handed out
  running,       \* the backend's scan, 0 for none
  canceled,      \* the scans CancelJob was called for
  found,         \* [job -> the groups it found]
  events         \* events not yet handled

form == <<setup, estimate>>
review == <<keep, checked, batch>>
backend == <<ids, running, canceled, found, events>>
vars == <<dialog, phase, form, jobId, review, calls, backend>>

FirstOf(S) == CHOOSE f \in S : \A g \in S : f <= g
Shown == DOMAIN keep
Paths == UNION {checked[h] : h \in Shown}

(* The view that is mounted; what is in flight is no longer of the view when  *)
(* another is.                                                              *)
View(d, p) == IF ~d THEN "none" ELSE IF p = "done" THEN "merging" ELSE p
In(view) == View(dialog, phase) = view
Forget(cs) == {[c EXCEPT !.mine = FALSE] : c \in cs}
Turn(d, p, cs) ==
  /\ dialog' = d /\ phase' = p
  /\ calls' = IF View(d, p) = View(dialog, phase) THEN cs ELSE Forget(cs)

Call(op, arg) == [op |-> op, arg |-> arg, mine |-> TRUE]
Pending(op) == \E c \in calls : c.mine /\ c.op = op
Send(op, arg) ==
  /\ ~Pending(op) /\ Cardinality(calls) < MaxCalls
  /\ calls' = calls \cup {Call(op, arg)}

Idle ==
  /\ estimate' = {} /\ jobId' = 0
  /\ keep' = <<>> /\ checked' = <<>> /\ batch' = FALSE

(* The setup view asks for an estimate when it is shown with a folder.        *)
MountSetup(cost) ==
  /\ dialog' = TRUE /\ phase' = "setup"
  /\ Cardinality(calls) < MaxCalls
  /\ calls' = Forget(calls) \cup (IF cost = Blank THEN {} ELSE {Call("estimate", cost)})

OpenSetup(cost) ==
  /\ ~dialog /\ phase = "setup"
  /\ setup' = [setup EXCEPT !.cost = cost]
  /\ Idle /\ MountSetup(cost)
  /\ UNCHANGED backend

(* Anything but a setup is shown again as it was.                           *)
Resume ==
  /\ ~dialog /\ phase # "setup"
  /\ Turn(TRUE, phase, calls)
  /\ UNCHANGED <<form, jobId, review, backend>>

CloseDialog ==
  /\ dialog
  /\ Turn(FALSE, phase, calls)
  /\ UNCHANGED <<form, jobId, review, backend>>

----------------------------------------------------------------------------
(* The setup.                                                              *)

StillFor(new) == IF new.cost = setup.cost THEN estimate ELSE {}
PatchSetup(new) ==
  /\ In("setup") /\ setup' = new
  /\ estimate' = StillFor(new)
  /\ UNCHANGED <<dialog, phase, jobId, review, calls, backend>>

AskEstimate ==
  /\ In("setup") /\ setup.cost # Blank
  /\ Send("estimate", setup.cost)
  /\ UNCHANGED <<dialog, phase, form, jobId, review, backend>>

\* Fault: an estimate is shown whatever the setup has become.
EstimatedLate(c) ==
  /\ c.op = "estimate"
  /\ calls' = calls \ {c}
  /\ estimate' = {c.arg}
  /\ UNCHANGED <<dialog, phase, setup, jobId, review, backend>>

Estimated(c) ==
  /\ c.op = "estimate"
  /\ calls' = calls \ {c}
  /\ estimate' = IF c.arg = setup.cost THEN {c.arg} ELSE estimate
  /\ UNCHANGED <<dialog, phase, setup, jobId, review, backend>>

EstimateFails(c) ==
  /\ c.op = "estimate"
  /\ calls' = calls \ {c}
  /\ estimate' = {}
  /\ UNCHANGED <<dialog, phase, setup, jobId, review, backend>>

Start ==
  /\ In("setup") /\ estimate # {} /\ ~Pending("estimate")
  /\ Send("newJob", 0)
  /\ UNCHANGED <<dialog, phase, form, jobId, review, backend>>

(* The error view's Restart cancels the scan that failed first.              *)
Restart ==
  /\ In("error") /\ Send("newJob", jobId)
  /\ UNCHANGED <<dialog, phase, form, jobId, review, backend>>

BeginScan(job) ==
  /\ jobId' = job
  /\ keep' = <<>> /\ checked' = <<>> /\ batch' = FALSE

GotJob(c) ==
  /\ c.op = "newJob"
  /\ LET job == ids + 1 IN
     /\ job \in Jobs /\ ids' = job
     /\ BeginScan(job)
     /\ Turn(dialog, "running", (calls \ {c}) \cup {[c EXCEPT !.op = "start", !.arg = job]})
  /\ canceled' = canceled \cup ({c.arg} \ {0})
  /\ UNCHANGED <<form, running, found, events>>

(* What fails is shown as the failure of whatever scan is running.           *)
FailRunning(cs) == Turn(dialog, IF phase = "running" THEN "error" ELSE phase, cs)

StartFails(c) ==
  /\ c.op \in {"newJob", "start"}
  /\ FailRunning(calls \ {c})
  /\ UNCHANGED <<form, jobId, review, backend>>

(* The backend takes one scan at a time.                                    *)
Started(c) ==
  /\ c.op = "start"
  /\ running = 0
  /\ running' = c.arg
  /\ calls' = calls \ {c}
  /\ UNCHANGED <<dialog, phase, form, jobId, review, ids, canceled, found, events>>

----------------------------------------------------------------------------
(* The scan, and its events.                                                *)

Find(h) ==
  /\ running # 0 /\ running \notin canceled /\ h \notin found[running]
  /\ found' = [found EXCEPT ![running] = @ \cup {h}]
  /\ events' = events \cup {[kind |-> "group", job |-> running, hashes |-> {h}]}
  /\ UNCHANGED <<dialog, phase, form, jobId, review, calls, ids, running, canceled>>

ScanEnds(fatal) ==
  /\ running # 0 /\ running' = 0
  /\ events' = events \cup
       {[kind |-> k, job |-> running, hashes |-> found[running]] :
          k \in IF fatal THEN {"fatal", "failed"} ELSE {"done"}}
  /\ UNCHANGED <<dialog, phase, form, jobId, review, calls, ids, canceled, found>>

JobMatches(e) == e.job = jobId

(* Groups already shown are left as the user set them.                       *)
AddGroups(hashes) ==
  /\ keep' = [h \in Shown \cup hashes |-> IF h \in Shown THEN keep[h] ELSE FirstOf(FilesOf[h])]
  /\ checked' = [h \in Shown \cup hashes |->
                   IF h \in Shown THEN checked[h] ELSE FilesOf[h] \ {FirstOf(FilesOf[h])}]

\* Fault: the events of a scan given up are not told from this one's.
HandleAny(e) ==
  /\ events' = events \ {e}
  /\ IF e.kind = "fatal"
     THEN Turn(dialog, "error", calls) /\ UNCHANGED <<keep, checked>>
     ELSE /\ AddGroups(e.hashes)
          /\ Turn(dialog, IF e.kind = "group" THEN phase
                          ELSE IF e.kind = "done" THEN "review" ELSE "error", calls)
  /\ UNCHANGED <<form, jobId, batch, ids, running, canceled, found>>

(* Nothing more comes of a scan whose failure is shown.                      *)
Handle(e) ==
  /\ events' = events \ {e}
  /\ IF ~JobMatches(e) \/ (phase = "error" /\ e.kind \in {"done", "failed"})
     THEN UNCHANGED <<dialog, phase, keep, checked, calls>>
     ELSE IF e.kind = "fatal"
     THEN Turn(dialog, "error", calls) /\ UNCHANGED <<keep, checked>>
     ELSE /\ AddGroups(e.hashes)
          /\ Turn(dialog, IF e.kind = "group" THEN phase
                          ELSE IF e.kind = "done" THEN "review" ELSE "error", calls)
  /\ UNCHANGED <<form, jobId, batch, ids, running, canceled, found>>

CancelScan ==
  /\ In("running")
  /\ IF jobId = 0 THEN FailRunning(calls) /\ UNCHANGED canceled
     ELSE canceled' = canceled \cup {jobId} /\ UNCHANGED <<dialog, phase, calls>>
  /\ UNCHANGED <<form, jobId, review, ids, running, found, events>>

Discard ==
  /\ In("error")
  /\ Idle /\ Turn(FALSE, "setup", calls)
  /\ canceled' = canceled \cup ({jobId} \ {0})
  /\ UNCHANGED <<setup, ids, running, found, events>>

----------------------------------------------------------------------------
(* The review and the merge.                                                *)

(* The file kept so far is ticked instead of the one to keep.                *)
Swapped(h, f) == (checked[h] \ {f}) \cup ({keep[h]} \ {f})
SetKeep(h, f) ==
  /\ In("review") /\ h \in Shown /\ f \in FilesOf[h]
  /\ keep' = [keep EXCEPT ![h] = f]
  /\ checked' = [checked EXCEPT ![h] = Swapped(h, f)]
  /\ UNCHANGED <<dialog, phase, form, jobId, batch, calls, backend>>

ToggleChecked(h, f) ==
  /\ In("review") /\ h \in Shown /\ f \in FilesOf[h] \ {keep[h]}
  /\ checked' = [checked EXCEPT ![h] = IF f \in @ THEN @ \ {f} ELSE @ \cup {f}]
  /\ UNCHANGED <<dialog, phase, form, jobId, keep, batch, calls, backend>>

BackToSetup ==
  /\ In("review")
  /\ Idle /\ MountSetup(setup.cost)
  /\ UNCHANGED <<setup, backend>>

Merge ==
  /\ In("review") /\ Paths # {}
  /\ Turn(TRUE, "merging", calls)
  /\ UNCHANGED <<form, jobId, review, backend>>

CancelMerge ==
  /\ phase = "merging" /\ dialog
  /\ Turn(TRUE, "review", calls)
  /\ UNCHANGED <<form, jobId, review, backend>>

ConfirmMerge ==
  /\ phase = "merging" /\ dialog /\ Paths # {}
  /\ Send("merge", Paths)
  /\ UNCHANGED <<dialog, phase, form, jobId, review, backend>>

(* Only a delete into the trash has a batch to restore.                      *)
Merged(c) ==
  /\ c.op = "merge"
  /\ batch' \in BOOLEAN
  /\ Turn(dialog, "done", calls \ {c})
  /\ UNCHANGED <<form, jobId, keep, checked, backend>>

MergeFails(c) ==
  /\ c.op = "merge"
  /\ Turn(dialog, "review", calls \ {c})
  /\ UNCHANGED <<form, jobId, review, backend>>

Undo ==
  /\ phase = "done" /\ dialog /\ batch
  /\ Send("undo", 0)
  /\ UNCHANGED <<dialog, phase, form, jobId, review, backend>>

(* All that the dialog holds is given up, whatever it shows by now.          *)
Undone(c) ==
  /\ c.op = "undo"
  /\ Idle /\ Turn(FALSE, "setup", calls \ {c})
  /\ UNCHANGED <<setup, backend>>

UndoFails(c) ==
  /\ c.op = "undo"
  /\ calls' = calls \ {c}
  /\ UNCHANGED <<dialog, phase, form, jobId, review, backend>>

CloseDone ==
  /\ phase = "done" /\ dialog
  /\ Idle /\ Turn(FALSE, "setup", calls)
  /\ UNCHANGED <<setup, backend>>

----------------------------------------------------------------------------
Init ==
  /\ dialog = FALSE /\ phase = "setup"
  /\ setup = [cost |-> Blank, pct |-> FirstOf(Pcts)] /\ estimate = {}
  /\ jobId = 0 /\ keep = <<>> /\ checked = <<>> /\ batch = FALSE
  /\ calls = {} /\ ids = 0 /\ running = 0 /\ canceled = {}
  /\ found = [j \in Jobs |-> {}] /\ events = {}

Gestures ==
  \/ \E cost \in Costs : OpenSetup(cost)
  \/ Resume \/ CloseDialog
  \/ \E new \in [cost : Costs, pct : Pcts] : PatchSetup(new)
  \/ AskEstimate \/ Start \/ Restart \/ CancelScan \/ Discard
  \/ \E h \in Shown : \E f \in FilesOf[h] : SetKeep(h, f) \/ ToggleChecked(h, f)
  \/ BackToSetup \/ Merge \/ CancelMerge \/ ConfirmMerge \/ Undo \/ CloseDone

Answers ==
  \E c \in calls :
    \/ Estimated(c) \/ EstimateFails(c) \/ GotJob(c) \/ StartFails(c) \/ Started(c)
    \/ Merged(c) \/ MergeFails(c) \/ Undone(c) \/ UndoFails(c)

Scan ==
  \/ \E h \in Hashes : Find(h)
  \/ \E fatal \in BOOLEAN : ScanEnds(fatal)
  \/ \E e \in events : Handle(e)

Next == Gestures \/ Answers \/ Scan

----------------------------------------------------------------------------
Phases == {"setup", "running", "error", "review", "merging", "done"}
TypeOK ==
  /\ dialog \in BOOLEAN /\ phase \in Phases
  /\ setup \in [cost : Costs, pct : Pcts]
  /\ jobId \in Jobs \cup {0} /\ running \in Jobs \cup {0}
  /\ Shown \subseteq Hashes /\ DOMAIN checked = Shown
  /\ \A h \in Shown : keep[h] \in FilesOf[h] /\ checked[h] \subseteq FilesOf[h]

(* The estimate that allows a start, and warns of what it will download, is   *)
(* of the setup as it stands, however late it came (DupSetupView.tsx:54).     *)
EstimateIsForThisSetup == estimate \subseteq {setup.cost}

(* Whatever order the events of the scans come in, the groups offered for     *)
(* deletion were found by the scan shown (useDuplicateEvents.ts:7).           *)
GroupsAreOfThisScan == Shown = {} \/ (jobId # 0 /\ Shown \subseteq found[jobId])

(* Of every group the file shown as kept is left by the merge.               *)
KeptIsNotDeleted == phase = "merging" => \A h \in Shown : keep[h] \notin Paths
=============================================================================
