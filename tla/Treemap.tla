------------------------------- MODULE Treemap --------------------------------
(***************************************************************************)
(* The map of the disk usage (frontend: features/disk-treemap, widgets/       *)
(* disk-treemap): a folder is scanned by a job of the backend, a folder in    *)
(* the map is zoomed into or scanned in turn, and what was scanned is kept    *)
(* while the dialog is open.                                                *)
(***************************************************************************)
EXTENDS Integers, Sequences, SequencesExt, FiniteSets

CONSTANTS
  Folders,
  Under,         \* [folder -> the folders in it]
  Real,          \* [folder -> its path as the backend tells it]
  MaxScans       \* bound on the scans asked for

(* The backend tells a folder by its cleaned path, which is its own            *)
(* (file_service_tree.go:37).                                                *)
TreemapAssumption ==
  /\ Real \in [Folders -> Folders] /\ \A f \in Folders : Real[Real[f]] = Real[f]
  /\ Under \in [Folders -> SUBSET Folders] /\ MaxScans \in Nat

VARIABLES
  dialog,        \* [open, root, jobId, crumbs, scanning, failed, zoom]
  cache,         \* [folder -> what is known of it: [root, deep]]
  generation,
  asked,         \* [op, mine, root, job]: calls to the backend under way
  canceled,      \* the jobs told to stop
  events         \* [job, root, deep]: results told, in order

vars == <<dialog, cache, generation, asked, canceled, events>>

Closed == [open |-> FALSE, root |-> {}, jobId |-> {}, crumbs |-> <<>>, scanning |-> FALSE,
           failed |-> FALSE, zoom |-> {}]
InFlight == IF dialog.scanning THEN dialog.jobId ELSE {}
Remember(crumbs, f) == IF Contains(crumbs, f) THEN crumbs ELSE Append(crumbs, f)

(* What the map shows, once there is a result.                               *)
Tree ==
  IF dialog.open /\ ~dialog.scanning /\ ~dialog.failed
  THEN {cache[f] : f \in dialog.root \cap DOMAIN cache} ELSE {}

----------------------------------------------------------------------------
Begin(f, crumbs) ==
  /\ generation < MaxScans /\ generation' = generation + 1
  /\ canceled' = canceled \cup InFlight
  /\ dialog' = [Closed EXCEPT !.open = TRUE, !.root = {f}, !.crumbs = crumbs, !.scanning = TRUE]
  /\ asked' = asked \cup {[op |-> "newJob", mine |-> generation', root |-> f, job |-> 0]}

OpenDialog(f) ==
  /\ ~dialog.open /\ Begin(f, <<f>>)
  /\ cache' = <<>>
  /\ UNCHANGED events

\* Fault: an id that comes late begins its scan.
JobIdLate(c, job) ==
  /\ c.op = "newJob" /\ job \notin canceled /\ \A d \in asked : d.job # job
  /\ dialog' = [dialog EXCEPT !.jobId = {job}]
  /\ asked' = (asked \ {c}) \cup {[c EXCEPT !.op = "usage", !.job = job]}
  /\ UNCHANGED <<canceled, cache, generation, events>>

(* Asked for by a scan given up meanwhile, the job is canceled at once.       *)
JobId(c, job) ==
  /\ c.op = "newJob" /\ job \notin canceled /\ \A d \in asked : d.job # job
  /\ IF c.mine # generation \/ ~dialog.open
     THEN /\ canceled' = canceled \cup {job} /\ asked' = asked \ {c}
          /\ UNCHANGED dialog
     ELSE /\ dialog' = [dialog EXCEPT !.jobId = {job}]
          /\ asked' = (asked \ {c}) \cup {[c EXCEPT !.op = "usage", !.job = job]}
          /\ UNCHANGED canceled
  /\ UNCHANGED <<cache, generation, events>>

(* No id, or the call itself fails.                                          *)
CallFails(c) ==
  /\ asked' = asked \ {c}
  /\ dialog' = IF c.mine # generation THEN dialog
               ELSE [dialog EXCEPT !.scanning = FALSE, !.failed = TRUE]
  /\ UNCHANGED <<cache, generation, canceled, events>>

(* The backend ends a scan with an event, canceled or not.                   *)
Scanned(c, deep) ==
  /\ c.op = "usage" /\ asked' = asked \ {c}
  /\ events' = Append(events, [job |-> c.job, root |-> Real[c.root], deep |-> deep])
  /\ UNCHANGED <<dialog, cache, generation, canceled>>

\* Fault: the result is taken whichever job it is of.
ApplyAny ==
  /\ events # <<>> /\ events' = Tail(events)
  /\ LET done == Head(events) IN
     /\ cache' = [f \in DOMAIN cache \cup {done.root} \cup dialog.root |->
                    IF f = done.root \/ f \in dialog.root THEN done ELSE cache[f]]
     /\ dialog' = [dialog EXCEPT !.root = {done.root}, !.scanning = FALSE]
  /\ UNCHANGED <<generation, asked, canceled>>

(* The result is known by the folder's path here and by the backend's.        *)
ApplyDone ==
  /\ events # <<>> /\ events' = Tail(events)
  /\ LET done == Head(events) IN
     IF done.job \notin dialog.jobId THEN UNCHANGED <<dialog, cache>>
     ELSE /\ cache' = [f \in DOMAIN cache \cup {done.root} \cup dialog.root |->
                         IF f = done.root \/ f \in dialog.root THEN done ELSE cache[f]]
          /\ dialog' = [dialog EXCEPT !.root = {done.root}, !.scanning = FALSE,
                          !.crumbs = [i \in DOMAIN @ |-> IF @[i] \in dialog.root THEN done.root ELSE @[i]]]
  /\ UNCHANGED <<generation, asked, canceled>>

Cancel ==
  /\ dialog.scanning /\ dialog.jobId # {} /\ canceled' = canceled \cup dialog.jobId
  /\ UNCHANGED <<dialog, cache, generation, asked, events>>

CloseDialog ==
  /\ dialog.open /\ generation < MaxScans
  /\ generation' = generation + 1 /\ canceled' = canceled \cup InFlight
  /\ dialog' = Closed /\ cache' = <<>>
  /\ UNCHANGED <<asked, events>>

----------------------------------------------------------------------------
(* Into a folder: what is known of it is shown, else it is scanned.           *)
Drill(f) ==
  LET crumbs == Remember(dialog.crumbs, f) IN
  IF f \notin DOMAIN cache THEN Begin(f, crumbs) /\ UNCHANGED <<cache, events>>
  ELSE /\ generation < MaxScans /\ generation' = generation + 1
       /\ canceled' = canceled \cup InFlight
       /\ dialog' = [Closed EXCEPT !.open = TRUE, !.root = {f}, !.crumbs = crumbs]
       /\ UNCHANGED <<cache, asked, events>>

SetZoom(zoom) ==
  /\ dialog' = [dialog EXCEPT !.zoom = zoom]
  /\ UNCHANGED <<cache, generation, asked, canceled, events>>

(* The folders drawn are those in the one shown; a second click goes back.    *)
View(t) == IF dialog.zoom # {} /\ dialog.zoom \subseteq t.deep THEN UNION {Under[f] : f \in dialog.zoom} ELSE Under[t.root]
OpenDir(f) ==
  \E t \in Tree :
    /\ f \in View(t) \cup dialog.zoom
    /\ IF dialog.zoom = {f} THEN SetZoom({})
       ELSE IF f \in t.deep THEN SetZoom({f}) ELSE Drill(f)

(* The links above the map: the folder scanned, and the one zoomed into.      *)
ZoomChain == Tree # {} /\ dialog.zoom # {} /\ SetZoom({})

(* A file in the map is shown in the pane.                                   *)
OpenFile == Tree # {} /\ CloseDialog

----------------------------------------------------------------------------
Init ==
  /\ dialog = Closed /\ cache = <<>> /\ generation = 0
  /\ asked = {} /\ canceled = {} /\ events = <<>>

Next ==
  \/ \E f \in Folders : OpenDialog(f) \/ OpenDir(f)
  \/ \E c \in asked : \/ \E job \in 1..MaxScans : JobId(c, job)
                      \/ CallFails(c)
                      \/ \E deep \in SUBSET Under[Real[c.root]] : Scanned(c, deep)
  \/ ApplyDone \/ Cancel \/ CloseDialog \/ ZoomChain \/ OpenFile

TypeOK ==
  /\ dialog.root \cup ToSet(dialog.crumbs) \cup dialog.zoom \subseteq Folders
  /\ dialog.scanning => dialog.open
  /\ generation \in 0..MaxScans /\ canceled \cup dialog.jobId \subseteq 1..MaxScans

(* What is kept for a folder was scanned in it, in whatever order the dialog   *)
(* was moved on and the scans ended (treemapStore.ts:134).                    *)
UsageIsOfItsFolder == \A f \in DOMAIN cache : cache[f].root = Real[f]

(* A scan that is under way and was not told to stop is the one shown: none   *)
(* goes on unseen when the dialog closes or moves on (treemapStore.ts:29).    *)
ScansAreSeen ==
  \A c \in asked : c.op = "usage" /\ c.job \notin canceled => dialog.open /\ dialog.jobId = {c.job}
===============================================================================
