------------------------------- MODULE PaneJobs -------------------------------
(***************************************************************************)
(* The folder sizes of the two panes and the job each shows (frontend:       *)
(* features/folder-size, features/jobs, widgets/file-pane).  A calculation    *)
(* is answered to the pane that asked; the panes may be swapped meanwhile.    *)
(***************************************************************************)
EXTENDS Integers

CONSTANTS
  Folders,
  MaxJobs        \* bound on the calculations started

Panes == {"left", "right"}
Other(p) == IF p = "left" THEN "right" ELSE "left"

VARIABLES
  shown,         \* [pane -> folder]
  sizes,         \* [pane -> [generation, loading, of]]: of: {}, or the folder summed up
  job,           \* [pane -> {}, or the job it shows: [id, backend]]
  asked,         \* [op, pane, folder, generation, id]: calculations under way
  started,       \* how many were started
  stopped        \* the backend's jobs that were canceled

vars == <<shown, sizes, job, asked, started, stopped>>

Empty == [generation |-> 0, loading |-> FALSE, of |-> {}]

(* Counted from the pane's sizes, which begin anew in every folder.          *)
CalcSizes(p) ==
  LET gen == sizes[p].generation + 1 IN
  /\ started < MaxJobs /\ started' = started + 1
  /\ sizes' = [sizes EXCEPT ![p] = [generation |-> gen, loading |-> TRUE, of |-> {}]]
  /\ asked' = asked \cup {[op |-> "newJob", pane |-> p, folder |-> shown[p], generation |-> gen, id |-> started']}
  /\ UNCHANGED <<shown, job, stopped>>

(* Without an id of the backend's the calculation goes on, not to be stopped. *)
StartJob(c, backend) ==
  /\ c.op = "newJob"
  /\ job' = [job EXCEPT ![c.pane] = {[id |-> c.id, backend |-> backend]}]
  /\ asked' = (asked \ {c}) \cup {[c EXCEPT !.op = "sizes"]}
  /\ UNCHANGED <<shown, sizes, started, stopped>>

Settle(c, of) ==
  sizes' = IF sizes[c.pane].generation # c.generation THEN sizes
           ELSE [sizes EXCEPT ![c.pane] = [generation |-> c.generation, loading |-> FALSE, of |-> of]]
FinishJob(c) == job' = [job EXCEPT ![c.pane] = {j \in @ : j.id # c.id}]

SizesDone(c) ==
  /\ c.op = "sizes" /\ asked' = asked \ {c}
  /\ Settle(c, {c.folder}) /\ FinishJob(c)
  /\ UNCHANGED <<shown, started, stopped>>

SizesFail(c) ==
  /\ c.op = "sizes" /\ asked' = asked \ {c}
  /\ Settle(c, {}) /\ FinishJob(c)
  /\ UNCHANGED <<shown, started, stopped>>

StopsBackend(p) == {j.id : j \in {k \in job[p] : k.backend}}
CancelJob(p) ==
  /\ job[p] # {} /\ job' = [job EXCEPT ![p] = {}]
  /\ stopped' = stopped \cup StopsBackend(p)
  /\ UNCHANGED <<shown, sizes, asked, started>>

(* Every way into a folder clears the pane's sizes (helpers.ts:21).          *)
Enter(p, f) ==
  /\ f # shown[p]
  /\ shown' = [shown EXCEPT ![p] = f]
  /\ sizes' = [sizes EXCEPT ![p] = Empty]
  /\ UNCHANGED <<job, asked, started, stopped>>

Swap ==
  /\ shown' = [p \in Panes |-> shown[Other(p)]]
  /\ sizes' = [p \in Panes |-> sizes[Other(p)]]
  /\ job' = [p \in Panes |-> job[Other(p)]]
  /\ UNCHANGED <<asked, started, stopped>>

----------------------------------------------------------------------------
Init ==
  /\ shown \in [Panes -> Folders] /\ sizes = [p \in Panes |-> Empty]
  /\ job = [p \in Panes |-> {}] /\ asked = {} /\ started = 0 /\ stopped = {}

Next ==
  \/ \E p \in Panes : CalcSizes(p) \/ CancelJob(p) \/ (\E f \in Folders : Enter(p, f))
  \/ \E c \in asked : (\E b \in BOOLEAN : StartJob(c, b)) \/ SizesDone(c) \/ SizesFail(c)
  \/ Swap

TypeOK ==
  /\ shown \in [Panes -> Folders]
  /\ \A p \in Panes : sizes[p].generation \in 0..MaxJobs /\ sizes[p].of \subseteq Folders
  /\ \A p \in Panes : \A j \in job[p] : j.id \in 1..started
  /\ stopped \subseteq 1..started

(* A pane shows a job only while it runs: "running jobs" follow their         *)
(* directory when the panes are swapped (pages/file-manager/helpers.ts:36).   *)
ShownJobIsRunning == \A p \in Panes : \A j \in job[p] : \E c \in asked : c.id = j.id

(* The sizes a pane holds are of the folder it shows: they "must follow the   *)
(* directory to the other pane" (folderSizeStore.ts:67).                     *)
SizesAreOfTheFolder == \A p \in Panes : sizes[p].of \subseteq {shown[p]}
===============================================================================
