------------------------------ MODULE Passwords -------------------------------
(***************************************************************************)
(* The prompts for passwords (frontend: features/vault, widgets/vault,        *)
(* features/dmg): those that lock a folder or a file, unlock a vault or       *)
(* remove its password, the jobs they start, and the one for a disk image.    *)
(***************************************************************************)
EXTENDS Integers, Sequences

CONSTANTS
  Paths,         \* folders and files that are or may become vaults
  Regular,       \* those of them that are files
  Images,        \* disk images
  MaxCalls       \* bound on the calls to the backend

Panes == {"left", "right"}

VARIABLES
  dialog,        \* the prompt for a vault: [mode, path, pane, typed, mount, failed]
  mounts,        \* how often it was opened
  image,         \* that for a disk image: [open, path, pane, failed], and what is
  typed,         \* typed there: {}, or the image the password was typed for
  here,          \* [pane -> what it shows]
  job,           \* [pane -> {}, or the vault job it shows: [id, path]]
  calls,         \* [op, id, path, pane, mount, password]: calls under way
  made,          \* how many were made
  running,       \* the vault jobs of the backend
  events         \* the ends of jobs told and not handled

prompts == <<dialog, mounts, image, typed>>
backend == <<running, events>>
vars == <<prompts, here, job, calls, made, backend>>

NoDialog == [mode |-> "", path |-> "", pane |-> "left", typed |-> {}, mount |-> 0, failed |-> FALSE]
Shut == [dialog EXCEPT !.mode = ""]
NoImage == [open |-> FALSE, path |-> "", pane |-> "left", failed |-> FALSE]

Call(op, path, pane, mount, password) ==
  /\ made < MaxCalls /\ made' = made + 1
  /\ calls' = calls \cup {[op |-> op, id |-> made', path |-> path, pane |-> pane,
                           mount |-> mount, password |-> password]}

(* An answer finds the prompt that asked only while that is still there.       *)
Asks(c) == dialog.mode # "" /\ dialog.mount = c.mount

----------------------------------------------------------------------------
(* The prompts for vaults.                                                   *)

\* Fault: the prompt is not a new one: what was typed in the last is still there.
OpenPromptKeeps(mode, path, pane) ==
  /\ dialog.mode = "" /\ ~image.open
  /\ mode # "unlock" => \A j \in job[pane] : j.path # path
  /\ mounts' = mounts + 1
  /\ dialog' = [dialog EXCEPT !.mode = mode, !.path = path, !.pane = pane, !.mount = mounts']
  /\ UNCHANGED <<image, typed, here, job, calls, made, backend>>

(* Not while a job for the path is shown in the pane, unless to unlock it.    *)
OpenPrompt(mode, path, pane) ==
  /\ dialog.mode = "" /\ ~image.open
  /\ mode # "unlock" => \A j \in job[pane] : j.path # path
  /\ mounts' = mounts + 1
  /\ dialog' = [NoDialog EXCEPT !.mode = mode, !.path = path, !.pane = pane, !.mount = mounts']
  /\ UNCHANGED <<image, typed, here, job, calls, made, backend>>

TypePassword ==
  /\ dialog.mode # "" /\ dialog' = [dialog EXCEPT !.typed = {dialog.path}]
  /\ UNCHANGED <<mounts, image, typed, here, job, calls, made, backend>>

ClosePrompt ==
  /\ dialog.mode # "" /\ dialog' = Shut
  /\ UNCHANGED <<mounts, image, typed, here, job, calls, made, backend>>

Submit ==
  /\ dialog.mode # "" /\ dialog.typed # {} /\ \A c \in calls : c.mount # dialog.mount
  /\ Call(dialog.mode, dialog.path, dialog.pane, dialog.mount, dialog.typed)
  /\ dialog' = [dialog EXCEPT !.failed = FALSE]
  /\ UNCHANGED <<mounts, image, typed, here, job, backend>>

(* The backend begins the job, and its id is on its way.                     *)
JobBegins(c) ==
  /\ c.op \in {"lock", "remove"} /\ running' = running \cup {c.id}
  /\ calls' = (calls \ {c}) \cup {[c EXCEPT !.op = "job"]}
  /\ UNCHANGED <<prompts, here, job, made, events>>

JobShown(c) ==
  /\ c.op = "job" /\ calls' = calls \ {c}
  /\ IF Asks(c) THEN /\ dialog' = Shut
                     /\ job' = [job EXCEPT ![c.pane] = {[id |-> c.id, path |-> c.path]}]
     ELSE UNCHANGED <<dialog, job>>
  /\ UNCHANGED <<mounts, image, typed, here, made, backend>>

(* A file that was unlocked is not entered.                                  *)
Unlocked(c) ==
  /\ c.op = "unlock" /\ calls' = calls \ {c}
  /\ dialog' = IF Asks(c) THEN Shut ELSE dialog
  /\ here' = IF Asks(c) /\ c.path \notin Regular THEN [here EXCEPT ![c.pane] = c.path] ELSE here
  /\ UNCHANGED <<mounts, image, typed, job, made, backend>>

PromptFails(c) ==
  /\ c.op \in {"lock", "remove", "unlock"} /\ calls' = calls \ {c}
  /\ dialog' = IF Asks(c) THEN [dialog EXCEPT !.failed = TRUE] ELSE dialog
  /\ UNCHANGED <<mounts, image, typed, here, job, made, backend>>

----------------------------------------------------------------------------
(* The jobs.                                                                *)

JobEnds(id) ==
  /\ id \in running /\ running' = running \ {id} /\ events' = Append(events, id)
  /\ UNCHANGED <<prompts, here, job, calls, made>>

(* Whichever pane shows the job.                                             *)
VaultProgress ==
  /\ events # <<>> /\ events' = Tail(events)
  /\ job' = [p \in Panes |-> {j \in job[p] : j.id # Head(events)}]
  /\ UNCHANGED <<prompts, here, calls, made, running>>

CancelJob(p) ==
  /\ job[p] # {} /\ job' = [job EXCEPT ![p] = {}]
  /\ running' = running \ {j.id : j \in job[p]}
  /\ UNCHANGED <<prompts, here, calls, made, events>>

----------------------------------------------------------------------------
(* Disk images.                                                             *)

OpenImage(path, pane) ==
  /\ dialog.mode = "" /\ ~image.open /\ Call("isEncrypted", path, pane, 0, {})
  /\ UNCHANGED <<prompts, here, job, backend>>

(* An image asks again in the place of whatever is asked for now.             *)
Prompt(c, failed) ==
  /\ image' = [open |-> TRUE, path |-> c.path, pane |-> c.pane, failed |-> failed]
  /\ UNCHANGED <<dialog, mounts, typed>>

IsEncrypted(c) ==
  /\ c.op = "isEncrypted" /\ calls' = calls \ {c} /\ Prompt(c, FALSE)
  /\ UNCHANGED <<here, job, made, backend>>

NotEncrypted(c) ==
  /\ c.op = "isEncrypted" /\ calls' = (calls \ {c}) \cup {[c EXCEPT !.op = "attach"]}
  /\ UNCHANGED <<prompts, here, job, made, backend>>

TypeImagePassword ==
  /\ image.open /\ typed' = {image.path}
  /\ UNCHANGED <<dialog, mounts, image, here, job, calls, made, backend>>

CloseImage ==
  /\ image.open /\ image' = NoImage /\ typed' = {}
  /\ UNCHANGED <<dialog, mounts, here, job, calls, made, backend>>

SubmitImage ==
  /\ image.open /\ Call("attach", image.path, image.pane, 0, typed)
  /\ image' = NoImage /\ typed' = {}
  /\ UNCHANGED <<dialog, mounts, here, job, backend>>

Attached(c) ==
  /\ c.op = "attach" /\ calls' = calls \ {c} /\ here' = [here EXCEPT ![c.pane] = c.path]
  /\ UNCHANGED <<prompts, job, made, backend>>

NeedsPassword(c) ==
  /\ c.op = "attach" /\ calls' = calls \ {c} /\ Prompt(c, TRUE)
  /\ UNCHANGED <<here, job, made, backend>>

CallFails(c) ==
  /\ c.op \in {"isEncrypted", "attach"} /\ calls' = calls \ {c}
  /\ UNCHANGED <<prompts, here, job, made, backend>>

----------------------------------------------------------------------------
Init ==
  /\ dialog = NoDialog /\ mounts = 0 /\ image = NoImage /\ typed = {}
  /\ here = [p \in Panes |-> "home"] /\ job = [p \in Panes |-> {}]
  /\ calls = {} /\ made = 0 /\ running = {} /\ events = <<>>

Next ==
  \/ \E m \in {"lock", "unlock", "remove"}, q \in Paths, p \in Panes : OpenPrompt(m, q, p)
  \/ TypePassword \/ ClosePrompt \/ Submit
  \/ \E c \in calls : \/ JobBegins(c) \/ JobShown(c) \/ Unlocked(c) \/ PromptFails(c)
                      \/ IsEncrypted(c) \/ NotEncrypted(c)
                      \/ Attached(c) \/ NeedsPassword(c) \/ CallFails(c)
  \/ (\E id \in running : JobEnds(id)) \/ VaultProgress
  \/ (\E p \in Panes : CancelJob(p))
  \/ \E i \in Images, p \in Panes : OpenImage(i, p)
  \/ TypeImagePassword \/ CloseImage \/ SubmitImage

TypeOK ==
  /\ dialog.path \in Paths \cup {""} /\ dialog.typed \subseteq Paths
  /\ image.path \in Images \cup {""} /\ typed \subseteq Images /\ (typed # {} => image.open)
  /\ \A p \in Panes : \A j \in job[p] : j.id \in 1..made /\ j.path \in Paths
  /\ running \subseteq 1..made

(* A password typed for one vault is sent for no other, whichever prompts were *)
(* left, failed or answered before (useState in LockDialog.tsx:29).           *)
VaultPasswordsStayTheirs ==
  \A c \in calls : c.op \in {"lock", "unlock", "remove"} => c.password = {c.path}

(* "Enter the password to attach {name}." (DmgPasswordDialog.tsx:61): what is   *)
(* sent for an image was typed for it.                                      *)
ImagePasswordsStayTheirs ==
  \A c \in calls : c.op = "attach" => c.password \subseteq {c.path}

(* A pane shows no job that has ended and been told of (useVaultEvents.ts:28). *)
ShownJobRuns ==
  \A p \in Panes : \A j \in job[p] :
    j.id \in running \/ \E i \in DOMAIN events : events[i] = j.id
===============================================================================
