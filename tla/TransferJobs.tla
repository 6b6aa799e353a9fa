---------------------------- MODULE TransferJobs ----------------------------
(***************************************************************************)
(* The life of a transfer job, from the click that starts it to the row     *)
(* that disappears: the job registry, the transfer gate and the four entry  *)
(* points of FileService (internal/service: runTransfer, AttachDiskImage,   *)
(* pasteRemote, ExtractBatch), and the frontend's transfer bar              *)
(* (frontend/src/features/transfers, features/dmg, toolbar/hooks).          *)
(*                                                                         *)
(* Backend and frontend meet in calls, whose answers come back in any       *)
(* order, and in events, which come in the order they were emitted but are  *)
(* not ordered against the answers (transferStore.ts, removedJobIds).       *)
(***************************************************************************)
EXTENDS Integers, Sequences, FiniteSets

CONSTANTS
  Jobs,     \* the ids NewJobID hands out
  Kind,     \* Kind[j]: how the job is started
  Slots,    \* maxConcurrentTransfers
  MaxTicks, \* bound: progress events one job emits
  MaxStarts \* bound: jobs started, of any kinds

Kinds == {"transfer", "attach", "paste", "extract"}

ASSUME JobsAssumption ==
  /\ IsFiniteSet(Jobs)
  /\ Kind \in [Jobs -> Kinds]
  /\ Slots \in Nat \ {0}
  /\ MaxTicks \in Nat /\ MaxStarts \in Nat

VARIABLES
  pc,       \* where the backend call of each job is
  handles,  \* FileService.jobs: the ids with a handle
  dead,     \* the jobs whose own context has been cancelled
  holds,    \* the context each call read: "own", "background", "none" yet
  gate,     \* the tokens in the transferGate channel
  err,      \* the error the call returns
  ticks,    \* progress events emitted
  wire,     \* the event channel to the frontend
  replies,  \* answers of the backend calls on their way
  cancels,  \* CancelJob calls on their way
  handled,  \* history: CancelJob has been handled for these jobs
  rows,     \* transferStore.byId
  removed,  \* removedJobIds
  timers    \* the timeouts set on transfer:done

backVars == <<pc, handles, dead, holds, gate, err, ticks>>
netVars == <<wire, replies, cancels, handled>>
uiVars == <<rows, removed, timers>>
vars == <<backVars, netVars, uiVars>>

Gated == {j \in Jobs : Kind[j] # "extract"}

Init ==
  /\ pc = [j \in Jobs |-> "new"]
  /\ handles = {} /\ dead = {} /\ holds = [j \in Jobs |-> "none"]
  /\ gate = 0
  /\ err = [j \in Jobs |-> "none"]
  /\ ticks = [j \in Jobs |-> 0]
  /\ wire = <<>> /\ replies = {} /\ cancels = {} /\ handled = {}
  /\ rows = {} /\ removed = {} /\ timers = {}

Startable(j) ==
  pc[j] = "new" /\ Cardinality({k \in Jobs : pc[k] # "new"}) < MaxStarts

Goto(j, where) == pc' = [pc EXCEPT ![j] = where]
Ends(j, e) == err' = [err EXCEPT ![j] = e]
Emit(event, j) == wire' = Append(wire, <<event, j>>)

\* The context a call holds; nobody can cancel the background context.
CtxDone(j) == holds[j] = "own" /\ j \in dead

\* CancelJob and FinishJob: LoadAndDelete, then cancel what was there.
Drop(j) ==
  /\ handles' = handles \ {j}
  /\ dead' = IF j \in handles THEN dead \cup {j} ELSE dead

\* transferStore.remove.
RemoveRow(j) == rows' = rows \ {j} /\ removed' = removed \cup {j}

-----------------------------------------------------------------------------
(***************************************************************************)
(* Starting a job.                                                          *)
(***************************************************************************)

\* startTransfer, startAttachDmg, runTransferJob: NewJobID stores the handle,
\* its answer puts the row up and sends the call.
Start(j) ==
  /\ Startable(j) /\ Kind[j] # "paste"
  /\ handles' = handles \cup {j}
  /\ rows' = rows \cup {j} /\ removed' = removed \ {j}
  /\ Goto(j, "called")
  /\ UNCHANGED <<dead, holds, gate, err, ticks, netVars, timers>>

\* pasteRemote takes a job id of its own, no row is put up for it; a PNG that
\* cannot be written ends it.
StartPaste(j) ==
  /\ Startable(j) /\ Kind[j] = "paste"
  /\ \/ /\ handles' = handles \cup {j} /\ Goto(j, "called")
        /\ UNCHANGED <<dead, err>>
     \/ /\ dead' = dead \cup {j} /\ Goto(j, "over") /\ Ends(j, "error")
        /\ UNCHANGED handles
  /\ UNCHANGED <<holds, gate, ticks, netVars, uiVars>>

\* jobCtx: the background context if the handle is gone.
ReadCtx(j) ==
  /\ pc[j] = "called"
  /\ holds' = [holds EXCEPT ![j] = IF j \in handles THEN "own" ELSE "background"]
  /\ Goto(j, IF Kind[j] = "extract" THEN "running" ELSE "waiting")
  /\ UNCHANGED <<handles, dead, gate, err, ticks, netVars, uiVars>>

-----------------------------------------------------------------------------
(***************************************************************************)
(* The gate.                                                                *)
(***************************************************************************)

\* Fault: a slot is taken without looking at the channel's capacity.
AcquireAlways(j) ==
  /\ pc[j] = "waiting"
  /\ gate' = gate + 1
  /\ Goto(j, "running")
  /\ UNCHANGED <<handles, dead, holds, err, ticks, netVars, uiVars>>

Acquire(j) ==
  /\ pc[j] = "waiting" /\ gate < Slots
  /\ gate' = gate + 1
  /\ Goto(j, "running")
  /\ UNCHANGED <<handles, dead, holds, err, ticks, netVars, uiVars>>

\* Fault: a call that gives up at the gate gives back a slot it never had.
GiveUpAndRelease(j) ==
  /\ pc[j] = "waiting" /\ CtxDone(j)
  /\ gate' = gate - 1
  /\ Ends(j, "canceled")
  /\ Goto(j, "finishing")
  /\ UNCHANGED <<handles, dead, holds, ticks, netVars, uiVars>>

\* The context is done first.  runTransfer still announces the end, an attach
\* has not deferred its announcement yet.
GiveUp(j) ==
  /\ pc[j] = "waiting" /\ CtxDone(j)
  /\ Ends(j, "canceled")
  /\ Goto(j, IF Kind[j] = "attach" THEN "finishing" ELSE "announcing")
  /\ UNCHANGED <<handles, dead, holds, gate, ticks, netVars, uiVars>>

\* Takes one token back if there is one.
Release(j) ==
  /\ pc[j] = "releasing"
  /\ gate' = IF gate > 0 THEN gate - 1 ELSE gate
  /\ Goto(j, IF Kind[j] = "attach" THEN "finishing" ELSE "announcing")
  /\ UNCHANGED <<handles, dead, holds, err, ticks, netVars, uiVars>>

-----------------------------------------------------------------------------
(***************************************************************************)
(* The work, and the deferred calls in the order they run.                  *)
(***************************************************************************)

Progress(j) ==
  /\ pc[j] = "running" /\ ticks[j] < MaxTicks
  /\ ticks' = [ticks EXCEPT ![j] = @ + 1]
  /\ Emit("progress", j)
  /\ UNCHANGED <<pc, handles, dead, holds, gate, err, replies, cancels, handled, uiVars>>

\* The work ends by itself, or because its context is done.  runTransfer
\* releases, then announces; an attach announces, then releases; an extract
\* does neither.
WorkEnds(j) ==
  /\ pc[j] = "running"
  /\ \E e \in {"none", "error"} \cup (IF CtxDone(j) THEN {"canceled"} ELSE {}) :
       Ends(j, e)
  /\ Goto(j, IF Kind[j] = "attach" THEN "announcing"
             ELSE IF Kind[j] = "extract" THEN "returning" ELSE "releasing")
  /\ UNCHANGED <<handles, dead, holds, gate, ticks, netVars, uiVars>>

\* transfer:done.
Announce(j) ==
  /\ pc[j] = "announcing"
  /\ Emit("done", j)
  /\ Goto(j, IF Kind[j] = "attach" THEN "releasing" ELSE "finishing")
  /\ UNCHANGED <<handles, dead, holds, gate, err, ticks, replies, cancels, handled, uiVars>>

\* Fault: FinishJob leaves the handle where it is.
FinishJobKeeps(j) ==
  /\ pc[j] = "finishing"
  /\ Goto(j, "returning")
  /\ UNCHANGED <<handles, dead, holds, gate, err, ticks, netVars, uiVars>>

FinishJob(j) ==
  /\ pc[j] = "finishing"
  /\ Drop(j)
  /\ Goto(j, "returning")
  /\ UNCHANGED <<holds, gate, err, ticks, netVars, uiVars>>

Return(j) ==
  /\ pc[j] = "returning"
  /\ Goto(j, "over")
  /\ replies' = IF Kind[j] = "paste" THEN replies ELSE replies \cup {j}
  /\ UNCHANGED <<handles, dead, holds, gate, err, ticks, wire, cancels, handled, uiVars>>

\* CancelJob arrives.
HandleCancel(j) ==
  /\ j \in cancels
  /\ cancels' = cancels \ {j} /\ handled' = handled \cup {j}
  /\ Drop(j)
  /\ UNCHANGED <<pc, holds, gate, err, ticks, wire, replies, uiVars>>

-----------------------------------------------------------------------------
(***************************************************************************)
(* The frontend.                                                            *)
(***************************************************************************)

\* The call settles and takes its row down; an extract's job is finished here.
Settle(j) ==
  /\ j \in replies
  /\ replies' = replies \ {j}
  /\ IF Kind[j] = "extract" THEN Drop(j) ELSE UNCHANGED <<handles, dead>>
  /\ RemoveRow(j)
  /\ UNCHANGED <<pc, holds, gate, err, ticks, wire, cancels, handled, timers>>

\* Fault: updateProgress does not look at removedJobIds.
DeliverAnyProgress ==
  /\ wire # <<>> /\ Head(wire)[1] = "progress"
  /\ wire' = Tail(wire)
  /\ rows' = rows \cup {Head(wire)[2]}
  /\ UNCHANGED <<backVars, replies, cancels, handled, removed, timers>>

\* updateProgress makes the row if it has to, unless the row was removed.
DeliverProgress ==
  /\ wire # <<>> /\ Head(wire)[1] = "progress"
  /\ wire' = Tail(wire)
  /\ rows' = rows \cup ({Head(wire)[2]} \ removed)
  /\ UNCHANGED <<backVars, replies, cancels, handled, removed, timers>>

\* Fault: transfer:done is not listened to; the call's answer does it all.
DeliverDoneDeaf ==
  /\ wire # <<>> /\ Head(wire)[1] = "done"
  /\ wire' = Tail(wire)
  /\ UNCHANGED <<backVars, replies, cancels, handled, uiVars>>

\* transfer:done leaves the row up a little longer.
DeliverDone ==
  /\ wire # <<>> /\ Head(wire)[1] = "done"
  /\ wire' = Tail(wire)
  /\ timers' = timers \cup {Head(wire)[2]}
  /\ UNCHANGED <<backVars, replies, cancels, handled, rows, removed>>

Fire(j) ==
  /\ j \in timers
  /\ timers' = timers \ {j}
  /\ RemoveRow(j)
  /\ UNCHANGED <<backVars, netVars>>

\* The Cancel button of a row: CancelJob is sent and the row goes at once.
PressCancel(j) ==
  /\ j \in rows
  /\ cancels' = cancels \cup {j}
  /\ RemoveRow(j)
  /\ UNCHANGED <<backVars, wire, replies, handled, timers>>

-----------------------------------------------------------------------------
Backend(j) ==
  \/ ReadCtx(j) \/ Acquire(j) \/ GiveUp(j) \/ WorkEnds(j) \/ Release(j)
  \/ Announce(j) \/ FinishJob(j) \/ Return(j)

Frontend ==
  \/ DeliverProgress \/ DeliverDone
  \/ \E j \in Jobs : Settle(j) \/ Fire(j)

Next ==
  \/ \E j \in Jobs : \/ Start(j) \/ StartPaste(j) \/ Progress(j)
                     \/ Backend(j) \/ HandleCancel(j) \/ PressCancel(j)
  \/ Frontend

\* Every goroutine that can proceed does, calls and answers arrive, a timeout
\* fires; nothing makes the user start or cancel a job.
Fairness ==
  /\ \A j \in Jobs : WF_vars(Backend(j)) /\ WF_vars(HandleCancel(j))
  /\ \A j \in Jobs : WF_vars(Settle(j)) /\ WF_vars(Fire(j))
  /\ WF_vars(DeliverProgress \/ DeliverDone)

Spec == Init /\ [][Next]_vars /\ Fairness

-----------------------------------------------------------------------------
(***************************************************************************)
(* Correctness.                                                             *)
(***************************************************************************)

Events == {"progress", "done"} \X Jobs

\* Every variable has its type.
TypeOK ==
  /\ pc \in [Jobs -> {"new", "called", "waiting", "running", "releasing",
                      "announcing", "finishing", "returning", "over"}]
  /\ handles \subseteq Jobs /\ dead \subseteq Jobs
  /\ holds \in [Jobs -> {"none", "own", "background"}]
  /\ gate \in Nat
  /\ err \in [Jobs -> {"none", "canceled", "error"}]
  /\ ticks \in [Jobs -> 0..MaxTicks]
  /\ wire \in Seq(Events)
  /\ replies \subseteq Jobs /\ cancels \subseteq Jobs /\ handled \subseteq Jobs
  /\ rows \subseteq Jobs /\ removed \subseteq Jobs /\ timers \subseteq Jobs

\* The jobs between acquireTransfer and releaseTransfer: an attach announces
\* its end while it still holds its slot.
InGate(j) ==
  /\ Kind[j] # "extract"
  /\ \/ pc[j] \in {"running", "releasing"}
     \/ Kind[j] = "attach" /\ pc[j] = "announcing"
Holders == {j \in Jobs : InGate(j)}

\* The tokens in the channel are the jobs that hold a slot, and never more
\* than maxConcurrentTransfers: no token leaks on a cancelled or failed job,
\* and none is taken back twice (releaseTransfer would not notice).
GateCountsHolders == gate = Cardinality(Holders) /\ gate <= Slots

\* A handle outlives its job's call only until the answer arrives, so that the
\* registry does not grow (FinishJob in the deferred calls, runTransferJob).
HandlesAreLive ==
  \A j \in handles : pc[j] # "over" \/ j \in replies

\* Every job that was called returns, its handle is dropped, and its row goes
\* and stays away whatever order answers, events, timeouts and a cancel come
\* in (useTransferEvents, transferStore.remove).
EveryJobClears ==
  \A j \in Jobs : (pc[j] = "called") ~> [](j \notin rows \cup handles)

\* Where a job stands at the gate.
Standing(j) ==
  IF pc[j] \in {"new", "called"} THEN "out"
  ELSE IF pc[j] = "waiting" THEN "queued"
  ELSE IF InGate(j) THEN "in" ELSE "left"

Standings == [j \in Gated |-> Standing(j)]

Gate == INSTANCE SlotPool WITH Jobs <- Gated, phase <- Standings

\* The counter in a channel is the abstract pool of slots.
GateSpec == Gate!Spec

\* CancelJob: "cancels a long-running Archive/Extract/DirChildSizes/Copy/Move/
\* Attach started with NewJobID".  A cancel that is handled before the call has
\* read its context leaves the call running under the background context.
CancelReaches ==
  \A j \in handled : pc[j] \in {"waiting", "running"} => CtxDone(j)
=============================================================================
