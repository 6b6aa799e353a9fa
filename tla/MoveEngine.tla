----------------------------- MODULE MoveEngine -----------------------------
(***************************************************************************)
(* MoveCtx (internal/filesystem/progress.go): first every source is renamed *)
(* into the destination; those whose rename fails are then copied and       *)
(* deleted one at a time, each by a copier of its own whose context is the  *)
(* source's context.                                                        *)
(***************************************************************************)
EXTENDS Copier

VARIABLES
  origin,  \* origin[s]: what is left of source s where it was
  toCopy,  \* the sources whose rename failed, in order
  k,       \* the index in toCopy of the source being copied
  result   \* what MoveCtx returned, once it has

loopVars == <<origin, toCopy, k, result>>
vars == <<copierVars, loopVars>>

\* removeCreatedOnErr(remaining): the targets of toCopy from index k on.
Remaining == {target[toCopy[i]] : i \in k..Len(toCopy)}

Init ==
  /\ CopierInit
  /\ origin = [s \in Sources |-> "whole"]
  /\ toCopy = <<>> /\ k = 1 /\ result = "none"

Exits(e) == result' = e /\ pc' = "returned"

-----------------------------------------------------------------------------
(***************************************************************************)
(* The renames.                                                             *)
(***************************************************************************)

\* The loop head returns at a context that is done; Resolve fails, or the
\* source already lies in the destination (ErrSamePath).
SourceStops ==
  /\ pc = "source" /\ cur \in Sources
  /\ \/ CtxDone /\ Exits("canceled") /\ UNCHANGED faults
     \/ ~CtxDone /\ Exits("error") /\ faults' = TRUE
  /\ UNCHANGED <<ctxVars, chanVars, diskVars, status, frameVars, origin, toCopy, k>>

\* The target is named, the row added, and the rename tried.
TryRename ==
  LET to == UniquePath(Base[cur])
  IN  /\ pc = "source" /\ cur \in Sources /\ ~CtxDone
      /\ target' = [target EXCEPT ![cur] = to]
      /\ cur' = cur + 1
      /\ \/ /\ PutTree(cur, to)
            /\ origin' = [origin EXCEPT ![cur] = "gone"]
            /\ status' = [status EXCEPT ![cur] = "done"]
            /\ UNCHANGED toCopy
         \/ /\ toCopy' = Append(toCopy, cur)
            /\ status' = [status EXCEPT ![cur] = "active"]
            /\ UNCHANGED <<diskVars, origin>>
      /\ UNCHANGED <<ctxVars, chanVars, faults, pc, next, ret, k, result>>

\* Nothing to copy, or collectCopyStats fails, or the copies begin.
RenamesDone ==
  /\ pc = "source" /\ cur \notin Sources
  /\ \/ toCopy = <<>> /\ Exits("nil") /\ UNCHANGED <<diskVars, faults>>
     \/ toCopy # <<>> /\ Exits("error") /\ RemoveAll(Remaining) /\ faults' = TRUE
     \/ toCopy # <<>> /\ pc' = "copy" /\ UNCHANGED <<diskVars, faults, result>>
  /\ UNCHANGED <<ctxVars, chanVars, status, frameVars, origin, toCopy, k>>

-----------------------------------------------------------------------------
(***************************************************************************)
(* Copy and delete, one source at a time.                                   *)
(***************************************************************************)

\* A context and a copier for the next source; the registry cancels both.
OpenCopier ==
  /\ pc = "copy" /\ k <= Len(toCopy)
  /\ cur' = toCopy[k] /\ next' = 1 /\ ret' = "none" /\ pc' = "place"
  /\ registry' = {toCopy[k]}
  /\ poolDone' = FALSE /\ poolErr' = "none"
  /\ queue' = <<>> /\ closed' = FALSE /\ worker' = FreshWorkers
  /\ UNCHANGED <<jobCanceled, srcDone, diskVars, rowVars, target, loopVars>>

\* Fault: the channel is never closed.
CloseJobsNever ==
  /\ pc = "placed" /\ pc' = "wait"
  /\ UNCHANGED <<poolVars, frameVars, loopVars>>

\* The error of place, under the context's own if that is done; finish
\* closes the channel.
CloseJobs ==
  /\ pc = "placed"
  /\ ret' = (IF ret # "none" /\ CtxDone THEN "canceled" ELSE ret)
  /\ closed' = TRUE /\ pc' = "wait"
  /\ UNCHANGED <<ctxVars, queue, worker, poolErr, diskVars, rowVars, cur, next,
                 target, loopVars>>

\* finish has returned; the source leaves the registry, then the errors are
\* looked at in this order.
Settled == pc = "wait" /\ PoolDrained /\ registry' = {}

\* "only this source was cancelled": its target goes, the next one follows.
SkipSource ==
  /\ Settled
  /\ ret = "canceled" /\ ~jobCanceled
  /\ status' = [status EXCEPT ![cur] = "canceled"]
  /\ RemoveAll({target[cur]})
  /\ k' = k + 1 /\ pc' = "copy"
  /\ UNCHANGED <<doneVars, chanVars, faults, frameVars, origin, toCopy, result>>

\* Fault: the targets of the sources that failed stay.
CopyFailedKeeps ==
  /\ Settled
  /\ ~(ret = "canceled" /\ ~jobCanceled)
  /\ ret # "none" \/ WaitErr # "none"
  /\ Exits(IF ret # "none" THEN ret ELSE WaitErr)
  /\ UNCHANGED <<doneVars, chanVars, diskVars, rowVars, frameVars, origin, toCopy, k>>

\* Fault: the cleanup takes every target created so far.
CopyFailedTakesAll ==
  /\ Settled
  /\ ~(ret = "canceled" /\ ~jobCanceled)
  /\ ret # "none" \/ WaitErr # "none"
  /\ RemoveAll({target[toCopy[i]] : i \in DOMAIN toCopy})
  /\ Exits(IF ret # "none" THEN ret ELSE WaitErr)
  /\ UNCHANGED <<doneVars, chanVars, rowVars, frameVars, origin, toCopy, k>>

\* Any other error of place, then an error of the workers, ends the call.
CopyFailed ==
  /\ Settled
  /\ ~(ret = "canceled" /\ ~jobCanceled)
  /\ ret # "none" \/ WaitErr # "none"
  /\ RemoveAll(Remaining)
  /\ Exits(IF ret # "none" THEN ret ELSE WaitErr)
  /\ UNCHANGED <<doneVars, chanVars, rowVars, frameVars, origin, toCopy, k>>

\* Fault: the source is deleted before the workers are waited for.
CopiedEarly ==
  /\ pc = "wait" /\ ret = "none"
  /\ registry' = {}
  /\ pc' = "delete"
  /\ UNCHANGED <<doneVars, chanVars, diskVars, rowVars, frameVars, loopVars>>

Copied ==
  /\ Settled
  /\ ret = "none" /\ WaitErr = "none"
  /\ pc' = "delete"
  /\ UNCHANGED <<doneVars, chanVars, diskVars, rowVars, frameVars, loopVars>>

DeleteSource ==
  /\ pc = "delete"
  /\ origin' = [origin EXCEPT ![cur] = "gone"]
  /\ status' = [status EXCEPT ![cur] = "done"]
  /\ k' = k + 1 /\ pc' = "copy"
  /\ UNCHANGED <<ctxVars, chanVars, diskVars, faults, frameVars, toCopy, result>>

\* Delete fails, having removed nothing or, of a directory, a part; the
\* targets go all the same.
DeleteFails ==
  /\ pc = "delete"
  /\ \E left \in IF cur \in Dirs THEN {"whole", "partly"} ELSE {"whole"} :
       origin' = [origin EXCEPT ![cur] = left]
  /\ faults' = TRUE
  /\ RemoveAll(Remaining)
  /\ Exits("error")
  /\ UNCHANGED <<ctxVars, chanVars, status, frameVars, toCopy, k>>

CopiesDone ==
  /\ pc = "copy" /\ k > Len(toCopy)
  /\ Exits("nil")
  /\ UNCHANGED <<poolVars, frameVars, origin, toCopy, k>>

Loop ==
  \/ SourceStops \/ TryRename \/ RenamesDone \/ OpenCopier \/ CloseJobs
  \/ SkipSource \/ CopyFailed \/ Copied \/ DeleteSource \/ DeleteFails \/ CopiesDone

Caller == Loop \/ (Place /\ UNCHANGED loopVars)

-----------------------------------------------------------------------------
(***************************************************************************)
(* The UI.  The registered cancel is the copier's own.                      *)
(***************************************************************************)
CancelFile(s) ==
  /\ s \in registry
  /\ srcDone' = srcDone \cup {s} /\ poolDone' = TRUE
  /\ registry' = registry \ {s}
  /\ UNCHANGED <<jobCanceled, chanVars, diskVars, rowVars, placeVars, loopVars>>

Cancel == pc # "returned" /\ CancelJob /\ UNCHANGED loopVars

Work(w) == WorkerStep(w) /\ UNCHANGED loopVars

Returned == pc = "returned" /\ UNCHANGED vars

Next ==
  \/ Caller
  \/ \E w \in Workers : Work(w)
  \/ \E s \in Sources : CancelFile(s)
  \/ Cancel
  \/ Returned

Fairness == WF_vars(Caller) /\ \A w \in Workers : WF_vars(Work(w))

Spec == Init /\ [][Next]_vars /\ Fairness

-----------------------------------------------------------------------------
(***************************************************************************)
(* Correctness.                                                             *)
(***************************************************************************)

\* Every variable has its type.
TypeOK ==
  /\ CopierTypeOK
  /\ pc \in {"source", "copy", "place", "cloned", "leaf", "send", "placed",
             "wait", "delete", "returned"}
  /\ origin \in [Sources -> {"whole", "partly", "gone"}]
  /\ toCopy \in Seq(Sources) /\ k \in 1..(NumSources + 1)
  /\ result \in {"none", "nil", "canceled", "error"}

Ended == pc = "returned"
Untouched(s) == origin[s] = "whole" /\ ~\E x \in written : x.src = s
Moved(s) == origin[s] = "gone" /\ WholeAt(s, target[s])

\* A directory entry that was in the destination stays (UniquePath).
OthersUntouched ==
  Taken \subseteq roots /\ \A x \in written : x.to \notin Taken

\* At every moment of a move each source can be read in full somewhere: it is
\* whole where it was or whole at its target, unless Delete itself stopped
\* halfway through the directory (MoveCtx, Delete); and what was in the
\* destination stays.
NothingLost ==
  OthersUntouched /\ \A s \in Sources : origin[s] # "gone" \/ WholeAt(s, target[s])

\* When the call returns, with whatever error and whoever cancelled, a source
\* has moved whole or is where it was and left nothing in the destination.
NoHalfMove ==
  Ended => \A s \in Sources : Untouched(s) \/ Moved(s) \/ origin[s] = "partly"

\* The rows tell which sources moved: "done" exactly for those that did, even
\* when the call ends in an error (setRootStatus).
DoneIsMoved == Ended => \A s \in Sources : (status[s] = "done") <=> Moved(s)

\* The call returns (copier.finish, one copier after another).
Terminates == <>Ended

\* CancelTransferFile: "cancels one source path within a running Copy/Move job
\* without cancelling the rest of it".  A cancel that lands once place has
\* returned ends the whole move.
OnlyRealCauses ==
  (Ended /\ result # "nil") => (jobCanceled \/ faults)

\* MoveCtx: "only this source was cancelled via FileCancelRegistry".  An error
\* of a worker cancels the same context, and the branch drops it.
CanceledByUser ==
  \A s \in Sources : status[s] = "canceled" => s \in srcDone
=============================================================================
