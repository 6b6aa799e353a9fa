----------------------------- MODULE CopyEngine -----------------------------
(***************************************************************************)
(* CopyCtx (internal/filesystem/copy_conc.go): the calling goroutine places *)
(* the sources one after another while the workers of Copier copy their   *)
(* files; CancelJob and CancelTransferFile arrive from the UI at any point. *)
(***************************************************************************)
EXTENDS Copier

VARIABLES
  created,    \* the sources whose target is in `created`
  succeeded,  \* the sources whose place returned nil
  canceled,   \* the sources whose target is in `canceled`
  placeErr,   \* what ended the loop over the sources
  result      \* what CopyCtx returned, once it has

listVars == <<created, succeeded, canceled>>
loopVars == <<listVars, placeErr, result>>
vars == <<copierVars, loopVars>>

TargetsOf(S) == {target[s] : s \in S}

Init ==
  /\ CopierInit
  /\ created = {} /\ succeeded = {} /\ canceled = {}
  /\ placeErr = "none" /\ result = "none"

-----------------------------------------------------------------------------
(***************************************************************************)
(* The loop over the sources.                                               *)
(***************************************************************************)

\* The loop head stops at a context that is done.
SourceCanceled ==
  /\ pc = "source" /\ cur \in Sources /\ CtxDone
  /\ placeErr' = "canceled" /\ pc' = "drain"
  /\ UNCHANGED <<poolVars, frameVars, listVars, result>>

\* Resolve fails, or the source is a directory the destination lies in.
SourceRefused ==
  /\ pc = "source" /\ cur \in Sources /\ ~CtxDone
  /\ faults' = TRUE
  /\ placeErr' = "error" /\ pc' = "drain"
  /\ UNCHANGED <<ctxVars, chanVars, diskVars, status, frameVars, listVars, result>>

\* The target is named, the source registered, its row added and its target
\* recorded for the cleanup, before anything is placed.
StartSource ==
  LET to == UniquePath(Base[cur])
  IN  /\ pc = "source" /\ cur \in Sources /\ ~CtxDone
      /\ target' = [target EXCEPT ![cur] = to]
      /\ registry' = registry \cup {cur}
      /\ status' = [status EXCEPT ![cur] = "active"]
      /\ created' = created \cup {cur}
      /\ next' = 1 /\ pc' = "place"
      /\ UNCHANGED <<doneVars, chanVars, diskVars, faults, cur, ret, succeeded,
                     canceled, placeErr, result>>

\* Fault: the loop skips a cancelled source but forgets its target.
AfterPlaceForgets ==
  /\ pc = "placed" /\ (ret = "none" \/ (ret = "canceled" /\ ~CtxDone))
  /\ succeeded' = IF ret = "none" THEN succeeded \cup {cur} ELSE succeeded
  /\ status' = [status EXCEPT ![cur] = IF ret = "none" THEN @ ELSE "canceled"]
  /\ cur' = cur + 1 /\ pc' = "source"
  /\ UNCHANGED <<ctxVars, chanVars, diskVars, faults, next, target, ret,
                 created, canceled, placeErr, result>>

\* The loop body looks at what place returned: a done context ends the loop,
\* a source that alone was cancelled is skipped, another error ends the loop.
AfterPlace ==
  /\ pc = "placed"
  /\ \/ /\ ret = "none"
        /\ succeeded' = succeeded \cup {cur}
        /\ cur' = cur + 1 /\ pc' = "source"
        /\ UNCHANGED <<canceled, placeErr, status>>
     \/ /\ ret # "none" /\ CtxDone
        /\ placeErr' = "canceled" /\ pc' = "drain"
        /\ UNCHANGED <<succeeded, canceled, cur, status>>
     \/ /\ ret = "canceled" /\ ~CtxDone
        /\ status' = [status EXCEPT ![cur] = "canceled"]
        /\ canceled' = canceled \cup {cur}
        /\ cur' = cur + 1 /\ pc' = "source"
        /\ UNCHANGED <<succeeded, placeErr>>
     \/ /\ ret = "error" /\ ~CtxDone
        /\ placeErr' = "error" /\ pc' = "drain"
        /\ UNCHANGED <<succeeded, canceled, cur, status>>
  /\ UNCHANGED <<ctxVars, chanVars, diskVars, faults, next, target, ret,
                 created, result>>

LoopDone ==
  /\ pc = "source" /\ cur \notin Sources
  /\ pc' = "drain"
  /\ UNCHANGED <<poolVars, frameVars, loopVars>>

-----------------------------------------------------------------------------
(***************************************************************************)
(* After the loop.                                                          *)
(***************************************************************************)

\* A failed loop cancels the copier; finish closes the channel and waits.
CloseJobs ==
  /\ pc = "drain"
  /\ poolDone' = (poolDone \/ placeErr # "none")
  /\ closed' = TRUE /\ pc' = "wait"
  /\ UNCHANGED <<jobCanceled, srcDone, registry, queue, worker, poolErr, diskVars,
                 rowVars, frameVars, loopVars>>

\* Fault: the result is settled before the workers have stopped.
FinishEarly ==
  /\ pc = "wait"
  /\ placeErr' = (IF placeErr # "none" THEN placeErr ELSE WaitErr)
  /\ registry' = {}
  /\ pc' = "cleanup"
  /\ UNCHANGED <<doneVars, chanVars, diskVars, rowVars, frameVars, listVars, result>>

\* Fault: the workers' error is not looked at.
FinishDeaf ==
  /\ pc = "wait" /\ PoolDrained
  /\ registry' = {}
  /\ status' = [s \in Sources |->
                  IF placeErr = "none" /\ s \in succeeded THEN "done" ELSE status[s]]
  /\ pc' = "cleanup"
  /\ UNCHANGED <<doneVars, chanVars, diskVars, faults, frameVars, loopVars>>

\* The workers are gone: the sources leave the registry, and the error of the
\* loop goes before the workers' error.  (Their contexts are cancelled too, but
\* nobody looks at them any more: srcDone keeps what the UI cancelled.)
Finish ==
  LET err == IF placeErr # "none" THEN placeErr ELSE WaitErr
  IN  /\ pc = "wait" /\ PoolDrained
      /\ registry' = {}
      /\ placeErr' = err
      /\ status' = [s \in Sources |->
                      IF err = "none" /\ s \in succeeded THEN "done" ELSE status[s]]
      /\ pc' = "cleanup"
      /\ UNCHANGED <<doneVars, chanVars, diskVars, faults, frameVars, listVars, result>>

\* The deferred cleanup: all targets after an error, the cancelled sources'
\* targets always.
Cleanup ==
  /\ pc = "cleanup"
  /\ RemoveAll(TargetsOf(canceled \cup (IF placeErr # "none" THEN created ELSE {})))
  /\ result' = (IF placeErr = "none" THEN "nil" ELSE placeErr)
  /\ pc' = "returned"
  /\ UNCHANGED <<ctxVars, chanVars, rowVars, frameVars, listVars, placeErr>>

Loop ==
  \/ SourceCanceled \/ SourceRefused \/ StartSource \/ AfterPlace \/ LoopDone
  \/ CloseJobs \/ Finish \/ Cleanup

Caller == Loop \/ (Place /\ UNCHANGED loopVars)

-----------------------------------------------------------------------------
(***************************************************************************)
(* The UI.  CancelTransferFile finds a source only while it is registered.  *)
(***************************************************************************)
CancelFile(s) ==
  /\ s \in registry
  /\ srcDone' = srcDone \cup {s} /\ registry' = registry \ {s}
  /\ UNCHANGED <<jobCanceled, poolDone, chanVars, diskVars, rowVars, placeVars,
                 loopVars>>

Cancel == pc # "returned" /\ CancelJob /\ UNCHANGED loopVars

Work(w) == WorkerStep(w) /\ UNCHANGED loopVars

Returned == pc = "returned" /\ UNCHANGED vars

Next ==
  \/ Caller
  \/ \E w \in Workers : Work(w)
  \/ \E s \in Sources : CancelFile(s)
  \/ Cancel
  \/ Returned

\* Go runs every goroutine that can proceed; a system call returns.
Fairness == WF_vars(Caller) /\ \A w \in Workers : WF_vars(Work(w))

Spec == Init /\ [][Next]_vars /\ Fairness

-----------------------------------------------------------------------------
(***************************************************************************)
(* Correctness.                                                             *)
(***************************************************************************)

\* Every variable has its type.
TypeOK ==
  /\ CopierTypeOK
  /\ pc \in {"source", "place", "cloned", "leaf", "send", "placed", "drain",
             "wait", "cleanup", "returned"}
  /\ created \subseteq Sources /\ succeeded \subseteq Sources /\ canceled \subseteq Sources
  /\ placeErr \in {"none", "canceled", "error"}
  /\ result \in {"none", "nil", "canceled", "error"}

Ended(with) == pc = "returned" /\ result \in with
Failed == Ended({"canceled", "error"})

\* "a failed CopyCtx never leaves partial or completed dest files behind"
\* (removeCreatedOnErr): after an error the destination holds what it held
\* before the call, whatever the workers were doing when it failed.
FailureLeavesNothing == Failed => roots = Taken /\ written = {}

\* What was in the destination before the call is neither replaced nor
\* removed, by a copy or by any cleanup (UniquePath).
OthersUntouched ==
  Taken \subseteq roots /\ \A x \in written : x.to \notin Taken

\* A nil result means that every source nobody cancelled is there, whole,
\* under the name its progress row reported (CopyCtx, setDest and addRoot),
\* beside what was there before.
NilMeansWhole ==
  Ended({"nil"}) => OthersUntouched /\ \A s \in Sources \ srcDone : WholeAt(s, target[s])

\* After a nil result every row is settled, and a row shown as canceled has
\* nothing on disk: UniquePath's name is free again (setRootStatus, canceled).
RowsAgreeWithDisk ==
  Ended({"nil"}) =>
    \A s \in Sources : \/ status[s] = "done"
                       \/ status[s] = "canceled" /\ s \in srcDone
                          /\ target[s] \notin roots

\* Cancelling one source cannot end the batch: CopyCtx returns an error only
\* when the job was cancelled or an operation of the file system failed.
OnlyRealCauses == Failed => jobCanceled \/ faults

\* The call returns: no placer is left on a full channel, no worker on an
\* empty one (enqueue, finish, the workers' loop).
Terminates == <>(pc = "returned")

\* TestCopyPerFileCancel: "cancelling one source via FileCancelRegistry skips
\* only that source (its partial dest removed)".  The code keeps the partial
\* file of a source that is cancelled once place has returned.
CanceledNotPartial ==
  Ended({"nil"}) =>
    \A s \in srcDone : target[s] \notin roots \/ WholeAt(s, target[s])

\* TestCopyPerFileCancel: "sibling sources still copy".  With two sources of one
\* base name the cleanup of a cancelled one can take the other's copy.
SiblingsStillCopy ==
  Ended({"nil"}) => \A s \in Sources \ srcDone : WholeAt(s, target[s])
=============================================================================
