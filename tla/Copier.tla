------------------------------- MODULE Copier --------------------------------
(***************************************************************************)
(* The machinery CopyCtx and MoveCtx share (internal/filesystem):          *)
(*   - copier: a pool of workers on a buffered channel of file jobs, with a *)
(*     first-error-wins error and a context every job's context derives     *)
(*     from (copy_conc.go);                                                 *)
(*   - place and walkDir: the calling goroutine walks one source and queues *)
(*     its files (copy_conc.go);                                            *)
(*   - copyFileCtx: one file copied, with its cancellation points           *)
(*     (copy_fast.go);                                                      *)
(*   - FileCancelRegistry: the cancel functions of the sources in flight    *)
(*     (file_cancel.go);                                                    *)
(*   - the destination directory both write into.                           *)
(* CopyEngine and MoveEngine extend this module with their own loop over the *)
(* sources and compose it with the steps below.                             *)
(*                                                                         *)
(* A source is a file or a directory.  Its leaves are the regular files and *)
(* symlinks below it in walk order (a file source has one leaf): nested     *)
(* directories are folded into the leaf that is placed after them.          *)
(***************************************************************************)
EXTENDS Naturals, Sequences, FiniteSets

CONSTANTS
  NumSources,  \* the sources of one call are 1..NumSources, in this order
  Workers,     \* the goroutines started by copier.start
  Leaves,      \* Leaves[s]: the leaves of source s, each "file" or "link"
  Dirs,        \* the sources that are directories
  Base,        \* Base[s]: the base name of source s
  Taken        \* entries already in the destination directory

Sources == 1..NumSources
Cap == 2 * Cardinality(Workers)
Bases == {Base[s] : s \in Sources}
\* <<b, 0>> is the name b itself, <<b, k>> the name "b (k)" UniquePath makes.
Targets == Bases \X Nat
\* Suffixes that are looked at: a free one is among them (FreeName in CopierProofs).
MaxSuffix == Cardinality(Taken) + NumSources

ASSUME PoolAssumption ==
  /\ NumSources \in Nat
  /\ IsFiniteSet(Workers) /\ Workers # {}
  /\ Leaves \in [Sources -> Seq({"file", "link"})]
  /\ Dirs \subseteq Sources
  /\ \A s \in Sources \ Dirs : Len(Leaves[s]) = 1
  /\ IsFiniteSet(Taken) /\ Taken \subseteq Targets

VARIABLES
  jobCanceled,  \* CancelJob cancelled the context the call was given
  poolDone,     \* the copier's own cancel was called
  srcDone,      \* the sources whose own context was cancelled
  registry,     \* the sources with a cancel function in FileCancelRegistry
  queue,        \* copier.jobs: the buffered file jobs
  closed,       \* copier.jobs is closed
  worker,       \* each worker: where it is in its loop, with which job
  poolErr,      \* copier.err
  roots,        \* the names that exist in the destination directory
  written,      \* the leaves on disk below those names
  status,       \* progressReporter: the status of each source's row
  faults,       \* history: an operation of the file system has failed
  pc,           \* where the calling goroutine is
  cur,          \* the source it places
  next,         \* the leaf of cur to place next
  target,       \* target[s]: the name UniquePath gave source s
  ret           \* the error place returned for cur

doneVars == <<jobCanceled, poolDone, srcDone>>
ctxVars == <<doneVars, registry>>
chanVars == <<queue, closed, worker, poolErr>>
diskVars == <<roots, written>>
rowVars == <<status, faults>>
poolVars == <<ctxVars, chanVars, diskVars, rowVars>>
frameVars == <<cur, next, target, ret>>
placeVars == <<pc, frameVars>>
copierVars == <<poolVars, placeVars>>

LeavesOf(s) == 1..Len(Leaves[s])
Job == [src : Sources, leaf : Nat \ {0}, to : Targets]
NoJob == [src |-> 0]
\* A worker's frame.
Frame == [at : {"idle", "start", "open", "whole", "failed", "exited"},
          job : Job \cup {NoJob}, err : {"none", "canceled", "error"}]

(***************************************************************************)
(* Contexts.  A source's context derives from the copier's, which derives   *)
(* from the job's.                                                          *)
(***************************************************************************)
CtxDone == jobCanceled \/ poolDone
SrcDone(s) == CtxDone \/ s \in srcDone

(***************************************************************************)
(* The destination directory.  A written leaf says which source's bytes it  *)
(* holds and whether all of them are there.                                 *)
(***************************************************************************)
Written(s, leaf, to, whole) ==
  [src |-> s, leaf |-> leaf, to |-> to, whole |-> whole]

\* Creating or truncating a path replaces whatever leaf was there.
PutLeaf(s, leaf, to, whole) ==
  /\ roots' = roots \cup {to}
  /\ written' = {x \in written : <<x.to, x.leaf>> # <<to, leaf>>}
                  \cup {Written(s, leaf, to, whole)}

\* A whole directory cloned in one call.
PutTree(s, to) ==
  /\ roots' = roots \cup {to}
  /\ written' = {x \in written : x.to # to}
                  \cup {Written(s, i, to, TRUE) : i \in LeavesOf(s)}

RemoveAll(T) ==
  /\ roots' = roots \ T
  /\ written' = {x \in written : x.to \notin T}

WholeAt(s, to) ==
  /\ to \in roots
  /\ \A i \in LeavesOf(s) : Written(s, i, to, TRUE) \in written

\* Fault: the name is taken as it is.
PathAsIs(b) == <<b, 0>>

\* The first free name, probed on disk.
UniquePath(b) ==
  LET free == {k \in 0..MaxSuffix : <<b, k>> \notin roots}
  IN  <<b, CHOOSE k \in free : \A j \in free : k <= j>>

(***************************************************************************)
(* copier.enqueue: blocks while the buffer is full, and gives up when the   *)
(* source's context is done; when both can proceed Go picks either.         *)
(***************************************************************************)
Send(s, leaf, to) ==
  /\ Len(queue) < Cap
  /\ queue' = Append(queue, [src |-> s, leaf |-> leaf, to |-> to])

(***************************************************************************)
(* copier.place and walkDir, run by the calling goroutine from pc = "place" *)
(* for source cur; pc = "placed" when they have returned ret.               *)
(***************************************************************************)

\* place and walkDir return an error for cur.
Return(e) ==
  /\ ret' = e /\ pc' = "placed"
  /\ UNCHANGED <<cur, next, target>>

\* Every call of place, and every turn of walkDir's loop, checks the context;
\* after the last entry walkDir returns nil without a check.
Placing == pc = "place" \/ (pc = "leaf" /\ next \in LeavesOf(cur))

PlaceCanceled ==
  /\ Placing /\ SrcDone(cur)
  /\ Return("canceled")
  /\ UNCHANGED poolVars

\* Lstat, Readlink, Symlink, MkdirAll or ReadDir fails.
PlaceFault ==
  /\ Placing
  /\ faults' = TRUE
  /\ Return("error")
  /\ UNCHANGED <<ctxVars, chanVars, diskVars, status>>

\* place has found the kind of the source: a directory is made, or cloned.
PlaceRoot ==
  /\ pc = "place" /\ ~SrcDone(cur)
  /\ IF cur \in Dirs THEN roots' = roots \cup {target[cur]} ELSE UNCHANGED roots
  /\ pc' = "leaf"
  /\ UNCHANGED <<ctxVars, chanVars, written, rowVars, cur, next, target, ret>>

CloneRoot ==
  /\ pc = "place" /\ ~SrcDone(cur) /\ cur \in Dirs /\ target[cur] \notin roots
  /\ PutTree(cur, target[cur])
  /\ next' = Len(Leaves[cur]) + 1 /\ pc' = "cloned"
  /\ UNCHANGED <<ctxVars, chanVars, rowVars, cur, target, ret>>

\* The context is looked at once more after a clone.
CloneChecked ==
  /\ pc = "cloned"
  /\ Return(IF SrcDone(cur) THEN "canceled" ELSE "none")
  /\ UNCHANGED poolVars

\* A symlink is made here; a file goes on to enqueue.
PlaceLeaf ==
  /\ pc = "leaf" /\ ~SrcDone(cur) /\ next \in LeavesOf(cur)
  /\ IF Leaves[cur][next] = "link"
     THEN /\ ~\E x \in written : x.to = target[cur] /\ x.leaf = next
          /\ PutLeaf(cur, next, target[cur], TRUE)
          /\ next' = next + 1 /\ UNCHANGED pc
     ELSE pc' = "send" /\ UNCHANGED <<diskVars, next>>
  /\ UNCHANGED <<ctxVars, chanVars, rowVars, cur, target, ret>>

SendLeaf ==
  /\ pc = "send"
  /\ Send(cur, next, target[cur])
  /\ next' = next + 1 /\ pc' = "leaf"
  /\ UNCHANGED <<ctxVars, closed, worker, poolErr, diskVars, rowVars, cur, target, ret>>

SendCanceled ==
  /\ pc = "send" /\ SrcDone(cur)
  /\ Return("canceled")
  /\ UNCHANGED poolVars

\* Every leaf of the source has been placed.
PlaceDone ==
  /\ pc = "leaf" /\ next > Len(Leaves[cur])
  /\ Return("none")
  /\ UNCHANGED poolVars

Place ==
  \/ PlaceCanceled \/ PlaceFault \/ PlaceRoot \/ CloneRoot \/ CloneChecked
  \/ PlaceLeaf \/ SendLeaf \/ SendCanceled \/ PlaceDone

(***************************************************************************)
(* A worker's loop: take a job, copy the file, settle its error.            *)
(***************************************************************************)
At(w, where) == worker[w].at = where
Goto(w, where) == worker' = [worker EXCEPT ![w].at = where]
Fails(w, e) == worker' = [worker EXCEPT ![w].at = "failed", ![w].err = e]
Idle == [at |-> "idle", job |-> NoJob, err |-> "none"]

Take(w) ==
  /\ At(w, "idle") /\ queue # <<>>
  /\ worker' = [worker EXCEPT ![w].at = "start", ![w].job = Head(queue)]
  /\ queue' = Tail(queue)
  /\ UNCHANGED <<ctxVars, diskVars, rowVars, placeVars, closed, poolErr>>

\* The range over the channel ends once it is closed and drained.
Exit(w) ==
  /\ At(w, "idle") /\ queue = <<>> /\ closed
  /\ Goto(w, "exited")
  /\ UNCHANGED <<ctxVars, diskVars, rowVars, placeVars, queue, closed, poolErr>>

\* An error of the file system: opening, writing or closing.  Under a context
\* that is done preferCanceled turns it into WorkerCanceled.
WorkerFault(w) ==
  /\ At(w, "start") \/ At(w, "open") \/ At(w, "whole")
  /\ ~SrcDone(worker[w].job.src)
  /\ faults' = TRUE
  /\ Fails(w, "error")
  /\ UNCHANGED <<ctxVars, diskVars, placeVars, queue, closed, poolErr, status>>

\* copyFileCtx returns ctx.Err() at one of its checks; what it wrote stays.
WorkerCanceled(w) ==
  /\ At(w, "start") \/ At(w, "open") \/ At(w, "whole")
  /\ SrcDone(worker[w].job.src)
  /\ Fails(w, "canceled")
  /\ UNCHANGED <<ctxVars, diskVars, rowVars, placeVars, queue, closed, poolErr>>

\* O_CREATE|O_TRUNC, then bytes; the context was alive at the first check.
OpenDest(w) ==
  LET j == worker[w].job
  IN  /\ At(w, "start") /\ ~SrcDone(j.src)
      /\ PutLeaf(j.src, j.leaf, j.to, FALSE)
      /\ Goto(w, "open")
      /\ UNCHANGED <<ctxVars, rowVars, placeVars, queue, closed, poolErr>>

\* The last byte lands: by a clone (no partial state) or by the byte copy.
WriteAll(w) ==
  LET j == worker[w].job
  IN  /\ \/ At(w, "start") /\ ~SrcDone(j.src)
         \/ At(w, "open")
      /\ PutLeaf(j.src, j.leaf, j.to, TRUE)
      /\ Goto(w, "whole")
      /\ UNCHANGED <<ctxVars, rowVars, placeVars, queue, closed, poolErr>>

\* Fault: a worker goes on to its next job holding the last one.
FinishFileKeeps(w) ==
  /\ At(w, "whole") /\ ~SrcDone(worker[w].job.src)
  /\ Goto(w, "idle")
  /\ UNCHANGED <<ctxVars, diskVars, rowVars, placeVars, queue, closed, poolErr>>

\* The check after the last byte found the context alive.
FinishFile(w) ==
  /\ At(w, "whole") /\ ~SrcDone(worker[w].job.src)
  /\ worker' = [worker EXCEPT ![w] = Idle]
  /\ UNCHANGED <<ctxVars, diskVars, rowVars, placeVars, queue, closed, poolErr>>

\* copier.fail: only the first error is kept, and it cancels the copier.
Fail(e) ==
  IF poolErr = "none" THEN poolErr' = e /\ poolDone' = TRUE
                      ELSE UNCHANGED <<poolErr, poolDone>>

\* Fault: a cancelled source fails the whole copier.
SettleAll(w) ==
  /\ At(w, "failed")
  /\ Fail(IF CtxDone THEN "canceled" ELSE worker[w].err)
  /\ worker' = [worker EXCEPT ![w] = Idle]
  /\ UNCHANGED <<jobCanceled, srcDone, registry, diskVars, rowVars, placeVars,
                 queue, closed>>

\* Fault: a worker leaves its loop after an error, and the copier goes on.
SettleAndLeave(w) ==
  /\ At(w, "failed")
  /\ poolErr' = worker[w].err
  /\ worker' = [worker EXCEPT ![w] = [Idle EXCEPT !.at = "exited"]]
  /\ UNCHANGED <<ctxVars, diskVars, rowVars, placeVars, queue, closed>>

\* The error of a source that alone was cancelled is dropped; any other
\* error fails the copier.  Either way the worker takes the next job.
Settle(w) ==
  LET alone == ~CtxDone /\ SrcDone(worker[w].job.src)
  IN  /\ At(w, "failed")
      /\ IF alone THEN UNCHANGED <<poolErr, poolDone>>
         ELSE Fail(IF CtxDone THEN "canceled" ELSE worker[w].err)
      /\ worker' = [worker EXCEPT ![w] = Idle]
      /\ UNCHANGED <<jobCanceled, srcDone, registry, diskVars, rowVars,
                     placeVars, queue, closed>>

WorkerStep(w) ==
  \/ Take(w) \/ Exit(w) \/ OpenDest(w) \/ WriteAll(w) \/ FinishFile(w)
  \/ WorkerCanceled(w) \/ WorkerFault(w) \/ Settle(w)

(***************************************************************************)
(* copier.finish, once every worker has left its loop.                      *)
(***************************************************************************)
PoolDrained == closed /\ \A w \in Workers : At(w, "exited")
WaitErr == IF poolErr # "none" THEN poolErr
           ELSE IF CtxDone THEN "canceled" ELSE "none"

\* The jobs that are queued or in a worker's hands.
PendingJobs == {queue[i] : i \in DOMAIN queue}
                 \cup ({worker[w].job : w \in Workers} \ {NoJob})

(***************************************************************************)
(* A copier as copier.start leaves it.                                      *)
(***************************************************************************)
FreshWorkers == [w \in Workers |-> Idle]

NoTarget == <<>>

CopierInit ==
  /\ jobCanceled = FALSE /\ poolDone = FALSE /\ srcDone = {} /\ registry = {}
  /\ queue = <<>> /\ closed = FALSE /\ worker = FreshWorkers
  /\ poolErr = "none"
  /\ roots = Taken /\ written = {}
  /\ status = [s \in Sources |-> "none"]
  /\ faults = FALSE
  /\ pc = "source" /\ cur = 1 /\ next = 1 /\ ret = "none"
  /\ target = [s \in Sources |-> NoTarget]

\* CancelJob from the UI, at any moment.
CancelJob ==
  /\ ~jobCanceled
  /\ jobCanceled' = TRUE
  /\ UNCHANGED <<poolDone, srcDone, registry, chanVars, diskVars, rowVars,
                 placeVars>>

CopierTypeOK ==
  /\ jobCanceled \in BOOLEAN /\ poolDone \in BOOLEAN /\ closed \in BOOLEAN
  /\ srcDone \subseteq Sources /\ registry \subseteq Sources
  /\ queue \in Seq(Job) /\ Len(queue) <= Cap
  /\ worker \in [Workers -> Frame]
  /\ \A w \in Workers : (worker[w].job = NoJob) <=> (worker[w].at \in {"idle", "exited"})
  /\ poolErr \in {"none", "canceled", "error"}
  /\ roots \subseteq Targets
  /\ written \subseteq [src : Sources, leaf : Nat \ {0}, to : Targets, whole : BOOLEAN]
  /\ status \in [Sources -> {"none", "active", "done", "canceled"}]
  /\ faults \in BOOLEAN
  /\ cur \in 1..(NumSources + 1) /\ next \in Nat \ {0}
  /\ target \in [Sources -> Targets \cup {NoTarget}]
  /\ ret \in {"none", "canceled", "error"}
=============================================================================
