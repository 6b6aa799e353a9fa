-------------------------- MODULE CopyEngineProofs ---------------------------
(***************************************************************************)
(* CopyCtx for any sources, any number of workers and any names taken in    *)
(* the destination: after an error nothing is left behind, a nil result      *)
(* means that what nobody cancelled is there whole, the rows tell the truth, *)
(* and only a cancelled job or a failed operation ends a batch in an error. *)
(***************************************************************************)
EXTENDS CopyEngine, CopierProofs

Looping == {"source", "placed"} \cup Walking

\* How far the loop is, and what it has recorded by then.
LoopSound ==
  /\ created = Named /\ 1..(cur - 1) \subseteq created
  /\ pc = "source" => created = 1..(cur - 1)
  /\ pc \in Walking \cup {"placed"} => created = 1..cur
  /\ closed <=> pc \in {"wait", "cleanup", "returned"}
  /\ pc \in {"cleanup", "returned"} => PoolDrained
  /\ pc \in Looping => placeErr = "none"
  /\ result = IF pc # "returned" THEN "none" ELSE IF placeErr = "none" THEN "nil" ELSE placeErr

\* Every source the loop has left behind either succeeded or alone was
\* cancelled; without an error the loop leaves all behind.
ListsSound ==
  /\ succeeded \cup canceled = 1..(cur - 1) /\ succeeded \cap canceled = {}
  /\ pc \notin Looping /\ placeErr = "none" => cur = NumSources + 1
  /\ \A s \in canceled : s \in srcDone /\ status[s] = "canceled" /\ s \in Named
  /\ pc \in {"cleanup", "returned"} /\ placeErr = "none" =>
       poolErr = "none" /\ \A s \in succeeded : status[s] = "done"

\* Whoever has an error has it from a cancelled job, a failed operation or,
\* where it does not spread, the cancelled source itself.
Causes ==
  /\ poolErr # "none" \/ poolDone \/ placeErr # "none" \/ (pc = "placed" /\ ret = "error")
       => jobCanceled \/ faults
  /\ \A w \in Workers : worker[w].at = "failed" =>
       (worker[w].err = "error" /\ faults) \/ SrcDone(worker[w].job.src)

\* While nothing has failed, what nobody cancelled is on its way: every leaf the
\* caller has passed is covered, and directories are there.
Accounted ==
  poolErr = "none" /\ placeErr = "none" =>
    \A s \in Named \ srcDone :
      /\ \A i \in LeavesOf(s) : s < cur \/ i < next => Covered(s, i)
      /\ s < cur /\ s \in Dirs => target[s] \in roots

\* What the deferred cleanup has removed.
Cleaned ==
  pc = "returned" => IF placeErr # "none" THEN roots = Taken /\ written = {}
                     ELSE \A s \in canceled : target[s] \notin roots

IInv == TypeOK /\ CopierInv /\ LoopSound /\ ListsSound /\ Causes /\ Cleaned

-----------------------------------------------------------------------------
LEMMA InitIInv == Init => IInv
<1> SUFFICES ASSUME Init PROVE IInv
  OBVIOUS
<1> USE PoolAssumption DEF Init, CopierInit
<1>1. \A w \in Workers : worker[w] = Idle
  BY DEF FreshWorkers
<1>2. Idle \in Frame /\ Idle.at = "idle" /\ Idle.job = NoJob
  BY DEF Idle, Frame
<1>3. worker \in [Workers -> Frame]
  BY <1>2 DEF FreshWorkers
<1>4. TypeOK
  <2>1. Cap \in Nat
    BY FS_CardinalityType DEF Cap, PoolAssumption
  <2>2. queue \in Seq(Job) /\ Len(queue) = 0
    OBVIOUS
  <2>3. roots \subseteq Targets /\ cur \in 1..(NumSources + 1)
    BY DEF PoolAssumption
  <2> QED
    <3>1. CopierTypeOK
      <4>1. queue \in Seq(Job) /\ Len(queue) <= Cap
        BY <2>1, <2>2
      <4>2. \A w \in Workers : (worker[w].job = NoJob) <=> (worker[w].at \in {"idle", "exited"})
        BY <1>1, <1>2
      <4>3. target \in [Sources -> Targets \cup {NoTarget}]
            /\ status \in [Sources -> {"none", "active", "done", "canceled"}] /\ written = {}
        OBVIOUS
      <4>4. /\ jobCanceled \in BOOLEAN /\ poolDone \in BOOLEAN /\ closed \in BOOLEAN /\ faults \in BOOLEAN
            /\ srcDone = {} /\ registry = {} /\ poolErr = "none" /\ ret = "none" /\ next = 1
        OBVIOUS
      <4> HIDE DEF Init, CopierInit
      <4> QED
        BY <1>3, <2>3, <4>1, <4>2, <4>3, <4>4 DEF CopierTypeOK
    <3> QED
      BY <3>1 DEF TypeOK
<1>5. Named = {}
  BY DEF Named
<1>6. CopierInv
  <2>1. NamesFresh /\ DiskIsOurs /\ CallerSound /\ PlacedSound
    BY <1>5 DEF NamesFresh, DiskIsOurs, CallerSound, PlacedSound, Walking
  <2>2. JobsSound /\ FailedHasError /\ ExitsDrained
    BY <1>1, <1>2 DEF JobsSound, FailedHasError, ExitsDrained, Busy
  <2> QED
    BY <1>4, <2>1, <2>2 DEF CopierInv, TypeOK
<1>7. LoopSound /\ ListsSound /\ Causes /\ Cleaned
  BY <1>1, <1>2, <1>5 DEF LoopSound, ListsSound, Causes, Cleaned, Looping, Walking
<1> QED
  BY <1>4, <1>6, <1>7 DEF IInv

-----------------------------------------------------------------------------
(***************************************************************************)
(* Steps.                                                                   *)
(***************************************************************************)
LEMMA PlaceStep == ASSUME IInv, Place, UNCHANGED loopVars PROVE IInv'
<1> USE PoolAssumption
<1>1. CopierInv' /\ CopierInv
  BY PlaceKeeps DEF IInv
<1>2. /\ pc \in Walking /\ pc' \in Walking \cup {"placed"}
      /\ UNCHANGED <<cur, target, worker, closed, poolErr, poolDone, jobCanceled, srcDone, status>>
      /\ (faults => faults') /\ (pc' = "placed" /\ ret' = "error" => faults')
  <2> USE DEF Walking, poolVars, chanVars, rowVars, ctxVars, doneVars
  <2>1. CASE PlaceCanceled \/ SendCanceled
    BY <2>1 DEF PlaceCanceled, SendCanceled, Placing, Return
  <2>2. CASE PlaceFault
    BY <2>2 DEF PlaceFault, Placing, Return
  <2>3. CASE PlaceRoot \/ CloneRoot
    BY <2>3 DEF PlaceRoot, CloneRoot
  <2>4. CASE CloneChecked \/ PlaceDone
    BY <2>4 DEF CloneChecked, PlaceDone, Return
  <2>5. CASE PlaceLeaf
    BY <2>5 DEF PlaceLeaf
  <2>6. CASE SendLeaf
    BY <2>6 DEF SendLeaf
  <2> QED
    BY <2>1, <2>2, <2>3, <2>4, <2>5, <2>6 DEF Place
<1>3. UNCHANGED <<created, succeeded, canceled, placeErr, result>> /\ Named' = Named
  BY <1>2 DEF loopVars, listVars, Named
<1>4. TypeOK'
  BY <1>1, <1>2, <1>3 DEF IInv, TypeOK, CopierInv, Walking
<1>5. LoopSound' /\ Cleaned'
  BY <1>2, <1>3 DEF IInv, LoopSound, Cleaned, Looping, Walking
<1>6. ListsSound'
  BY <1>2, <1>3 DEF IInv, ListsSound, Looping, Walking
<1>7. Causes'
  BY <1>2, <1>3 DEF IInv, Causes, SrcDone, CtxDone
<1> QED
  BY <1>1, <1>4, <1>5, <1>6, <1>7 DEF IInv

LEMMA WorkStep == ASSUME IInv, NEW w \in Workers, Work(w) PROVE IInv'
<1> USE PoolAssumption
<1>0. WorkerStep(w) /\ CopierInv
  BY DEF Work, IInv
<1>1. CopierInv'
  BY <1>0, WorkKeeps
<1>2. /\ UNCHANGED <<pc, cur, ret, target, closed, status, jobCanceled, srcDone>>
      /\ UNCHANGED <<created, succeeded, canceled, placeErr, result>>
      /\ Named' = Named /\ (poolDone => poolDone')
  BY <1>0, WorkFrame DEF Work, placeVars, frameVars, loopVars, listVars
<1>3. worker[w].at # "exited" /\ pc \notin {"cleanup", "returned"}
  <2>1. worker[w].at # "exited"
    BY <1>0 DEF WorkerStep, Take, Exit, OpenDest, WriteAll, FinishFile, WorkerCanceled, WorkerFault,
                Settle, At
  <2> QED
    BY <2>1 DEF IInv, LoopSound, PoolDrained, At
<1>4. TypeOK' /\ LoopSound' /\ ListsSound' /\ Cleaned'
  BY <1>1, <1>2, <1>3 DEF IInv, TypeOK, CopierInv, LoopSound, ListsSound, Cleaned
<1>5. Causes'
  <2>0. worker \in [Workers -> Frame] /\ worker[w] \in Frame /\ poolDone \in BOOLEAN
    BY <1>0 DEF CopierInv, CopierTypeOK
  <2>1. \A s : SrcDone(s) => SrcDone(s)'
    BY <1>2 DEF SrcDone, CtxDone
  <2>2. CASE Take(w) \/ Exit(w) \/ OpenDest(w) \/ WriteAll(w) \/ FinishFile(w)
    <3>1. UNCHANGED <<poolErr, poolDone, faults>>
      BY <2>2 DEF Take, Exit, OpenDest, WriteAll, FinishFile, ctxVars, doneVars, rowVars
    <3>2. \A v \in Workers : worker'[v].at = "failed" => v # w /\ worker'[v] = worker[v]
      <4>1. CASE Take(w)
        BY <2>0, <4>1 DEF Take, Frame
      <4>2. CASE Exit(w) \/ OpenDest(w) \/ WriteAll(w)
        BY <2>0, <4>2 DEF Exit, OpenDest, WriteAll, Goto, Frame
      <4>3. CASE FinishFile(w)
        BY <2>0, <4>3 DEF FinishFile, Idle
      <4> QED
        BY <2>2, <4>1, <4>2, <4>3
    <3> QED
      BY <1>2, <2>1, <3>1, <3>2 DEF IInv, Causes
  <2>3. CASE WorkerFault(w)
    <3>1. UNCHANGED <<poolErr, poolDone>> /\ faults' /\ worker'[w].err = "error"
          /\ \A v \in Workers \ {w} : worker'[v] = worker[v]
      BY <2>0, <2>3 DEF WorkerFault, Fails, ctxVars, doneVars, Frame
    <3> QED
      BY <1>2, <2>1, <3>1 DEF IInv, Causes
  <2>4. CASE WorkerCanceled(w)
    <3>1. UNCHANGED <<poolErr, poolDone, faults>> /\ SrcDone(worker[w].job.src)
          /\ worker'[w].job = worker[w].job
          /\ \A v \in Workers \ {w} : worker'[v] = worker[v]
      BY <2>0, <2>4 DEF WorkerCanceled, Fails, ctxVars, doneVars, rowVars, Frame
    <3> QED
      BY <1>2, <2>1, <3>1 DEF IInv, Causes
  <2>5. CASE Settle(w)
    <3>1. worker[w].at = "failed" /\ UNCHANGED faults
          /\ \A v \in Workers : worker'[v].at = "failed" => v # w /\ worker'[v] = worker[v]
      BY <2>0, <2>5 DEF Settle, At, Idle, rowVars
    <3>2. UNCHANGED <<poolErr, poolDone>> \/ jobCanceled \/ faults
      <4>1. CASE CtxDone
        BY <4>1 DEF CtxDone, IInv, Causes
      <4>2. CASE ~CtxDone /\ SrcDone(worker[w].job.src)
        BY <2>5, <4>2 DEF Settle
      <4>3. CASE ~SrcDone(worker[w].job.src)
        BY <3>1, <4>3 DEF IInv, Causes
      <4> QED
        BY <4>1, <4>2, <4>3
    <3> QED
      BY <1>2, <2>1, <3>1, <3>2 DEF IInv, Causes
  <2> QED
    BY <1>0, <2>2, <2>3, <2>4, <2>5 DEF WorkerStep
<1> QED
  BY <1>1, <1>4, <1>5 DEF IInv

\* The steps of the loop leave the workers to themselves.
LEMMA LoopFrame ==
  ASSUME CopierInv, UNCHANGED <<queue, worker, closed, target, diskVars>>
  PROVE  /\ NamesFresh' /\ DiskIsOurs' /\ JobsSound' /\ FailedHasError' /\ ExitsDrained'
         /\ Named' = Named
BY DEF CopierInv, NamesFresh, DiskIsOurs, JobsSound, Sound, FailedHasError, ExitsDrained, Named,
       LeavesOf, diskVars

LEMMA StartStep == ASSUME IInv, StartSource PROVE IInv'
<1> USE PoolAssumption
<1> DEFINE to == UniquePath(Base[cur])
<1>1. /\ pc = "source" /\ cur \in Sources /\ ~CtxDone /\ pc' = "place" /\ next' = 1
      /\ target' = [target EXCEPT ![cur] = to] /\ registry' = registry \cup {cur}
      /\ status' = [status EXCEPT ![cur] = "active"] /\ created' = created \cup {cur}
      /\ UNCHANGED <<jobCanceled, poolDone, srcDone, queue, closed, worker, poolErr, roots, written,
                     faults, cur, ret, succeeded, canceled, placeErr, result>>
  BY DEF StartSource, doneVars, chanVars, diskVars
<1>2. created = 1..(cur - 1) /\ created = Named /\ cur \notin Named /\ cur \in Nat
  BY <1>1 DEF IInv, LoopSound, Sources
<1>3. to \in Targets \ roots /\ to[1] = Base[cur]
  BY <1>1, <1>2, FreeName DEF IInv, CopierInv, Bases
<1>4. target \in [Sources -> Targets \cup {NoTarget}] /\ status \in [Sources -> {"none", "active", "done", "canceled"}]
  BY DEF IInv, TypeOK, CopierTypeOK
<1>5. to # NoTarget
  BY <1>3 DEF Targets, NoTarget
<1> HIDE DEF to
<1>6. /\ target' \in [Sources -> Targets \cup {NoTarget}] /\ Named' = Named \cup {cur}
      /\ \A s \in Named : target'[s] = target[s]
      /\ target'[cur] = to
  BY <1>1, <1>2, <1>3, <1>4, <1>5 DEF Named
<1>7. CopierInv'
  <2>1. CopierTypeOK'
    BY <1>1, <1>4, <1>6 DEF IInv, CopierInv, CopierTypeOK
  <2>2. NamesFresh'
    BY <1>3, <1>6 DEF IInv, CopierInv, NamesFresh, DiskIsOurs
  <2>3. DiskIsOurs'
    BY <1>1, <1>6 DEF IInv, CopierInv, DiskIsOurs, LeavesOf
  <2>4. JobsSound'
    BY <1>1, <1>6 DEF IInv, CopierInv, JobsSound, Sound, LeavesOf
  <2>5. CallerSound' /\ PlacedSound'
    BY <1>1, <1>6 DEF IInv, LoopSound, CallerSound, PlacedSound, Walking
  <2>6. FailedHasError' /\ ExitsDrained'
    BY <1>1 DEF IInv, CopierInv, FailedHasError, ExitsDrained
  <2> QED
    BY <2>1, <2>2, <2>3, <2>4, <2>5, <2>6 DEF CopierInv
<1>8. TypeOK'
  <2>1. CopierTypeOK'
    BY <1>7 DEF CopierInv
  <2> QED
    BY <1>1, <2>1 DEF IInv, TypeOK
<1>9. LoopSound' /\ Cleaned'
  <2>1. created' = 1..cur /\ created' = Named'
    BY <1>1, <1>2, <1>6 DEF Sources
  <2> QED
    BY <1>1, <2>1 DEF IInv, LoopSound, Cleaned, Looping, Walking
<1>10. ListsSound'
  <2>1. cur \notin canceled
    BY <1>2 DEF IInv, ListsSound
  <2>2. \A s \in canceled : status'[s] = status[s]
    BY <1>1, <1>4, <2>1
  <2> QED
    BY <1>1, <1>6, <2>2 DEF IInv, ListsSound, Looping, Walking
<1>11. Causes'
  BY <1>1 DEF IInv, Causes, SrcDone, CtxDone
<1> QED
  BY <1>7, <1>8, <1>9, <1>10, <1>11 DEF IInv

LEMMA LeaveStep ==
  ASSUME IInv, SourceCanceled \/ SourceRefused \/ LoopDone PROVE IInv'
<1> USE PoolAssumption
<1>1. /\ pc = "source" /\ pc' = "drain" /\ (placeErr' = "none" => placeErr' = placeErr /\ cur \notin Sources)
      /\ placeErr' \in {"none", "canceled", "error"} /\ faults' \in BOOLEAN /\ (faults => faults')
      /\ (placeErr' # "none" => jobCanceled \/ faults' \/ poolDone)
      /\ UNCHANGED <<jobCanceled, poolDone, srcDone, registry, queue, closed, worker, poolErr,
                     diskVars, status, cur, next, target, ret, succeeded, canceled, created, result>>
  BY DEF IInv, TypeOK, CopierTypeOK, LoopSound, Looping, SourceCanceled, SourceRefused, LoopDone, CtxDone,
         poolVars, ctxVars, doneVars, chanVars, diskVars, rowVars, frameVars, listVars, loopVars
<1>2. NamesFresh' /\ DiskIsOurs' /\ JobsSound' /\ FailedHasError' /\ ExitsDrained' /\ Named' = Named
  BY <1>1, LoopFrame DEF IInv
<1>3. CopierInv'
  <2>1. CopierTypeOK'
    BY <1>1 DEF IInv, CopierInv, CopierTypeOK, diskVars
  <2> QED
    BY <1>1, <1>2, <2>1 DEF CopierInv, CallerSound, PlacedSound, Walking
<1>4. TypeOK'
  BY <1>1, <1>3 DEF IInv, TypeOK, CopierInv
<1>5. LoopSound' /\ Cleaned'
  BY <1>1, <1>2 DEF IInv, LoopSound, Cleaned, Looping, Walking
<1>6. ListsSound'
  <2>1. cur \notin Sources => cur = NumSources + 1
    BY DEF IInv, TypeOK, CopierTypeOK, Sources, PoolAssumption
  <2> QED
    BY <1>1, <1>2, <2>1 DEF IInv, ListsSound, Looping
<1>7. Causes'
  BY <1>1 DEF IInv, Causes, SrcDone, CtxDone
<1> QED
  BY <1>3, <1>4, <1>5, <1>6, <1>7 DEF IInv

LEMMA AfterPlaceStep == ASSUME IInv, AfterPlace PROVE IInv'
<1> USE PoolAssumption
<1>1. /\ pc = "placed" /\ placeErr = "none" /\ cur \in Sources
      /\ UNCHANGED <<jobCanceled, poolDone, srcDone, registry, queue, closed, worker, poolErr,
                     diskVars, faults, next, target, ret, created, result>>
  BY DEF AfterPlace, IInv, CopierInv, CallerSound, Named, LoopSound, Looping, ctxVars, doneVars, chanVars
<1>2. \/ /\ pc' = "source" /\ cur' = cur + 1 /\ UNCHANGED placeErr
         /\ \/ succeeded' = succeeded \cup {cur} /\ UNCHANGED <<canceled, status>>
            \/ /\ canceled' = canceled \cup {cur} /\ UNCHANGED succeeded /\ cur \in srcDone
               /\ status' = [status EXCEPT ![cur] = "canceled"]
      \/ /\ pc' = "drain" /\ placeErr' \in {"canceled", "error"}
         /\ UNCHANGED <<cur, succeeded, canceled, status>>
         /\ jobCanceled \/ faults
  <2>1. ret = "canceled" /\ ~CtxDone => cur \in srcDone
    BY <1>1 DEF IInv, CopierInv, PlacedSound, SrcDone
  <2>2. CtxDone \/ ret = "error" => jobCanceled \/ faults
    BY <1>1 DEF IInv, Causes, CtxDone
  <2> QED
    BY <2>1, <2>2 DEF AfterPlace
<1>3. NamesFresh' /\ DiskIsOurs' /\ JobsSound' /\ FailedHasError' /\ ExitsDrained' /\ Named' = Named
  BY <1>1, LoopFrame DEF IInv
<1>t. /\ status \in [Sources -> {"none", "active", "done", "canceled"}] /\ cur \in 1..NumSources
      /\ succeeded \subseteq Sources /\ canceled \subseteq Sources /\ NumSources \in Nat
  BY <1>1 DEF IInv, TypeOK, CopierTypeOK, Sources, PoolAssumption
<1>n. cur \in Named
  BY <1>1 DEF IInv, CopierInv, CallerSound
<1>4. CopierInv'
  <2>1. cur' \in 1..(NumSources + 1) /\ status' \in [Sources -> {"none", "active", "done", "canceled"}]
    <3>1. cur + 1 \in 1..(NumSources + 1) /\ cur \in 1..(NumSources + 1)
      BY <1>t
    <3>2. [status EXCEPT ![cur] = "canceled"] \in [Sources -> {"none", "active", "done", "canceled"}]
      BY <1>t
    <3> QED
      BY <1>2, <1>t, <3>1, <3>2
  <2>2. CopierTypeOK'
    BY <1>1, <2>1 DEF IInv, CopierInv, CopierTypeOK, diskVars
  <2> QED
    BY <1>1, <1>2, <1>3, <2>2 DEF CopierInv, CallerSound, PlacedSound, Walking
<1>5. TypeOK'
  BY <1>1, <1>2, <1>4, <1>t DEF IInv, TypeOK, CopierInv
<1>6. LoopSound' /\ Cleaned'
  <2>1. created = 1..cur
    BY <1>1 DEF IInv, LoopSound
  <2>2. cur' = cur + 1 => 1..(cur' - 1) = 1..cur
    BY <1>t
  <2> QED
    BY <1>1, <1>2, <1>3, <2>1, <2>2 DEF IInv, LoopSound, Cleaned, Looping, Walking
<1>7. ListsSound'
  <2>1. CASE pc' = "source"
    <3>1. succeeded' \cup canceled' = 1..(cur' - 1)
      BY <1>2, <1>t, <2>1 DEF IInv, ListsSound
    <3>2. succeeded' \cap canceled' = {}
      <4>1. cur \notin succeeded \cup canceled
        BY <1>t DEF IInv, ListsSound
      <4> QED
        BY <1>2, <2>1, <4>1 DEF IInv, ListsSound
    <3>3. \A s \in canceled' : s \in srcDone /\ status'[s] = "canceled" /\ s \in Named
      <4>1. \A s \in canceled : s \in srcDone /\ status[s] = "canceled" /\ s \in Sources /\ s \in Named
        BY <1>t DEF IInv, ListsSound
      <4>2. [status EXCEPT ![cur] = "canceled"][cur] = "canceled"
            /\ \A s \in Sources : status[s] = "canceled" => [status EXCEPT ![cur] = "canceled"][s] = "canceled"
        BY <1>1, <1>t
      <4> QED
        BY <1>2, <1>n, <2>1, <4>1, <4>2
    <3> QED
      BY <1>1, <1>3, <2>1, <3>1, <3>2, <3>3 DEF ListsSound, Looping
  <2>2. CASE pc' = "drain"
    BY <1>1, <1>2, <1>3, <2>2 DEF IInv, ListsSound, Looping
  <2> QED
    BY <1>2, <2>1, <2>2
<1>8. Causes'
  BY <1>1, <1>2 DEF IInv, Causes, SrcDone, CtxDone
<1> QED
  BY <1>4, <1>5, <1>6, <1>7, <1>8 DEF IInv

LEMMA CloseStep == ASSUME IInv, CloseJobs PROVE IInv'
<1> USE PoolAssumption
<1>1. /\ pc = "drain" /\ pc' = "wait" /\ closed' = TRUE /\ poolDone' \in BOOLEAN
      /\ (poolDone => poolDone') /\ (poolDone' => poolDone \/ placeErr # "none")
      /\ UNCHANGED <<jobCanceled, srcDone, registry, queue, worker, poolErr, roots, written, status,
                     faults, cur, next, target, ret, created, succeeded, canceled, placeErr, result>>
  BY DEF CloseJobs, IInv, TypeOK, CopierTypeOK, diskVars, rowVars, frameVars, loopVars, listVars
<1>2. Named' = Named /\ ~closed
  BY <1>1 DEF Named, IInv, LoopSound
<1>3. CopierInv'
  <2>1. CopierTypeOK'
    BY <1>1 DEF IInv, CopierInv, CopierTypeOK
  <2>2. NamesFresh' /\ DiskIsOurs' /\ JobsSound'
    BY <1>1, <1>2 DEF IInv, CopierInv, NamesFresh, DiskIsOurs, JobsSound, Sound, LeavesOf
  <2>3. CallerSound' /\ PlacedSound' /\ FailedHasError' /\ ExitsDrained'
    BY <1>1 DEF IInv, CopierInv, CallerSound, PlacedSound, FailedHasError, ExitsDrained, Walking
  <2> QED
    BY <2>1, <2>2, <2>3 DEF CopierInv
<1>4. TypeOK'
  <2>1. CopierTypeOK'
    BY <1>3 DEF CopierInv
  <2> QED
    BY <1>1, <2>1 DEF IInv, TypeOK
<1>5. LoopSound' /\ ListsSound' /\ Cleaned'
  BY <1>1, <1>2 DEF IInv, LoopSound, ListsSound, Cleaned, Looping, Walking
<1>6. Causes'
  BY <1>1 DEF IInv, Causes, SrcDone, CtxDone
<1> QED
  BY <1>3, <1>4, <1>5, <1>6 DEF IInv

LEMMA FinishStep == ASSUME IInv, Finish PROVE IInv'
<1> USE PoolAssumption
<1>1. /\ pc = "wait" /\ PoolDrained /\ registry' = {} /\ pc' = "cleanup"
      /\ placeErr' = (IF placeErr # "none" THEN placeErr ELSE WaitErr)
      /\ status' = [s \in Sources |-> IF placeErr' = "none" /\ s \in succeeded THEN "done" ELSE status[s]]
      /\ UNCHANGED <<jobCanceled, poolDone, srcDone, queue, closed, worker, poolErr, roots, written,
                     faults, cur, next, target, ret, created, succeeded, canceled, result>>
  BY DEF Finish, doneVars, chanVars, diskVars, frameVars, listVars
<1>2. placeErr' \in {"none", "canceled", "error"} /\ (placeErr' = "none" => placeErr = "none" /\ poolErr = "none")
      /\ (placeErr' # "none" => jobCanceled \/ faults)
  <2>1. placeErr \in {"none", "canceled", "error"} /\ poolErr \in {"none", "canceled", "error"}
    BY DEF IInv, TypeOK, CopierTypeOK
  <2>2. WaitErr \in {"none", "canceled", "error"} /\ (WaitErr = "none" => poolErr = "none")
        /\ (WaitErr # "none" => poolErr # "none" \/ CtxDone)
    BY <2>1 DEF WaitErr
  <2>3. placeErr # "none" \/ poolErr # "none" \/ CtxDone => jobCanceled \/ faults
    BY DEF IInv, Causes, CtxDone
  <2> QED
    BY <1>1, <2>1, <2>2, <2>3
<1>3. NamesFresh' /\ DiskIsOurs' /\ JobsSound' /\ FailedHasError' /\ ExitsDrained' /\ Named' = Named
  BY <1>1, LoopFrame DEF IInv, diskVars
<1>t. /\ status \in [Sources -> {"none", "active", "done", "canceled"}]
      /\ succeeded \subseteq Sources /\ canceled \subseteq Sources
  BY DEF IInv, TypeOK, CopierTypeOK
<1>4. CopierInv'
  <2>1. status' \in [Sources -> {"none", "active", "done", "canceled"}]
    BY <1>1, <1>t
  <2>2. CopierTypeOK'
    BY <1>1, <2>1 DEF IInv, CopierInv, CopierTypeOK
  <2> QED
    BY <1>1, <1>3, <2>2 DEF CopierInv, CallerSound, PlacedSound, Walking
<1>5. TypeOK'
  <2>1. CopierTypeOK'
    BY <1>4 DEF CopierInv
  <2> QED
    BY <1>1, <1>2, <2>1 DEF IInv, TypeOK
<1>6. LoopSound' /\ Cleaned'
  <2>1. PoolDrained'
    BY <1>1 DEF PoolDrained, At
  <2> QED
    BY <1>1, <1>3, <2>1 DEF IInv, LoopSound, Cleaned, Looping, Walking
<1>7. ListsSound'
  <2>1. \A s \in canceled : status'[s] = "canceled"
    BY <1>1, <1>t DEF IInv, ListsSound
  <2>2. placeErr' = "none" => \A s \in succeeded : status'[s] = "done"
    BY <1>1, <1>t
  <2> QED
    BY <1>1, <1>2, <1>3, <2>1, <2>2 DEF IInv, ListsSound, Looping, Walking
<1>8. Causes'
  BY <1>1, <1>2 DEF IInv, Causes, SrcDone, CtxDone
<1> QED
  BY <1>4, <1>5, <1>6, <1>7, <1>8 DEF IInv

LEMMA CleanupStep == ASSUME IInv, Cleanup PROVE IInv'
<1> USE PoolAssumption
<1> DEFINE T == TargetsOf(canceled \cup (IF placeErr # "none" THEN created ELSE {}))
<1>1. /\ pc = "cleanup" /\ RemoveAll(T) /\ pc' = "returned"
      /\ result' = (IF placeErr = "none" THEN "nil" ELSE placeErr)
      /\ UNCHANGED <<jobCanceled, poolDone, srcDone, registry, queue, closed, worker, poolErr, status,
                     faults, cur, next, target, ret, created, succeeded, canceled, placeErr>>
  BY DEF Cleanup, ctxVars, doneVars, chanVars, rowVars, frameVars, listVars
<1>2. Named' = Named /\ created = Named /\ PoolDrained /\ closed
  BY <1>1 DEF Named, IInv, LoopSound
<1>3. T \cap Taken = {}
  <2>1. canceled \subseteq Named
    BY DEF IInv, ListsSound
  <2> QED
    BY <1>2, <2>1 DEF TargetsOf, IInv, CopierInv, NamesFresh
<1>4. DiskIsOurs' /\ roots' \subseteq Targets /\ written' \subseteq WrittenType
  BY <1>1, <1>3, RemoveAllKeeps DEF IInv
<1>5. roots' = roots \ T /\ written' = {x \in written : x.to \notin T}
  BY <1>1 DEF RemoveAll
<1>6. CopierInv'
  <2>1. CopierTypeOK'
    BY <1>1, <1>4 DEF IInv, CopierInv, CopierTypeOK, WrittenType
  <2>2. NamesFresh' /\ JobsSound'
    BY <1>1, <1>2 DEF IInv, CopierInv, NamesFresh, JobsSound, Sound, LeavesOf
  <2>3. CallerSound' /\ PlacedSound' /\ FailedHasError' /\ ExitsDrained'
    BY <1>1 DEF IInv, CopierInv, CallerSound, PlacedSound, FailedHasError, ExitsDrained, Walking
  <2> QED
    BY <1>4, <2>1, <2>2, <2>3 DEF CopierInv
<1>7. TypeOK'
  <2>1. CopierTypeOK' /\ result' \in {"none", "nil", "canceled", "error"}
    BY <1>1, <1>6 DEF CopierInv, IInv, TypeOK
  <2> QED
    BY <1>1, <2>1 DEF IInv, TypeOK
<1>8. LoopSound' /\ ListsSound'
  <2>1. PoolDrained'
    BY <1>1, <1>2 DEF PoolDrained, At
  <2> QED
    BY <1>1, <1>2, <2>1 DEF IInv, LoopSound, ListsSound, Looping, Walking
<1>9. Causes'
  BY <1>1 DEF IInv, Causes, SrcDone, CtxDone
<1>10. Cleaned'
  <2>1. CASE placeErr # "none"
    <3>1. \A s \in Named : target[s] \in T
      BY <1>2, <2>1 DEF TargetsOf
    <3> HIDE DEF T
    <3>2. roots' = Taken
      BY <1>3, <1>5, <3>1 DEF IInv, CopierInv, DiskIsOurs
    <3>3. written' = {}
      BY <1>5, <3>1 DEF IInv, CopierInv, DiskIsOurs
    <3> QED
      BY <1>1, <2>1, <3>2, <3>3 DEF Cleaned
  <2>2. CASE placeErr = "none"
    <3>1. \A s \in canceled : target[s] \in T
      BY DEF TargetsOf
    <3> QED
      BY <1>1, <1>5, <2>2, <3>1 DEF Cleaned
  <2> QED
    BY <2>1, <2>2
<1> QED
  BY <1>6, <1>7, <1>8, <1>9, <1>10 DEF IInv

\* A cancel from the UI, of the job or of one source, only ends contexts.
LEMMA UiStep ==
  ASSUME IInv, Cancel \/ \E s \in Sources : CancelFile(s)
  PROVE  IInv'
<1> USE PoolAssumption
<1>1. /\ jobCanceled' \in BOOLEAN /\ (jobCanceled => jobCanceled')
      /\ srcDone \subseteq srcDone' /\ srcDone' \subseteq Sources /\ registry' \subseteq Sources
      /\ UNCHANGED <<poolDone, queue, closed, worker, poolErr, roots, written, status, faults, pc, cur,
                     next, target, ret, created, succeeded, canceled, placeErr, result>>
  <2>1. srcDone \subseteq Sources /\ registry \subseteq Sources /\ jobCanceled \in BOOLEAN
    BY DEF IInv, TypeOK, CopierTypeOK
  <2> QED
    BY <2>1 DEF Cancel, CancelJob, CancelFile, chanVars, diskVars, rowVars, placeVars, frameVars,
                loopVars, listVars
<1>2. /\ NamesFresh' /\ DiskIsOurs' /\ JobsSound' /\ FailedHasError' /\ ExitsDrained'
      /\ Named' = Named
  BY <1>1, LoopFrame DEF IInv, diskVars
<1>3. \A s : SrcDone(s) => SrcDone(s)'
  BY <1>1 DEF SrcDone, CtxDone
<1>4. CopierInv'
  <2>1. CopierTypeOK'
    BY <1>1 DEF IInv, CopierInv, CopierTypeOK
  <2>2. CallerSound' /\ PlacedSound'
    BY <1>1, <1>2, <1>3 DEF IInv, CopierInv, CallerSound, PlacedSound, LeavesOf
  <2> QED
    BY <1>2, <2>1, <2>2 DEF CopierInv
<1>5. TypeOK'
  BY <1>1, <1>4 DEF IInv, CopierInv, TypeOK
<1>6. LoopSound' /\ ListsSound' /\ Cleaned'
  BY <1>1, <1>2 DEF IInv, LoopSound, ListsSound, Cleaned, PoolDrained, At
<1>7. Causes'
  BY <1>1, <1>3 DEF IInv, Causes
<1> QED
  BY <1>4, <1>5, <1>6, <1>7 DEF IInv

LEMMA StutterStep == ASSUME IInv, UNCHANGED vars PROVE IInv'
<1>1. UNCHANGED <<jobCanceled, poolDone, srcDone, registry, queue, closed, worker, poolErr, roots, written,
                 status, faults, pc, cur, next, target, ret, created, succeeded, canceled, placeErr, result>>
  BY DEF vars, copierVars, poolVars, ctxVars, doneVars, chanVars, diskVars, rowVars, placeVars, frameVars,
         loopVars, listVars
<1>2. TypeOK'
  BY <1>1 DEF IInv, TypeOK, CopierTypeOK
<1>3. CopierInv'
  <2>1. NamesFresh' /\ DiskIsOurs' /\ JobsSound' /\ FailedHasError' /\ ExitsDrained'
    BY <1>1, LoopFrame DEF IInv, diskVars
  <2> QED
    BY <1>1, <1>2, <2>1 DEF IInv, TypeOK, CopierInv, CallerSound, PlacedSound, Named, LeavesOf, SrcDone, CtxDone
<1>4. LoopSound' /\ ListsSound' /\ Cleaned' /\ Causes'
  BY <1>1 DEF IInv, LoopSound, ListsSound, Cleaned, Causes, Named, PoolDrained, At, SrcDone, CtxDone
<1> QED
  BY <1>2, <1>3, <1>4 DEF IInv

LEMMA NextIInv == IInv /\ [Next]_vars => IInv'
<1> SUFFICES ASSUME IInv, [Next]_vars PROVE IInv'
  OBVIOUS
<1>1. CASE Loop
  BY <1>1, StartStep, LeaveStep, AfterPlaceStep, CloseStep, FinishStep, CleanupStep DEF Loop
<1>2. CASE Place /\ UNCHANGED loopVars
  BY <1>2, PlaceStep
<1>3. CASE \E w \in Workers : Work(w)
  BY <1>3, WorkStep
<1>4. CASE Cancel \/ \E s \in Sources : CancelFile(s)
  BY <1>4, UiStep
<1>5. CASE UNCHANGED vars
  BY <1>5, StutterStep
<1> QED
  BY <1>1, <1>2, <1>3, <1>4, <1>5 DEF Next, Caller, Returned

LEMMA Inductive == Spec => []IInv
BY InitIInv, NextIInv, PTL DEF Spec

-----------------------------------------------------------------------------
(***************************************************************************)
(* Results.                                                                 *)
(***************************************************************************)

\* Every variable of CopyCtx and its pool has its type.
THEOREM TypeCorrect == Spec => []TypeOK
<1>1. IInv => TypeOK
  BY DEF IInv
<1> QED
  BY <1>1, Inductive, PTL

\* removeCreatedOnErr: whatever fails or is cancelled, and wherever the workers
\* were, a failed call leaves the destination as it was, also with sources of
\* one base name.
THEOREM FailureCleansUp == Spec => []FailureLeavesNothing
<1>1. IInv => FailureLeavesNothing
  BY DEF IInv, Cleaned, LoopSound, FailureLeavesNothing, Failed, Ended
<1> QED
  BY <1>1, Inductive, PTL

\* setRootStatus: after a nil result a row says done, or canceled with nothing
\* left on disk.
THEOREM RowsTellTheTruth == Spec => []RowsAgreeWithDisk
<1>1. IInv => RowsAgreeWithDisk
  <2> SUFFICES ASSUME IInv, Ended({"nil"}), NEW s \in Sources
               PROVE  \/ status[s] = "done"
                      \/ status[s] = "canceled" /\ s \in srcDone /\ target[s] \notin roots
    BY DEF RowsAgreeWithDisk
  <2>1. pc = "returned" /\ placeErr = "none"
    BY DEF Ended, IInv, LoopSound, TypeOK
  <2>2. cur = NumSources + 1 /\ succeeded \cup canceled = 1..(cur - 1)
    BY <2>1 DEF IInv, ListsSound, Looping, Walking
  <2>3. s \in succeeded \cup canceled
    BY <2>2, PoolAssumption DEF Sources, PoolAssumption
  <2> QED
    BY <2>1, <2>3 DEF IInv, ListsSound, Cleaned
<1> QED
  BY <1>1, Inductive, PTL

\* copier.fail: cancelling one source ends no batch; an error has a cancelled
\* job or a failed operation behind it.
THEOREM ErrorsHaveCauses == Spec => []OnlyRealCauses
<1>1. IInv => OnlyRealCauses
  BY DEF IInv, Causes, LoopSound, OnlyRealCauses, Failed, Ended
<1> QED
  BY <1>1, Inductive, PTL

-----------------------------------------------------------------------------
(***************************************************************************)
(* What a nil result means, for sources of different base names.            *)
(***************************************************************************)
LEMMA InitAccounted == Init => Accounted
<1>1. Init => Named = {}
  BY DEF Init, CopierInit, Named
<1> QED
  BY <1>1 DEF Accounted

\* A step that loses neither leaf nor directory, and moves the caller nowhere.
LEMMA AccountedFrame ==
  ASSUME IInv, Accounted, UNCHANGED <<cur, next, target, queue, worker, diskVars>>,
         srcDone \subseteq srcDone', poolErr' = "none" => poolErr = "none",
         placeErr' = "none" => placeErr = "none"
  PROVE  Accounted'
<1>1. Named' = Named /\ UNCHANGED <<cur, next, target, queue, worker, roots, written>>
  BY DEF Named, diskVars
<1>2. ASSUME NEW s PROVE \A i : Covered(s, i) => Covered(s, i)'
  BY <1>1, CoveredFrame
<1>3. SUFFICES ASSUME poolErr' = "none", placeErr' = "none", NEW s \in Named \ srcDone
               PROVE  /\ \A i \in LeavesOf(s) : s < cur \/ i < next => Covered(s, i)'
                      /\ s < cur /\ s \in Dirs => target[s] \in roots
  BY <1>1 DEF Accounted, LeavesOf
<1>4. /\ \A i \in LeavesOf(s) : s < cur \/ i < next => Covered(s, i)
      /\ s < cur /\ s \in Dirs => target[s] \in roots
  BY <1>3 DEF Accounted
<1> QED
  BY <1>2, <1>4

LEMMA NextAccounted ==
  ASSUME DistinctBases, IInv, Accounted, [Next]_vars PROVE Accounted'
<1> USE PoolAssumption
<1>0. CopierInv /\ cur \in Nat /\ next \in Nat /\ \A s \in Named : s \in Nat /\ s \in Sources
  BY DEF IInv, TypeOK, CopierTypeOK, Named, Sources
<1>1. CASE Place /\ UNCHANGED loopVars
  <2>1. /\ UNCHANGED <<cur, target, poolErr, srcDone, placeErr>> /\ Named' = Named /\ roots \subseteq roots'
    <3>1. UNCHANGED <<cur, target, poolErr, srcDone, placeErr>>
      BY <1>1 DEF Place, PlaceCanceled, PlaceFault, PlaceRoot, CloneRoot, CloneChecked, PlaceLeaf,
             SendLeaf, SendCanceled, PlaceDone, Return, poolVars, chanVars, ctxVars, doneVars, loopVars
    <3>2. roots \subseteq roots'
      BY <1>1 DEF Place, PlaceCanceled, PlaceFault, PlaceRoot, CloneRoot, CloneChecked, PlaceLeaf,
             SendLeaf, SendCanceled, PlaceDone, poolVars, diskVars, PutTree, PutLeaf
    <3> QED
      BY <3>1, <3>2 DEF Named
  <2>2. SUFFICES ASSUME poolErr = "none", placeErr = "none", NEW s \in Named \ srcDone
                 PROVE  /\ \A i \in LeavesOf(s) : s < cur \/ i < next' => Covered(s, i)'
                        /\ s < cur /\ s \in Dirs => target[s] \in roots
    BY <2>1 DEF Accounted, LeavesOf
  <2>3. ASSUME NEW i \in LeavesOf(s), s < cur \/ i < next PROVE Covered(s, i)'
    BY <1>0, <1>1, <2>2, <2>3, PlaceCovers DEF Accounted
  <2>4. ASSUME NEW i \in LeavesOf(s), ~(s < cur), ~(i < next), i < next' PROVE Covered(s, i)'
    <3>1. s = cur
      <4>1. pc \in Walking
        BY <1>1 DEF Place, PlaceCanceled, PlaceFault, PlaceRoot, CloneRoot, CloneChecked, PlaceLeaf,
               SendLeaf, SendCanceled, PlaceDone, Placing, Walking
      <4>2. s \in 1..cur
        BY <4>1 DEF IInv, LoopSound
      <4> QED
        BY <1>0, <2>4, <4>2
    <3> QED
      BY <1>0, <1>1, <2>4, <3>1, PlaceCovers
  <2>5. s < cur /\ s \in Dirs => target[s] \in roots
    BY <2>2 DEF Accounted
  <2> QED
    BY <2>3, <2>4, <2>5
<1>2. ASSUME NEW w \in Workers, Work(w) PROVE Accounted'
  <2>1. WorkerStep(w) /\ UNCHANGED <<placeErr, cur, next, target, srcDone>> /\ Named' = Named
        /\ roots \subseteq roots'
    BY <1>0, <1>2, WorkFrame DEF Work, placeVars, frameVars, loopVars
  <2>2. poolErr' = "none" => poolErr = "none"
    BY <2>1 DEF WorkerStep, Take, Exit, OpenDest, WriteAll, FinishFile, WorkerCanceled, WorkerFault,
                Settle, Fail
  <2>3. SUFFICES ASSUME poolErr' = "none", placeErr = "none", NEW s \in Named \ srcDone
                 PROVE  /\ \A i \in LeavesOf(s) : s < cur \/ i < next => Covered(s, i)'
                        /\ s < cur /\ s \in Dirs => target[s] \in roots'
    BY <2>1 DEF Accounted, LeavesOf
  <2>4. \A i \in LeavesOf(s) : s < cur \/ i < next => Covered(s, i)'
    BY <1>0, <2>1, <2>2, <2>3, WorkCovers DEF Accounted
  <2>5. s < cur /\ s \in Dirs => target[s] \in roots'
    BY <2>1, <2>2, <2>3 DEF Accounted
  <2> QED
    BY <2>4, <2>5
<1>3. CASE StartSource
  <2>1. /\ cur \in Sources /\ cur \notin Named /\ next' = 1 /\ created' = created \cup {cur}
        /\ target' = [target EXCEPT ![cur] = UniquePath(Base[cur])]
        /\ UNCHANGED <<cur, srcDone, queue, worker, poolErr, placeErr, roots, written>>
    BY <1>0, <1>3 DEF StartSource, doneVars, chanVars, diskVars, IInv, LoopSound
  <2>2. Named' = Named \cup {cur} /\ \A s \in Named : target'[s] = target[s] /\ s < cur
    <3>1. Named' = created'
      BY <1>3, StartStep DEF IInv, LoopSound
    <3>2. created = Named /\ created = 1..(cur - 1)
      BY <1>3 DEF StartSource, IInv, LoopSound
    <3> QED
      BY <1>0, <2>1, <3>1, <3>2
  <2>3. ASSUME poolErr = "none", placeErr = "none", NEW s \in Named' \ srcDone
        PROVE  /\ \A i \in LeavesOf(s) : s < cur \/ i < 1 => Covered(s, i)'
               /\ s < cur /\ s \in Dirs => target'[s] \in roots
    <3>1. CASE s = cur
      BY <1>0, <3>1 DEF LeavesOf
    <3>2. CASE s # cur
      <4>1. s \in Named \ srcDone /\ s < cur /\ target'[s] = target[s]
        BY <2>2, <2>3, <3>2
      <4>2. \A i \in LeavesOf(s) : Covered(s, i) => Covered(s, i)'
        BY <2>1, <4>1, CoveredFrame
      <4> QED
        BY <2>3, <4>1, <4>2 DEF Accounted
    <3> QED
      BY <3>1, <3>2
  <2> QED
    BY <2>1, <2>3 DEF Accounted, LeavesOf
<1>4. CASE AfterPlace
  <2>1. /\ pc = "placed" /\ created = 1..cur /\ created = Named /\ UNCHANGED <<srcDone, queue, worker, poolErr, target, next, diskVars>>
    BY <1>4 DEF AfterPlace, IInv, LoopSound, Walking, ctxVars, doneVars, chanVars
  <2>2. CASE UNCHANGED cur
    BY <1>4, <2>1, <2>2, AccountedFrame DEF AfterPlace, IInv, LoopSound, Looping
  <2>3. CASE cur' = cur + 1 /\ placeErr' = placeErr /\ (ret = "none" \/ (ret = "canceled" /\ ~CtxDone))
    <3>1. cur \in srcDone \/ (next > Len(Leaves[cur]) /\ (cur \in Dirs => target[cur] \in roots))
      BY <2>1, <2>3 DEF CopierInv, IInv, PlacedSound, SrcDone
    <3>2. Len(Leaves[cur]) \in Nat
      <4>1. cur \in Sources
        BY <2>1 DEF CopierInv, CallerSound, IInv, Named
      <4>2. Leaves[cur] \in Seq({"file", "link"})
        BY <4>1 DEF PoolAssumption
      <4> QED
        BY <4>2, LenProperties
    <3>3. ASSUME poolErr = "none", placeErr = "none", NEW s \in Named \ srcDone
          PROVE  /\ \A i \in LeavesOf(s) : Covered(s, i)
                 /\ s \in Dirs => target[s] \in roots
      <4>1. CASE s = cur
        <5>1. \A i \in LeavesOf(s) : i < next
          BY <1>0, <3>1, <3>2, <3>3, <4>1 DEF LeavesOf
        <5> QED
          BY <3>1, <3>3, <4>1, <5>1 DEF Accounted
      <4>2. CASE s # cur
        <5>1. s < cur
          BY <1>0, <2>1, <4>2
        <5> QED
          BY <3>3, <5>1 DEF Accounted
      <4> QED
        BY <4>1, <4>2
    <3>4. Named' = Named /\ UNCHANGED <<poolErr, srcDone, target, queue, worker, roots, written>>
      BY <2>1 DEF Named, diskVars
    <3>5. ASSUME NEW s PROVE \A i : Covered(s, i) => Covered(s, i)'
      BY <3>4, CoveredFrame
    <3>6. SUFFICES ASSUME poolErr = "none", placeErr = "none", NEW s \in Named \ srcDone
                   PROVE  (\A i \in LeavesOf(s) : Covered(s, i)') /\ (s \in Dirs => target[s] \in roots)
      BY <2>3, <3>4 DEF Accounted, LeavesOf
    <3> QED
      BY <3>3, <3>5, <3>6
  <2> QED
    BY <1>4, <2>2, <2>3 DEF AfterPlace
<1>5. CASE SourceCanceled \/ SourceRefused \/ LoopDone \/ CloseJobs
  <2>1. UNCHANGED <<cur, next, target, queue, worker, diskVars, srcDone, poolErr>>
        /\ (placeErr' = "none" => placeErr = "none")
    BY <1>5 DEF SourceCanceled, SourceRefused, LoopDone, CloseJobs, poolVars, chanVars, ctxVars,
                doneVars, frameVars, loopVars, listVars
  <2> QED
    BY <2>1, AccountedFrame
<1>6. CASE Finish
  <2>1. UNCHANGED <<cur, next, target, queue, worker, diskVars, srcDone, poolErr>>
        /\ (placeErr' = "none" => placeErr = "none")
    BY <1>6 DEF Finish, doneVars, chanVars, frameVars
  <2> QED
    BY <2>1, AccountedFrame
<1>7. CASE Cleanup
  <2>1. UNCHANGED <<cur, next, target, queue, worker, srcDone, poolErr, placeErr>> /\ Named' = Named
    BY <1>7 DEF Cleanup, ctxVars, doneVars, chanVars, frameVars, Named
  <2>2. ASSUME placeErr = "none", NEW s \in Named \ srcDone
        PROVE  /\ \A i \in LeavesOf(s) : Covered(s, i) => Covered(s, i)'
               /\ target[s] \in roots => target[s] \in roots'
    <3>1. RemoveAll(TargetsOf(canceled))
      BY <1>7, <2>2 DEF Cleanup
    <3>2. target[s] \notin TargetsOf(canceled)
      <4>1. ASSUME NEW q \in canceled PROVE target[q] # target[s]
        <5>1. q \in Named /\ q # s
          BY <2>2 DEF IInv, ListsSound
        <5> QED
          BY <1>0, <5>1, TargetsDiffer DEF CopierInv
      <4> QED
        BY <4>1 DEF TargetsOf
    <3>3. \A i \in LeavesOf(s) : WholeLeaf(s, i) => WholeLeaf(s, i)'
      BY <2>1, <3>1, <3>2 DEF RemoveAll, WholeLeaf, Written
    <3> QED
      BY <2>1, <3>1, <3>2, <3>3 DEF RemoveAll, Covered, InQueue, InHand
  <2> QED
    BY <2>1, <2>2 DEF Accounted, LeavesOf
<1>8. CASE Cancel \/ \E s \in Sources : CancelFile(s)
  <2>1. UNCHANGED <<cur, next, target, queue, worker, diskVars, poolErr, placeErr>> /\ srcDone \subseteq srcDone'
    BY <1>8 DEF Cancel, CancelJob, CancelFile, chanVars, placeVars, frameVars, loopVars
  <2> QED
    BY <2>1, AccountedFrame
<1>9. CASE UNCHANGED vars
  <2>1. UNCHANGED <<cur, next, target, queue, worker, diskVars, poolErr, placeErr, srcDone>>
    BY <1>9 DEF vars, copierVars, poolVars, ctxVars, doneVars, chanVars, placeVars, frameVars, loopVars
  <2> QED
    BY <2>1, AccountedFrame
<1> QED
  BY <1>1, <1>2, <1>3, <1>4, <1>5, <1>6, <1>7, <1>8, <1>9 DEF Next, Caller, Loop, Returned

\* CopyCtx: when it returns nil, each source that nobody cancelled is there whole
\* under the name its row reported, and what was there before is untouched.
THEOREM NilIsWhole == ASSUME DistinctBases PROVE Spec => []NilMeansWhole
<1>1. IInv /\ Accounted => NilMeansWhole
  <2> SUFFICES ASSUME IInv, Accounted, Ended({"nil"})
               PROVE  OthersUntouched /\ \A s \in Sources \ srcDone : WholeAt(s, target[s])
    BY DEF NilMeansWhole
  <2> USE PoolAssumption
  <2>0. CopierInv /\ pc = "returned" /\ placeErr = "none" /\ poolErr = "none" /\ PoolDrained
    BY DEF Ended, IInv, LoopSound, ListsSound, TypeOK
  <2>1. OthersUntouched
    BY <2>0 DEF OthersUntouched, CopierInv, DiskIsOurs, NamesFresh
  <2>2. ASSUME NEW s \in Sources \ srcDone PROVE WholeAt(s, target[s])
    <3>1. cur = NumSources + 1 /\ s \in Named /\ s < cur
      <4>1. cur = NumSources + 1
        BY <2>0 DEF IInv, ListsSound, Looping, Walking
      <4> QED
        BY <4>1 DEF IInv, LoopSound, Sources, PoolAssumption
    <3>2. (\A i \in LeavesOf(s) : Covered(s, i)) /\ (s \in Dirs => target[s] \in roots)
      BY <2>0, <2>2, <3>1 DEF Accounted
    <3>3. \A i \in LeavesOf(s) : WholeLeaf(s, i)
      BY <2>0, <3>2, DrainedIsWhole
    <3> QED
      BY <2>0, <3>1, <3>2, <3>3, LeavesMakeWhole
  <2> QED
    BY <2>1, <2>2
<1>2. Init => Accounted
  BY InitAccounted
<1>3. IInv /\ Accounted /\ [Next]_vars => Accounted'
  BY NextAccounted
<1> QED
  BY <1>1, <1>2, <1>3, Inductive, PTL DEF Spec
=============================================================================
