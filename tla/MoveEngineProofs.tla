-------------------------- MODULE MoveEngineProofs ---------------------------
(***************************************************************************)
(* MoveCtx for any sources, any number of workers and any names taken in    *)
(* the destination: every variable keeps its type and what was there stays  *)
(* whatever the sources are called; with different base names no source is  *)
(* ever lost, none is left half moved, and the rows say which moved.         *)
(***************************************************************************)
EXTENDS MoveEngine, CopierProofs

\* A copier is at work for cur; cur is the source being copied and deleted.
Live == Walking \cup {"placed", "wait"}
Copying == Live \cup {"delete"}

\* How far the loops are; the sources to copy are different, and all have names.
LoopSound ==
  /\ Len(toCopy) <= NumSources /\ k <= Len(toCopy) + 1
  /\ pc = "source" => Named = 1..(cur - 1) /\ k = 1 /\ Len(toCopy) <= cur - 1
  /\ \A i \in 1..Len(toCopy) : toCopy[i] \in Named
  /\ \A i, j \in 1..Len(toCopy) : toCopy[i] = toCopy[j] => i = j
  /\ pc \in Copying => k <= Len(toCopy) /\ cur = toCopy[k]

\* A copier's jobs are for the one source it was made for, and none outlives it.
OneAtATime ==
  /\ \A i \in 1..Len(queue) : queue[i].src = cur
  /\ \A w \in Workers : worker[w].at \in Busy => worker[w].job.src = cur
  /\ pc \notin Live => queue = <<>> /\ \A w \in Workers : worker[w].at \in {"idle", "exited"}

\* Only the source in flight can be cancelled, and its copier with it.
CancelSound ==
  /\ \A s \in registry : pc \in Live /\ s = cur
  /\ pc = "source" => srcDone = {}
  /\ pc # "returned" =>
       \A i \in k..Len(toCopy) : toCopy[i] \in srcDone => pc \in Live /\ i = k /\ poolDone

IInv == TypeOK /\ CopierInv /\ LoopSound /\ OneAtATime /\ CancelSound

\* A source that is gone from where it was is whole at its target, and its turn
\* to be copied is over; only sources that are gone, and the one being copied,
\* have anything on disk.
OriginSound ==
  /\ \A s \in Sources : origin[s] = "gone" =>
       s \in Named /\ WholeAt(s, target[s]) /\ \A i \in k..Len(toCopy) : toCopy[i] # s
  /\ \A s \in Sources : origin[s] = "partly" => pc = "returned"
  /\ \A s \in Sources : (status[s] = "done") <=> (origin[s] = "gone")
  /\ \A x \in written : origin[x.src] = "gone" \/ (pc \in Copying /\ x.src = cur)

\* Until its copier has failed or its source was cancelled, every leaf the
\* caller has passed is covered; what is deleted has been copied whole.
CopySound ==
  /\ pc \in Live /\ poolErr = "none" /\ cur \notin srcDone =>
       \A i \in LeavesOf(cur) : i < next => Covered(cur, i)
  /\ pc = "wait" /\ ret = "none" =>
       next > Len(Leaves[cur]) /\ (cur \in Dirs => target[cur] \in roots)
  /\ pc = "delete" => WholeAt(cur, target[cur])

MoveSound == OriginSound /\ CopySound

-----------------------------------------------------------------------------
LEMMA InitIInv == Init => IInv
<1> SUFFICES ASSUME Init PROVE IInv
  OBVIOUS
<1> USE PoolAssumption
<1>1. /\ queue = <<>> /\ ~closed /\ pc = "source" /\ cur = 1 /\ next = 1 /\ k = 1 /\ toCopy = <<>>
      /\ roots = Taken /\ written = {} /\ srcDone = {} /\ registry = {} /\ ret = "none"
      /\ poolErr = "none" /\ result = "none" /\ jobCanceled = FALSE /\ poolDone = FALSE /\ faults = FALSE
      /\ target = [s \in Sources |-> NoTarget] /\ status = [s \in Sources |-> "none"]
      /\ origin = [s \in Sources |-> "whole"] /\ worker = [w \in Workers |-> Idle]
  BY DEF Init, CopierInit, FreshWorkers
<1>c. closed \in BOOLEAN
  BY DEF Init, CopierInit
<1>2. Idle \in Frame /\ Idle.at = "idle" /\ Idle.job = NoJob
  BY DEF Idle, Frame
<1>3. worker \in [Workers -> Frame] /\ \A w \in Workers : worker[w].at = "idle" /\ worker[w].job = NoJob
  BY <1>1, <1>2
<1>4. TypeOK
  <2>1. Cap \in Nat
    BY FS_CardinalityType DEF Cap, PoolAssumption
  <2>2. queue \in Seq(Job) /\ Len(queue) <= Cap
    BY <1>1, <2>1
  <2>3. roots \subseteq Targets /\ cur \in 1..(NumSources + 1)
    BY <1>1 DEF PoolAssumption
  <2>4. CopierTypeOK
    <3>1. target \in [Sources -> Targets \cup {NoTarget}]
          /\ status \in [Sources -> {"none", "active", "done", "canceled"}]
      BY <1>1
    <3>2. \A w \in Workers : (worker[w].job = NoJob) <=> (worker[w].at \in {"idle", "exited"})
      BY <1>3
    <3>3. /\ jobCanceled \in BOOLEAN /\ poolDone \in BOOLEAN /\ closed \in BOOLEAN /\ faults \in BOOLEAN
          /\ srcDone = {} /\ registry = {} /\ poolErr = "none" /\ ret = "none" /\ next = 1
      BY <1>1, <1>c
    <3> QED
      BY <1>1, <1>3, <2>2, <2>3, <3>1, <3>2, <3>3 DEF CopierTypeOK
  <2>5. toCopy \in Seq(Sources) /\ origin \in [Sources -> {"whole", "partly", "gone"}]
        /\ k \in 1..(NumSources + 1)
    BY <1>1 DEF PoolAssumption
  <2> QED
    BY <1>1, <2>4, <2>5 DEF TypeOK
<1>5. Named = {}
  BY <1>1 DEF Named
<1>6. CopierInv
  <2>1. NamesFresh /\ DiskIsOurs /\ CallerSound /\ PlacedSound
    BY <1>1, <1>5 DEF NamesFresh, DiskIsOurs, CallerSound, PlacedSound, Walking
  <2>2. JobsSound /\ FailedHasError /\ ExitsDrained
    BY <1>1, <1>3 DEF JobsSound, FailedHasError, ExitsDrained, Busy
  <2> QED
    BY <1>4, <2>1, <2>2 DEF CopierInv, TypeOK
<1>7. LoopSound
  BY <1>1, <1>5 DEF LoopSound, Copying, Live, Walking, PoolAssumption
<1>8. OneAtATime /\ CancelSound
  BY <1>1, <1>3 DEF OneAtATime, CancelSound, Busy
<1> QED
  BY <1>4, <1>6, <1>7, <1>8 DEF IInv

-----------------------------------------------------------------------------
(***************************************************************************)
(* Steps of the calling goroutine.                                          *)
(***************************************************************************)

\* A step of the loops that goes on to the next source, to the deletion of the
\* one just copied, or returns, having cleaned up names that were given.
Onward ==
  /\ UNCHANGED <<doneVars, chanVars, frameVars, toCopy>> /\ faults' \in BOOLEAN
  /\ status' \in [Sources -> {"none", "active", "done", "canceled"}]
  /\ origin' \in [Sources -> {"whole", "partly", "gone"}]
  /\ result' \in {"none", "nil", "canceled", "error"}
  /\ UNCHANGED diskVars \/ \E T : T \cap Taken = {} /\ RemoveAll(T)
  /\ \/ pc \in {"source", "copy"} /\ pc' \in {"copy", "returned"} /\ UNCHANGED <<k, registry>>
     \/ pc = "wait" /\ PoolDrained /\ pc' = "delete" /\ ~poolDone /\ registry' = {} /\ k' = k
     \/ pc = "wait" /\ PoolDrained /\ pc' = "copy" /\ registry' = {} /\ k' = k + 1
     \/ pc = "wait" /\ PoolDrained /\ pc' = "returned" /\ registry' = {} /\ k' = k
     \/ pc = "delete" /\ pc' = "copy" /\ k' = k + 1 /\ UNCHANGED registry
     \/ pc = "delete" /\ pc' = "returned" /\ UNCHANGED <<k, registry>>

LEMMA OnwardStep == ASSUME IInv, Onward PROVE IInv'
<1> USE PoolAssumption
<1>1. UNCHANGED <<jobCanceled, poolDone, srcDone, queue, closed, worker, poolErr, cur, next, target, ret, toCopy>>
  BY DEF Onward, doneVars, chanVars, frameVars
<1>2. /\ NamesFresh' /\ Named' = Named /\ FailedHasError' /\ JobsSound' /\ ExitsDrained'
      /\ (UNCHANGED diskVars => DiskIsOurs')
  BY <1>1, CallerFrame DEF IInv
<1>3. DiskIsOurs' /\ roots' \subseteq Targets /\ written' \subseteq WrittenType
  <2>1. CASE UNCHANGED diskVars
    BY <1>2, <2>1 DEF diskVars, IInv, CopierInv, CopierTypeOK, WrittenType
  <2>2. CASE \E T : T \cap Taken = {} /\ RemoveAll(T)
    BY <1>1, <2>2, RemoveAllKeeps DEF IInv
  <2> QED
    BY <2>1, <2>2 DEF Onward
<1>4. registry' \subseteq registry
  BY DEF Onward
<1>5. CopierInv'
  <2>1. CopierTypeOK'
    <3>1. faults' \in BOOLEAN /\ status' \in [Sources -> {"none", "active", "done", "canceled"}]
      BY DEF Onward
    <3>2. CopierTypeOK
      BY DEF IInv, TypeOK
    <3> QED
      BY <1>1, <1>3, <1>4, <3>1, <3>2 DEF CopierTypeOK, WrittenType
  <2>2. CallerSound' /\ PlacedSound'
    BY DEF Onward, CallerSound, PlacedSound, Walking
  <2> QED
    BY <1>2, <1>3, <2>1, <2>2 DEF CopierInv
<1>t. Len(toCopy) \in Nat /\ k \in Nat /\ k >= 1 /\ Len(toCopy) <= NumSources /\ NumSources \in Nat
      /\ k <= Len(toCopy) + 1 /\ (pc \in {"wait", "delete"} => k <= Len(toCopy))
  BY LenProperties DEF IInv, TypeOK, LoopSound, PoolAssumption, Copying, Live
<1>6. k' \in 1..(NumSources + 1) /\ k' <= Len(toCopy) + 1 /\ (k' = k \/ (k' = k + 1 /\ pc' = "copy"))
  BY <1>t DEF Onward
<1>7. TypeOK'
  <2>1. CopierTypeOK' /\ toCopy' \in Seq(Sources)
    BY <1>1, <1>5 DEF CopierInv, IInv, TypeOK
  <2>2. pc' \in {"copy", "delete", "returned"} /\ origin' \in [Sources -> {"whole", "partly", "gone"}]
        /\ result' \in {"none", "nil", "canceled", "error"}
    BY DEF Onward
  <2> QED
    BY <1>6, <2>1, <2>2 DEF TypeOK
<1>8. LoopSound'
  <2>1. pc' = "delete" => k' = k /\ pc \in Copying
    BY DEF Onward, Copying, Live
  <2>2. pc' # "source" /\ (pc' \in Copying => pc' = "delete")
    BY DEF Onward, Copying, Live, Walking
  <2> QED
    BY <1>1, <1>2, <1>6, <2>1, <2>2 DEF IInv, LoopSound
<1>9. OneAtATime'
  <2>1. queue = <<>> /\ \A w \in Workers : worker[w].at \in {"idle", "exited"}
    <3>1. CASE pc = "wait"
      <4>1. \A w \in Workers : worker[w].at = "exited"
        BY <3>1 DEF Onward, PoolDrained, At
      <4> QED
        BY <4>1 DEF IInv, CopierInv, ExitsDrained, PoolAssumption
    <3>2. CASE pc # "wait"
      BY <3>2 DEF Onward, IInv, OneAtATime, Live, Walking
    <3> QED
      BY <3>1, <3>2
  <2> QED
    BY <1>1, <2>1 DEF OneAtATime, Busy
<1>10. CancelSound'
  <2>1. \A s \in registry' : FALSE
    BY DEF Onward, IInv, CancelSound, Live, Walking
  <2>2. ASSUME pc' # "returned", NEW i \in k'..Len(toCopy), toCopy[i] \in srcDone PROVE FALSE
    <3>1. i \in k..Len(toCopy) /\ (k' = k + 1 => i # k)
      BY <1>t, <1>6, <2>2
    <3>2. pc \in Live /\ i = k /\ poolDone
      BY <2>2, <3>1 DEF IInv, CancelSound, Onward
    <3> QED
      BY <2>2, <3>1, <3>2 DEF Onward, Live, Walking
  <2>3. pc' # "source"
    BY DEF Onward
  <2> QED
    BY <1>1, <2>1, <2>2, <2>3 DEF CancelSound
<1> QED
  BY <1>5, <1>7, <1>8, <1>9, <1>10 DEF IInv

\* What the cleanup takes was given by this call.
LEMMA RemainingIsOurs == ASSUME IInv PROVE Remaining \cap Taken = {}
<1>1. k \in Nat /\ k >= 1 /\ Len(toCopy) \in Nat
  BY LenProperties DEF IInv, TypeOK
<1>2. \A i \in k..Len(toCopy) : toCopy[i] \in Named
  BY <1>1 DEF IInv, LoopSound
<1> QED
  BY <1>2 DEF Remaining, IInv, CopierInv, NamesFresh

LEMMA LoopGoesOnward ==
  ASSUME IInv,
         \/ SourceStops \/ RenamesDone \/ SkipSource \/ CopyFailed \/ Copied
         \/ DeleteSource \/ DeleteFails \/ CopiesDone
  PROVE  Onward
<1> USE PoolAssumption
<1>0. /\ status \in [Sources -> {"none", "active", "done", "canceled"}] /\ faults \in BOOLEAN
      /\ origin \in [Sources -> {"whole", "partly", "gone"}]
      /\ result \in {"none", "nil", "canceled", "error"} /\ ret \in {"none", "canceled", "error"}
      /\ poolErr \in {"none", "canceled", "error"}
  BY DEF IInv, TypeOK, CopierTypeOK
<1>r. \E T : T \cap Taken = {} /\ (RemoveAll(Remaining) => RemoveAll(T))
  BY RemainingIsOurs
<1>1. CASE SourceStops
  BY <1>0, <1>1 DEF SourceStops, Exits, Onward, ctxVars, doneVars
<1>2. CASE RenamesDone
  <2>1. UNCHANGED diskVars \/ \E T : T \cap Taken = {} /\ RemoveAll(T)
    BY <1>2, RemainingIsOurs DEF RenamesDone
  <2> QED
    BY <1>0, <1>2, <2>1 DEF RenamesDone, Exits, Onward, ctxVars
<1>3. CASE SkipSource
  <2>1. {target[cur]} \cap Taken = {}
    <3>1. cur \in Named
      BY <1>3, LenProperties DEF SkipSource, Settled, IInv, TypeOK, LoopSound, Copying, Live
    <3> QED
      BY <3>1 DEF IInv, CopierInv, NamesFresh
  <2>2. \E T : T \cap Taken = {} /\ RemoveAll(T)
    BY <1>3, <2>1 DEF SkipSource
  <2>3. status' \in [Sources -> {"none", "active", "done", "canceled"}]
    BY <1>0, <1>3 DEF SkipSource
  <2> QED
    BY <1>0, <1>3, <2>2, <2>3 DEF SkipSource, Settled, Onward
<1>4. CASE CopyFailed
  <2>1. \E T : T \cap Taken = {} /\ RemoveAll(T)
    BY <1>4, RemainingIsOurs DEF CopyFailed
  <2>2. result' \in {"none", "nil", "canceled", "error"}
    BY <1>0, <1>4 DEF CopyFailed, Exits, WaitErr
  <2> QED
    BY <1>0, <1>4, <2>1, <2>2 DEF CopyFailed, Exits, Settled, Onward, rowVars
<1>5. CASE Copied
  <2>1. ~poolDone
    BY <1>5 DEF Copied, WaitErr, CtxDone
  <2> QED
    BY <1>0, <1>5, <2>1 DEF Copied, Settled, Onward, rowVars, loopVars
<1>6. CASE DeleteSource
  <2>1. status' \in [Sources -> {"none", "active", "done", "canceled"}]
        /\ origin' \in [Sources -> {"whole", "partly", "gone"}]
    BY <1>0, <1>6 DEF DeleteSource
  <2> QED
    BY <1>0, <1>6, <2>1 DEF DeleteSource, Onward, ctxVars
<1>7. CASE DeleteFails
  <2>1. \E T : T \cap Taken = {} /\ RemoveAll(T)
    BY <1>7, RemainingIsOurs DEF DeleteFails
  <2>2. origin' \in [Sources -> {"whole", "partly", "gone"}]
    BY <1>0, <1>7 DEF DeleteFails
  <2> QED
    BY <1>0, <1>7, <2>1, <2>2 DEF DeleteFails, Exits, Onward, ctxVars
<1>8. CASE CopiesDone
  BY <1>0, <1>8 DEF CopiesDone, Exits, Onward, poolVars, ctxVars, rowVars
<1> QED
  BY <1>1, <1>2, <1>3, <1>4, <1>5, <1>6, <1>7, <1>8

\* The name of a source is nobody's, and the source gets no second one.
LEMMA RenameStep == ASSUME IInv, TryRename PROVE IInv'
<1> USE PoolAssumption
<1> DEFINE to == UniquePath(Base[cur])
<1>1. /\ pc = "source" /\ cur \in Sources /\ pc' = "source" /\ cur' = cur + 1
      /\ target' = [target EXCEPT ![cur] = to]
      /\ UNCHANGED <<jobCanceled, poolDone, srcDone, registry, queue, closed, worker, poolErr,
                     faults, next, ret, k, result>>
  BY DEF TryRename, ctxVars, doneVars, chanVars
<1>2. \/ /\ PutTree(cur, to) /\ UNCHANGED toCopy /\ origin' = [origin EXCEPT ![cur] = "gone"]
         /\ status' = [status EXCEPT ![cur] = "done"]
      \/ /\ UNCHANGED <<roots, written, origin>> /\ toCopy' = Append(toCopy, cur)
         /\ status' = [status EXCEPT ![cur] = "active"]
  BY DEF TryRename, diskVars
<1>3. Named = 1..(cur - 1) /\ cur \notin Named /\ cur \in Nat /\ k = 1 /\ Len(toCopy) <= cur - 1
  BY <1>1 DEF IInv, LoopSound, Sources
<1>4. to \in Targets \ roots /\ to[1] = Base[cur] /\ to # NoTarget
  <2>1. to \in Targets \ roots /\ to[1] = Base[cur]
    BY <1>1, <1>3, FreeName DEF IInv, CopierInv, Bases
  <2> QED
    BY <2>1 DEF Targets, NoTarget
<1>5. /\ target \in [Sources -> Targets \cup {NoTarget}]
      /\ status \in [Sources -> {"none", "active", "done", "canceled"}]
      /\ origin \in [Sources -> {"whole", "partly", "gone"}] /\ toCopy \in Seq(Sources)
      /\ roots \subseteq Targets /\ written \subseteq WrittenType
  BY DEF IInv, TypeOK, CopierTypeOK, WrittenType
<1> HIDE DEF to
<1>6. /\ target' \in [Sources -> Targets \cup {NoTarget}] /\ Named' = Named \cup {cur}
      /\ \A s \in Named : target'[s] = target[s]
      /\ target'[cur] = to
  BY <1>1, <1>3, <1>4, <1>5 DEF Named
<1>7. DiskIsOurs' /\ roots' \subseteq Targets /\ written' \subseteq WrittenType
  <2>1. CASE UNCHANGED <<roots, written>>
    BY <1>5, <1>6, <2>1 DEF IInv, CopierInv, DiskIsOurs, LeavesOf
  <2>2. CASE PutTree(cur, to)
    <3>1. roots' = roots \cup {to}
      BY <2>2 DEF PutTree
    <3>2. \A x \in written' : x \in written \/ \E i \in LeavesOf(cur) : x = Written(cur, i, to, TRUE)
      BY <2>2 DEF PutTree
    <3>3. \A i \in LeavesOf(cur) : Written(cur, i, to, TRUE) \in WrittenType
      BY <1>1, <1>4 DEF Written, WrittenType, LeavesOf
    <3>4. written' \subseteq WrittenType /\ roots' \subseteq Targets
      BY <1>4, <1>5, <3>1, <3>2, <3>3
    <3>5. Taken \subseteq roots' /\ \A t \in roots' \ Taken : \E q \in Named' : t = target'[q]
      BY <1>6, <3>1 DEF IInv, CopierInv, DiskIsOurs
    <3>6. ASSUME NEW x \in written'
          PROVE  x.src \in Named' /\ x.to = target'[x.src] /\ x.to \in roots' /\ x.leaf \in LeavesOf(x.src)
      <4>1. CASE x \in written
        BY <1>6, <3>1, <4>1 DEF IInv, CopierInv, DiskIsOurs
      <4>2. CASE \E i \in LeavesOf(cur) : x = Written(cur, i, to, TRUE)
        BY <1>6, <3>1, <4>2 DEF Written
      <4> QED
        BY <3>2, <4>1, <4>2
    <3> QED
      BY <3>4, <3>5, <3>6 DEF DiskIsOurs, LeavesOf
  <2> QED
    BY <1>2, <2>1, <2>2
<1>8. CopierInv'
  <2>1. CopierTypeOK'
    <3>1. cur' \in 1..(NumSources + 1)
      BY <1>1 DEF Sources, PoolAssumption
    <3>2. status' \in [Sources -> {"none", "active", "done", "canceled"}]
      BY <1>2, <1>5
    <3>3. CopierTypeOK
      BY DEF IInv, TypeOK
    <3> QED
      BY <1>1, <1>6, <1>7, <3>1, <3>2, <3>3 DEF CopierTypeOK, WrittenType
  <2>2. NamesFresh'
    BY <1>4, <1>6 DEF IInv, CopierInv, NamesFresh, DiskIsOurs
  <2>3. JobsSound'
    BY <1>1, <1>6 DEF IInv, CopierInv, JobsSound, Sound, LeavesOf
  <2>4. CallerSound' /\ PlacedSound' /\ FailedHasError' /\ ExitsDrained'
    BY <1>1 DEF IInv, CopierInv, CallerSound, PlacedSound, FailedHasError, ExitsDrained, Walking
  <2> QED
    BY <1>7, <2>1, <2>2, <2>3, <2>4 DEF CopierInv
<1>9. toCopy' \in Seq(Sources) /\ Len(toCopy') <= cur /\ Len(toCopy') \in Nat /\ Len(toCopy) \in Nat
      /\ \/ toCopy' = toCopy
         \/ /\ Len(toCopy') = Len(toCopy) + 1 /\ toCopy'[Len(toCopy')] = cur
            /\ \A i \in 1..Len(toCopy) : toCopy'[i] = toCopy[i]
  <2>1. CASE toCopy' = toCopy
    BY <1>3, <1>5, <2>1, LenProperties
  <2>2. CASE toCopy' = Append(toCopy, cur)
    BY <1>1, <1>3, <1>5, <2>2, AppendProperties, LenProperties
  <2> QED
    BY <1>2, <2>1, <2>2
<1>10. TypeOK'
  <2>1. CopierTypeOK'
    BY <1>8 DEF CopierInv
  <2>2. origin' \in [Sources -> {"whole", "partly", "gone"}]
    BY <1>2, <1>5
  <2> QED
    BY <1>1, <1>9, <2>1, <2>2 DEF IInv, TypeOK
<1>11. LoopSound'
  <2>1. Named' = 1..(cur' - 1)
    BY <1>1, <1>3, <1>6 DEF Sources
  <2>2. Len(toCopy') <= NumSources /\ k' <= Len(toCopy') + 1 /\ k' = 1 /\ Len(toCopy') <= cur' - 1
    BY <1>1, <1>3, <1>9 DEF Sources, PoolAssumption
  <2>3. ASSUME NEW i \in 1..Len(toCopy')
        PROVE  \/ i \in 1..Len(toCopy) /\ toCopy'[i] = toCopy[i] /\ toCopy[i] \in Named
               \/ i = Len(toCopy') /\ toCopy'[i] = cur /\ i \notin 1..Len(toCopy)
    BY <1>9 DEF IInv, LoopSound
  <2>4. \A i \in 1..Len(toCopy') : toCopy'[i] \in Named'
    BY <1>6, <2>3
  <2>5. \A i, j \in 1..Len(toCopy') : toCopy'[i] = toCopy'[j] => i = j
    BY <1>3, <2>3 DEF IInv, LoopSound
  <2> QED
    BY <1>1, <2>1, <2>2, <2>4, <2>5 DEF LoopSound, Copying, Live, Walking
<1>12. OneAtATime'
  <2>1. queue = <<>> /\ \A w \in Workers : worker[w].at \in {"idle", "exited"}
    BY <1>1 DEF IInv, OneAtATime, Live, Walking
  <2> QED
    BY <1>1, <2>1 DEF OneAtATime, Busy
<1>13. CancelSound'
  <2>1. \A s \in registry' : FALSE
    BY <1>1 DEF IInv, CancelSound, Live, Walking
  <2>2. srcDone' = {}
    BY <1>1 DEF IInv, CancelSound
  <2> QED
    BY <1>1, <2>1, <2>2 DEF CancelSound
<1> QED
  BY <1>8, <1>10, <1>11, <1>12, <1>13 DEF IInv

LEMMA OpenStep == ASSUME IInv, OpenCopier PROVE IInv'
<1> USE PoolAssumption
<1>1. /\ pc = "copy" /\ k <= Len(toCopy) /\ pc' = "place" /\ cur' = toCopy[k] /\ next' = 1 /\ ret' = "none"
      /\ registry' = {toCopy[k]} /\ poolDone' = FALSE /\ poolErr' = "none" /\ queue' = <<>>
      /\ closed' = FALSE /\ worker' = [w \in Workers |-> Idle]
      /\ UNCHANGED <<jobCanceled, srcDone, roots, written, status, faults, target, origin, toCopy, k, result>>
  BY DEF OpenCopier, diskVars, rowVars, loopVars, FreshWorkers
<1>2. Named' = Named /\ k \in 1..Len(toCopy) /\ toCopy[k] \in Named /\ toCopy[k] \in Sources
  BY <1>1, LenProperties DEF Named, IInv, TypeOK, LoopSound
<1>3. Idle \in Frame /\ Idle.at = "idle" /\ Idle.job = NoJob
  BY DEF Idle, Frame
<1>4. worker' \in [Workers -> Frame] /\ \A w \in Workers : worker'[w].at = "idle" /\ worker'[w].job = NoJob
  BY <1>1, <1>3
<1>5. CopierInv'
  <2>1. CopierTypeOK'
    <3>1. Cap \in Nat
      BY FS_CardinalityType DEF Cap, PoolAssumption
    <3>2. queue' \in Seq(Job) /\ Len(queue') <= Cap
      BY <1>1, <3>1
    <3>3. \A w \in Workers : (worker'[w].job = NoJob) <=> (worker'[w].at \in {"idle", "exited"})
      BY <1>4
    <3>4. cur' \in 1..(NumSources + 1) /\ next' \in Nat \ {0} /\ registry' \subseteq Sources
      BY <1>1, <1>2 DEF Sources, PoolAssumption
    <3>5. CopierTypeOK
      BY DEF IInv, TypeOK
    <3> QED
      BY <1>1, <1>4, <3>2, <3>3, <3>4, <3>5 DEF CopierTypeOK
  <2>2. NamesFresh' /\ DiskIsOurs'
    BY <1>1, <1>2 DEF IInv, CopierInv, NamesFresh, DiskIsOurs, LeavesOf
  <2>3. JobsSound' /\ FailedHasError' /\ ExitsDrained'
    BY <1>1, <1>4 DEF JobsSound, FailedHasError, ExitsDrained, Busy
  <2>4. CallerSound' /\ PlacedSound'
    BY <1>1, <1>2 DEF CallerSound, PlacedSound, Walking
  <2> QED
    BY <2>1, <2>2, <2>3, <2>4 DEF CopierInv
<1>6. TypeOK'
  <2>1. CopierTypeOK'
    BY <1>5 DEF CopierInv
  <2> QED
    BY <1>1, <2>1 DEF IInv, TypeOK
<1>7. LoopSound'
  BY <1>1, <1>2 DEF IInv, LoopSound
<1>8. OneAtATime'
  BY <1>1, <1>4 DEF OneAtATime, Busy, Live, Walking
<1>9. CancelSound'
  <2>1. \A i \in k..Len(toCopy) : toCopy[i] \notin srcDone
    BY <1>1 DEF IInv, CancelSound, Live, Walking
  <2> QED
    BY <1>1, <2>1 DEF CancelSound, Live, Walking
<1> QED
  BY <1>5, <1>6, <1>7, <1>8, <1>9 DEF IInv

LEMMA CloseStep == ASSUME IInv, CloseJobs PROVE IInv'
<1> USE PoolAssumption
<1>1. /\ pc = "placed" /\ pc' = "wait" /\ closed' = TRUE
      /\ ret' \in {"none", "canceled", "error"} /\ (ret' = "none" => ret = "none")
      /\ UNCHANGED <<jobCanceled, poolDone, srcDone, registry, queue, worker, poolErr, roots, written,
                     status, faults, cur, next, target, origin, toCopy, k, result>>
  BY DEF CloseJobs, IInv, TypeOK, CopierTypeOK, ctxVars, doneVars, diskVars, rowVars, loopVars
<1>2. Named' = Named /\ ~closed
  BY <1>1 DEF Named, IInv, CopierInv, CallerSound
<1>3. CopierInv'
  <2>1. CopierTypeOK'
    BY <1>1 DEF IInv, CopierInv, CopierTypeOK
  <2>2. NamesFresh' /\ DiskIsOurs' /\ JobsSound'
    BY <1>1, <1>2 DEF IInv, CopierInv, NamesFresh, DiskIsOurs, JobsSound, Sound, LeavesOf
  <2>3. CallerSound' /\ PlacedSound' /\ FailedHasError' /\ ExitsDrained'
    BY <1>1 DEF IInv, CopierInv, CallerSound, PlacedSound, FailedHasError, ExitsDrained, Walking
  <2> QED
    BY <2>1, <2>2, <2>3 DEF CopierInv
<1>4. TypeOK'
  <2>1. CopierTypeOK'
    BY <1>3 DEF CopierInv
  <2> QED
    BY <1>1, <2>1 DEF IInv, TypeOK
<1>5. LoopSound' /\ OneAtATime' /\ CancelSound'
  BY <1>1, <1>2 DEF IInv, LoopSound, OneAtATime, CancelSound, Copying, Live, Walking, Busy
<1> QED
  BY <1>3, <1>4, <1>5 DEF IInv

LEMMA PlaceStep == ASSUME IInv, Place, UNCHANGED loopVars PROVE IInv'
<1> USE PoolAssumption
<1>1. CopierInv' /\ CopierInv
  BY PlaceKeeps DEF IInv
<1>2. /\ pc \in Walking /\ pc' \in Walking \cup {"placed"}
      /\ UNCHANGED <<cur, target, worker, poolDone, srcDone, registry>>
      /\ UNCHANGED queue \/ queue' = Append(queue, [src |-> cur, leaf |-> next, to |-> target[cur]])
  <2> USE DEF Walking, poolVars, chanVars, ctxVars, doneVars
  <2>1. CASE PlaceCanceled \/ SendCanceled
    BY <2>1 DEF PlaceCanceled, SendCanceled, Placing, Return
  <2>2. CASE PlaceFault
    BY <2>2 DEF PlaceFault, Placing, Return
  <2>3. CASE PlaceRoot \/ CloneRoot
    BY <2>3 DEF PlaceRoot, CloneRoot
  <2>4. CASE CloneChecked \/ PlaceDone
    BY <2>4 DEF CloneChecked, PlaceDone, Return
  <2>5. CASE PlaceLeaf
    BY <2>5 DEF PlaceLeaf
  <2>6. CASE SendLeaf
    BY <2>6 DEF SendLeaf, Send
  <2> QED
    BY <2>1, <2>2, <2>3, <2>4, <2>5, <2>6 DEF Place
<1>3. UNCHANGED <<origin, toCopy, k, result>> /\ Named' = Named
  BY <1>2 DEF loopVars, Named
<1>4. TypeOK'
  BY <1>1, <1>2, <1>3 DEF IInv, TypeOK, CopierInv, Walking
<1>5. LoopSound'
  BY <1>2, <1>3 DEF IInv, LoopSound, Copying, Live, Walking
<1>6. OneAtATime'
  <2>1. \A i \in 1..Len(queue') : queue'[i].src = cur
    <3>1. queue \in Seq(Job)
      BY DEF IInv, TypeOK, CopierTypeOK
    <3>2. CASE queue' = queue
      BY <3>2 DEF IInv, OneAtATime
    <3>3. CASE queue' = Append(queue, [src |-> cur, leaf |-> next, to |-> target[cur]])
      <4>1. Len(queue') = Len(queue) + 1 /\ Len(queue) \in Nat /\ queue'[Len(queue) + 1].src = cur
            /\ \A i \in 1..Len(queue) : queue'[i] = queue[i]
        BY <3>1, <3>3
      <4> QED
        BY <4>1 DEF IInv, OneAtATime
    <3> QED
      BY <1>2, <3>2, <3>3
  <2> QED
    BY <1>2, <2>1 DEF IInv, OneAtATime, Live, Walking
<1>7. CancelSound'
  BY <1>2, <1>3 DEF IInv, CancelSound, Live, Walking
<1> QED
  BY <1>1, <1>4, <1>5, <1>6, <1>7 DEF IInv

-----------------------------------------------------------------------------
(***************************************************************************)
(* Steps of the workers and of the UI.                                      *)
(***************************************************************************)
LEMMA WorkStep == ASSUME IInv, NEW w \in Workers, Work(w) PROVE IInv'
<1> USE PoolAssumption
<1>0. WorkerStep(w) /\ CopierInv
  BY DEF Work, IInv
<1>1. CopierInv'
  BY <1>0, WorkKeeps
<1>2. /\ UNCHANGED <<pc, cur, target, registry, srcDone, origin, toCopy, k, result>>
      /\ Named' = Named /\ (poolDone => poolDone')
  BY <1>0, WorkFrame DEF Work, placeVars, frameVars, loopVars
<1>3. TypeOK' /\ LoopSound' /\ CancelSound'
  BY <1>1, <1>2 DEF IInv, TypeOK, CopierInv, LoopSound, CancelSound
<1>4. OneAtATime'
  <2>0. worker \in [Workers -> Frame] /\ queue \in Seq(Job)
    BY DEF IInv, TypeOK, CopierTypeOK
  <2>1. CASE Take(w)
    <3>1. /\ queue # <<>> /\ queue' = Tail(queue)
          /\ worker' = [worker EXCEPT ![w] = [worker[w] EXCEPT !.at = "start", !.job = Head(queue)]]
      BY <2>0, <2>1 DEF Take
    <3>2. Head(queue) = queue[1] /\ Len(queue) \in Nat /\ Len(queue) >= 1 /\ Len(queue') = Len(queue) - 1
          /\ \A i \in 1..Len(queue') : queue'[i] = queue[i + 1] /\ i + 1 \in 1..Len(queue)
      BY <2>0, <3>1
    <3>3. worker'[w].job = queue[1] /\ \A v \in Workers : v # w => worker'[v] = worker[v]
      BY <2>0, <3>1, <3>2 DEF Frame
    <3>4. pc \in Live
      BY <3>1 DEF IInv, OneAtATime
    <3>5. queue[1].src = cur
      BY <3>2 DEF IInv, OneAtATime
    <3>6. \A v \in Workers : worker'[v].at \in Busy => worker'[v].job.src = cur
      BY <3>3, <3>5 DEF IInv, OneAtATime
    <3>7. \A i \in 1..Len(queue') : queue'[i].src = cur
      BY <3>2 DEF IInv, OneAtATime
    <3> QED
      BY <1>2, <3>4, <3>6, <3>7 DEF OneAtATime
  <2>2. CASE ~Take(w)
    <3>1. UNCHANGED queue
      BY <1>0, <2>2 DEF WorkerStep, Exit, OpenDest, WriteAll, FinishFile, WorkerCanceled, WorkerFault, Settle
    <3>2. /\ \A v \in Workers : v # w => worker'[v] = worker[v]
          /\ worker'[w].at \in Busy => worker[w].at \in Busy /\ worker'[w].job = worker[w].job
          /\ worker[w].at \in {"idle", "exited"} => worker'[w].at \in {"idle", "exited"}
      <4>1. CASE Exit(w) \/ OpenDest(w) \/ WriteAll(w)
        BY <2>0, <4>1 DEF Exit, OpenDest, WriteAll, Goto, At, Busy, Frame
      <4>2. CASE FinishFile(w) \/ Settle(w)
        BY <2>0, <4>2 DEF FinishFile, Settle, Idle, At, Busy
      <4>3. CASE WorkerCanceled(w) \/ WorkerFault(w)
        BY <2>0, <4>3 DEF WorkerCanceled, WorkerFault, Fails, At, Busy, Frame
      <4> QED
        BY <1>0, <2>2, <4>1, <4>2, <4>3 DEF WorkerStep
    <3> QED
      BY <1>2, <3>1, <3>2 DEF IInv, OneAtATime
  <2> QED
    BY <2>1, <2>2
<1> QED
  BY <1>1, <1>3, <1>4 DEF IInv

\* A cancel from the UI, of the job or of the source in flight.
LEMMA UiStep ==
  ASSUME IInv, Cancel \/ \E s \in Sources : CancelFile(s)
  PROVE  IInv'
<1> USE PoolAssumption
<1>1. /\ jobCanceled' \in BOOLEAN /\ (jobCanceled => jobCanceled')
      /\ poolDone' \in BOOLEAN /\ (poolDone => poolDone') /\ registry' \subseteq registry
      /\ srcDone \subseteq srcDone' /\ srcDone' \subseteq Sources
      /\ UNCHANGED srcDone \/ (\E s \in registry : srcDone' = srcDone \cup {s} /\ poolDone')
      /\ UNCHANGED <<queue, closed, worker, poolErr, roots, written, status, faults, pc, cur,
                     next, target, ret, origin, toCopy, k, result>>
  <2>1. srcDone \subseteq Sources /\ registry \subseteq Sources /\ jobCanceled \in BOOLEAN /\ poolDone \in BOOLEAN
    BY DEF IInv, TypeOK, CopierTypeOK
  <2>2. CASE Cancel
    BY <2>1, <2>2 DEF Cancel, CancelJob, chanVars, diskVars, rowVars, placeVars, frameVars, loopVars
  <2>3. CASE \E s \in Sources : CancelFile(s)
    BY <2>1, <2>3 DEF CancelFile, chanVars, diskVars, rowVars, placeVars, frameVars, loopVars
  <2> QED
    BY <2>2, <2>3
<1>2. /\ NamesFresh' /\ Named' = Named /\ FailedHasError' /\ JobsSound' /\ ExitsDrained' /\ DiskIsOurs'
  BY <1>1, CallerFrame DEF IInv, diskVars
<1>3. \A s : SrcDone(s) => SrcDone(s)'
  BY <1>1 DEF SrcDone, CtxDone
<1>4. CopierInv'
  <2>1. CopierTypeOK'
    BY <1>1 DEF IInv, CopierInv, CopierTypeOK
  <2>2. CallerSound' /\ PlacedSound'
    BY <1>1, <1>2, <1>3 DEF IInv, CopierInv, CallerSound, PlacedSound, LeavesOf
  <2> QED
    BY <1>2, <2>1, <2>2 DEF CopierInv
<1>5. TypeOK'
  BY <1>1, <1>4 DEF IInv, CopierInv, TypeOK
<1>6. LoopSound' /\ OneAtATime'
  BY <1>1, <1>2 DEF IInv, LoopSound, OneAtATime
<1>7. CancelSound'
  <2>1. \A s \in registry : pc \in Live /\ s = cur
    BY DEF IInv, CancelSound
  <2>2. CASE UNCHANGED srcDone
    BY <1>1, <2>1, <2>2 DEF IInv, CancelSound
  <2>3. ASSUME NEW s \in registry, srcDone' = srcDone \cup {s}, poolDone' PROVE CancelSound'
    <3>1. pc \in Live /\ s = cur /\ cur = toCopy[k] /\ pc # "source" /\ k \in 1..Len(toCopy)
      BY <2>1, LenProperties DEF IInv, TypeOK, LoopSound, Copying, Live, Walking
    <3>2. ASSUME NEW i \in k..Len(toCopy), toCopy[i] \in srcDone' PROVE i = k
      <4>1. i \in 1..Len(toCopy) /\ (toCopy[i] = cur => i = k)
        BY <3>1, <3>2 DEF IInv, LoopSound
      <4>2. toCopy[i] \in srcDone => i = k
        BY <3>1, <3>2 DEF IInv, CancelSound, Live, Walking
      <4> QED
        BY <2>3, <3>1, <3>2, <4>1, <4>2
    <3> QED
      BY <1>1, <2>1, <2>3, <3>1, <3>2 DEF CancelSound
  <2> QED
    BY <1>1, <2>2, <2>3
<1> QED
  BY <1>4, <1>5, <1>6, <1>7 DEF IInv

LEMMA StutterStep == ASSUME IInv, UNCHANGED vars PROVE IInv'
<1>1. UNCHANGED <<jobCanceled, poolDone, srcDone, registry, queue, closed, worker, poolErr, roots, written,
                 status, faults, pc, cur, next, target, ret, origin, toCopy, k, result>>
  BY DEF vars, copierVars, poolVars, ctxVars, doneVars, chanVars, diskVars, rowVars, placeVars, frameVars,
         loopVars
<1>2. TypeOK'
  BY <1>1 DEF IInv, TypeOK, CopierTypeOK
<1>3. /\ NamesFresh' /\ Named' = Named /\ FailedHasError' /\ JobsSound' /\ ExitsDrained' /\ DiskIsOurs'
  BY <1>1, PoolAssumption, CallerFrame DEF IInv, diskVars
<1>4. CopierInv'
  BY <1>1, <1>2, <1>3 DEF IInv, TypeOK, CopierInv, CallerSound, PlacedSound, LeavesOf, SrcDone, CtxDone
<1>5. LoopSound' /\ OneAtATime' /\ CancelSound'
  BY <1>1, <1>3 DEF IInv, LoopSound, OneAtATime, CancelSound
<1> QED
  BY <1>2, <1>4, <1>5 DEF IInv

LEMMA NextIInv == IInv /\ [Next]_vars => IInv'
<1> SUFFICES ASSUME IInv, [Next]_vars PROVE IInv'
  OBVIOUS
<1>1. CASE Loop
  BY <1>1, LoopGoesOnward, OnwardStep, RenameStep, OpenStep, CloseStep DEF Loop
<1>2. CASE Place /\ UNCHANGED loopVars
  BY <1>2, PlaceStep
<1>3. CASE \E w \in Workers : Work(w)
  BY <1>3, WorkStep
<1>4. CASE Cancel \/ \E s \in Sources : CancelFile(s)
  BY <1>4, UiStep
<1>5. CASE UNCHANGED vars
  BY <1>5, StutterStep
<1> QED
  BY <1>1, <1>2, <1>3, <1>4, <1>5 DEF Next, Caller, Returned

LEMMA Inductive == Spec => []IInv
BY InitIInv, NextIInv, PTL DEF Spec

-----------------------------------------------------------------------------
(***************************************************************************)
(* Sources of different base names: nothing is lost.                        *)
(***************************************************************************)
LEMMA InitMoveSound == Init => MoveSound
<1> SUFFICES ASSUME Init PROVE MoveSound
  OBVIOUS
<1>1. /\ pc = "source" /\ written = {} /\ \A s \in Sources : origin[s] = "whole" /\ status[s] = "none"
  BY DEF Init, CopierInit
<1> QED
  BY <1>1 DEF MoveSound, OriginSound, CopySound, Live, Walking

\* A cleanup of names that a source does not have spares it.
LEMMA RemoveSpares ==
  ASSUME NEW T, RemoveAll(T), NEW s, target[s] \notin T, WholeAt(s, target[s]), UNCHANGED target
  PROVE  WholeAt(s, target[s])'
BY DEF RemoveAll, WholeAt, Written, LeavesOf

\* What is still to be copied, or just was, is no name of a source that is gone.
LEMMA GoneIsSpared ==
  ASSUME DistinctBases, IInv, MoveSound, NEW s \in Sources, origin[s] = "gone"
  PROVE  target[s] \notin Remaining /\ (pc \in Copying => s # cur /\ target[s] # target[cur])
<1>1. k \in Nat /\ k >= 1 /\ Len(toCopy) \in Nat
  BY LenProperties DEF IInv, TypeOK
<1>2. s \in Named /\ \A i \in k..Len(toCopy) : toCopy[i] # s /\ toCopy[i] \in Named
  BY <1>1 DEF MoveSound, OriginSound, IInv, LoopSound
<1>3. \A i \in k..Len(toCopy) : target[toCopy[i]] # target[s]
  BY <1>2, TargetsDiffer DEF IInv, CopierInv
<1>4. pc \in Copying => k \in k..Len(toCopy) /\ cur = toCopy[k]
  BY <1>1 DEF IInv, LoopSound
<1> QED
  BY <1>2, <1>3, <1>4 DEF Remaining

LEMMA NextMoveSound ==
  ASSUME DistinctBases, IInv, MoveSound, [Next]_vars PROVE MoveSound'
<1> USE PoolAssumption
<1>i. IInv'
  BY NextIInv
<1>0. CopierInv /\ NamesFresh /\ k \in Nat /\ k >= 1 /\ Len(toCopy) \in Nat /\ next \in Nat
  BY LenProperties DEF IInv, CopierInv, TypeOK, CopierTypeOK
<1>1. CASE SourceStops
  <2>1. pc = "source" /\ pc' = "returned" /\ UNCHANGED <<roots, written, status, target, origin, toCopy, k>>
    BY <1>1 DEF SourceStops, Exits, diskVars, frameVars
  <2> QED
    BY <2>1 DEF MoveSound, OriginSound, CopySound, WholeAt, LeavesOf, Named, Copying, Live, Walking
<1>2. CASE RenamesDone
  <2>1. pc = "source" /\ pc' \in {"copy", "returned"} /\ UNCHANGED <<status, target, origin, toCopy, k>>
        /\ (UNCHANGED <<roots, written>> \/ RemoveAll(Remaining))
    BY <1>2 DEF RenamesDone, Exits, diskVars, frameVars
  <2>2. ASSUME NEW s \in Sources, origin[s] = "gone" PROVE WholeAt(s, target[s])'
    <3>1. WholeAt(s, target[s]) /\ target[s] \notin Remaining
      BY <2>2, GoneIsSpared DEF MoveSound, OriginSound
    <3> QED
      BY <2>1, <3>1, RemoveSpares DEF WholeAt, LeavesOf
  <2>3. written' \subseteq written
    BY <2>1 DEF RemoveAll
  <2> QED
    BY <2>1, <2>2, <2>3 DEF MoveSound, OriginSound, CopySound, Named, Copying, Live, Walking
<1>3. CASE TryRename
  <2> DEFINE to == UniquePath(Base[cur])
  <2>1. /\ pc = "source" /\ pc' = "source" /\ cur \in Sources /\ UNCHANGED k
        /\ target' = [target EXCEPT ![cur] = to]
        /\ \/ /\ PutTree(cur, to) /\ UNCHANGED toCopy /\ origin' = [origin EXCEPT ![cur] = "gone"]
              /\ status' = [status EXCEPT ![cur] = "done"]
           \/ /\ UNCHANGED <<roots, written, origin>> /\ toCopy' = Append(toCopy, cur)
              /\ status' = [status EXCEPT ![cur] = "active"]
    BY <1>3 DEF TryRename, diskVars
  <2>2. cur \notin Named /\ cur \in Named' /\ \A i \in 1..Len(toCopy) : toCopy[i] \in Named
    <3>1. cur \notin Named
      BY <2>1 DEF IInv, LoopSound, Sources
    <3>2. Named' = 1..(cur' - 1) /\ cur' = cur + 1
      BY <1>3, <1>i, <2>1 DEF IInv, LoopSound, TryRename
    <3> QED
      BY <2>1, <3>1, <3>2 DEF IInv, LoopSound, Sources
  <2>3. to \notin roots
    BY <2>1, <2>2, FreeName DEF IInv, CopierInv, Bases
  <2>4. /\ target \in [Sources -> Targets \cup {NoTarget}] /\ toCopy \in Seq(Sources)
        /\ status \in [Sources -> {"none", "active", "done", "canceled"}]
        /\ origin \in [Sources -> {"whole", "partly", "gone"}]
    BY DEF IInv, TypeOK, CopierTypeOK
  <2> HIDE DEF to
  <2>5. /\ target'[cur] = to /\ origin[cur] # "gone" /\ status[cur] # "done"
        /\ \A s \in Sources \ {cur} : target'[s] = target[s] /\ status'[s] = status[s] /\ origin'[s] = origin[s]
    BY <2>1, <2>2, <2>4 DEF MoveSound, OriginSound
  <2>6. ASSUME NEW s \in Sources, origin[s] = "gone" PROVE WholeAt(s, target[s])' /\ s # cur /\ s \in Named'
    <3>1. WholeAt(s, target[s]) /\ s # cur /\ s \in Named
      BY <2>5, <2>6 DEF MoveSound, OriginSound
    <3>2. target[s] # to /\ target'[s] = target[s] /\ s \in Named'
      BY <2>3, <2>5, <3>1 DEF WholeAt, Named
    <3>3. roots \subseteq roots' /\ \A x \in written : x.to # to => x \in written'
      BY <2>1 DEF PutTree
    <3> QED
      BY <3>1, <3>2, <3>3 DEF WholeAt, Written, LeavesOf
  <2>7. CopySound'
    BY <2>1 DEF CopySound, Live, Walking
  <2>8. CASE PutTree(cur, to) /\ UNCHANGED toCopy /\ origin' = [origin EXCEPT ![cur] = "gone"]
             /\ status' = [status EXCEPT ![cur] = "done"]
    <3>1. origin'[cur] = "gone" /\ status'[cur] = "done"
      BY <2>1, <2>4, <2>8
    <3>2. ASSUME NEW s, s = cur PROVE WholeAt(s, target[s])'
      BY <2>5, <2>8, <3>2 DEF PutTree, WholeAt, LeavesOf
    <3>3. \A i \in k..Len(toCopy) : toCopy[i] # cur
      BY <1>0, <2>2
    <3>4. ASSUME NEW s \in Sources, origin'[s] = "gone"
          PROVE  s \in Named' /\ WholeAt(s, target[s])' /\ \A i \in k..Len(toCopy) : toCopy[i] # s
      <4>1. CASE s = cur
        BY <2>2, <3>2, <3>3, <4>1
      <4>2. CASE s # cur
        <5>1. origin[s] = "gone"
          BY <2>5, <3>4, <4>2
        <5> QED
          BY <2>6, <5>1 DEF MoveSound, OriginSound
      <4> QED
        BY <4>1, <4>2
    <3>5. \A s \in Sources : origin'[s] = "partly" => FALSE
      BY <2>1, <2>5, <3>1 DEF MoveSound, OriginSound
    <3>6. \A s \in Sources : (status'[s] = "done") <=> (origin'[s] = "gone")
      BY <2>5, <3>1 DEF MoveSound, OriginSound
    <3>7. ASSUME NEW x \in written' PROVE origin'[x.src] = "gone"
      <4>1. CASE x \in written
        <5>1. origin[x.src] = "gone" /\ x.src \in Sources
          BY <1>0, <2>1, <4>1 DEF MoveSound, OriginSound, Copying, Live, Walking, CopierInv, DiskIsOurs, Named
        <5> QED
          BY <2>5, <3>1, <5>1
      <4>2. CASE x.src = cur
        BY <3>1, <4>2
      <4> QED
        BY <2>8, <4>1, <4>2 DEF PutTree, Written
    <3> QED
      BY <2>1, <2>7, <2>8, <3>4, <3>5, <3>6, <3>7 DEF MoveSound, OriginSound
  <2>9. CASE UNCHANGED <<roots, written, origin>> /\ toCopy' = Append(toCopy, cur)
             /\ status' = [status EXCEPT ![cur] = "active"]
    <3>1. \A i \in k..Len(toCopy') : toCopy'[i] = cur \/ (i \in k..Len(toCopy) /\ toCopy'[i] = toCopy[i])
      BY <1>0, <2>1, <2>4, <2>9, AppendProperties
    <3>2. status'[cur] = "active"
      BY <2>1, <2>4, <2>9
    <3>3. ASSUME NEW s \in Sources, origin[s] = "gone"
          PROVE  s \in Named' /\ WholeAt(s, target[s])' /\ \A i \in k..Len(toCopy') : toCopy'[i] # s
      BY <2>6, <3>1, <3>3 DEF MoveSound, OriginSound
    <3>4. \A s \in Sources : (status'[s] = "done") <=> (origin[s] = "gone")
      BY <2>5, <3>2 DEF MoveSound, OriginSound
    <3>5. \A x \in written : origin[x.src] = "gone"
      BY <2>1 DEF MoveSound, OriginSound, Copying, Live, Walking
    <3> QED
      BY <2>1, <2>7, <2>9, <3>3, <3>4, <3>5 DEF MoveSound, OriginSound
  <2> QED
    BY <2>1, <2>8, <2>9
<1>4. CASE OpenCopier
  <2>1. /\ pc = "copy" /\ pc' = "place" /\ next' = 1
        /\ UNCHANGED <<roots, written, status, target, origin, toCopy, k>>
    BY <1>4 DEF OpenCopier, diskVars, rowVars, loopVars
  <2>2. OriginSound'
    BY <2>1 DEF MoveSound, OriginSound, WholeAt, LeavesOf, Named, Copying, Live, Walking
  <2>3. CopySound'
    BY <2>1 DEF CopySound, LeavesOf
  <2> QED
    BY <2>2, <2>3 DEF MoveSound
<1>5. CASE CloseJobs
  <2>1. /\ pc = "placed" /\ pc' = "wait" /\ (ret' = "none" => ret = "none")
        /\ UNCHANGED <<srcDone, queue, worker, poolErr, roots, written, status, cur, next, target,
                       origin, toCopy, k>>
    BY <1>5 DEF CloseJobs, ctxVars, doneVars, diskVars, rowVars, loopVars
  <2>2. OriginSound'
    BY <2>1 DEF MoveSound, OriginSound, WholeAt, LeavesOf, Named, Copying, Live, Walking
  <2>3. ASSUME NEW i, Covered(cur, i) PROVE Covered(cur, i)'
    BY <2>1, <2>3 DEF Covered, WholeLeaf, Written, InQueue, InHand
  <2>4. ret = "none" => next > Len(Leaves[cur]) /\ (cur \in Dirs => target[cur] \in roots)
    BY <2>1 DEF IInv, CopierInv, PlacedSound
  <2>5. CopySound'
    <3>1. poolErr = "none" /\ cur \notin srcDone => \A i \in LeavesOf(cur) : i < next => Covered(cur, i)
      BY <2>1 DEF MoveSound, CopySound, Live
    <3>2. poolErr = "none" /\ cur \notin srcDone => \A i \in LeavesOf(cur) : i < next => Covered(cur, i)'
      BY <2>3, <3>1
    <3> QED
      BY <2>1, <2>4, <3>2 DEF CopySound, LeavesOf
  <2> QED
    BY <2>2, <2>5 DEF MoveSound
<1>6. CASE SkipSource
  <2>1. /\ pc = "wait" /\ pc' = "copy" /\ k' = k + 1 /\ RemoveAll({target[cur]})
        /\ status' = [status EXCEPT ![cur] = "canceled"] /\ UNCHANGED <<target, origin, toCopy>>
    BY <1>6 DEF SkipSource, Settled, frameVars
  <2>2. /\ status \in [Sources -> {"none", "active", "done", "canceled"}] /\ cur \in Named /\ cur \in Sources
        /\ pc \in Copying
    BY <1>0, <2>1 DEF IInv, TypeOK, CopierTypeOK, LoopSound, Copying, Live, Named
  <2>3. ASSUME NEW s \in Sources, origin[s] = "gone" PROVE WholeAt(s, target[s])' /\ s # cur
    <3>1. WholeAt(s, target[s]) /\ target[s] # target[cur] /\ s # cur
      BY <2>2, <2>3, GoneIsSpared DEF MoveSound, OriginSound
    <3>2. WholeAt(s, target[s])'
      BY <2>1, <3>1, RemoveSpares
    <3> QED
      BY <3>1, <3>2
  <2>4. \A s \in Sources : (status'[s] = "done") <=> (origin[s] = "gone")
    BY <2>1, <2>2, <2>3 DEF MoveSound, OriginSound
  <2>5. \A x \in written' : origin[x.src] = "gone"
    <3>1. \A x \in written' : x \in written /\ x.to # target[cur]
      BY <2>1 DEF RemoveAll
    <3>2. \A x \in written : x.to = target[x.src]
      BY <1>0 DEF CopierInv, DiskIsOurs
    <3> QED
      BY <3>1, <3>2 DEF MoveSound, OriginSound
  <2>6. \A i \in (k + 1)..Len(toCopy) : i \in k..Len(toCopy)
    BY <1>0
  <2>7. OriginSound'
    <3>1. \A s \in Sources : origin[s] = "gone" =>
             s \in Named' /\ WholeAt(s, target[s])' /\ \A i \in (k + 1)..Len(toCopy) : toCopy[i] # s
      BY <2>1, <2>3, <2>6 DEF MoveSound, OriginSound, Named
    <3>2. \A s \in Sources : origin[s] # "partly"
      BY <2>1 DEF MoveSound, OriginSound
    <3> QED
      BY <2>1, <2>4, <2>5, <3>1, <3>2 DEF OriginSound
  <2> QED
    BY <2>1, <2>7 DEF MoveSound, CopySound, Live, Walking
<1>7. CASE CopyFailed \/ DeleteFails
  <2>1. /\ pc \in Copying /\ pc' = "returned" /\ RemoveAll(Remaining)
        /\ UNCHANGED <<status, target, toCopy, k>>
    BY <1>7 DEF CopyFailed, DeleteFails, Settled, Exits, frameVars, rowVars, Copying, Live
  <2>2. cur \in Named /\ cur \in Sources /\ target[cur] \in Remaining /\ origin[cur] # "gone"
    <3>1. k \in k..Len(toCopy) /\ k \in 1..Len(toCopy) /\ cur = toCopy[k]
      BY <1>0, <2>1 DEF IInv, LoopSound
    <3>2. cur \in Named
      BY <3>1 DEF IInv, LoopSound
    <3> QED
      BY <2>1, <3>1, <3>2, GoneIsSpared DEF Remaining, Named
  <2>3. /\ \A s \in Sources \ {cur} : origin'[s] = origin[s]
        /\ origin'[cur] # "gone"
    <3>1. CASE CopyFailed
      BY <2>2, <3>1 DEF CopyFailed
    <3>2. CASE DeleteFails
      BY <2>2, <3>2 DEF DeleteFails, IInv, TypeOK
    <3> QED
      BY <1>7, <3>1, <3>2
  <2>4. ASSUME NEW s \in Sources, origin[s] = "gone" PROVE WholeAt(s, target[s])'
    <3>1. WholeAt(s, target[s]) /\ target[s] \notin Remaining
      BY <2>4, GoneIsSpared DEF MoveSound, OriginSound
    <3> QED
      BY <2>1, <3>1, RemoveSpares
  <2>5. \A x \in written' : origin'[x.src] = "gone"
    <3>1. \A x \in written' : x \in written /\ x.to \notin Remaining
      BY <2>1 DEF RemoveAll
    <3>2. \A x \in written : x.to = target[x.src] /\ x.src \in Sources
      BY <1>0 DEF CopierInv, DiskIsOurs, Named
    <3> QED
      BY <2>2, <2>3, <3>1, <3>2 DEF MoveSound, OriginSound
  <2>6. OriginSound'
    <3>1. \A s \in Sources : origin'[s] = "gone" => origin[s] = "gone"
      BY <2>3
    <3>2. \A s \in Sources : origin'[s] = "gone" =>
             s \in Named' /\ WholeAt(s, target[s])' /\ \A i \in k..Len(toCopy) : toCopy[i] # s
      BY <2>1, <2>4, <3>1 DEF MoveSound, OriginSound, Named
    <3>3. \A s \in Sources : (status[s] = "done") <=> (origin'[s] = "gone")
      BY <2>2, <2>3 DEF MoveSound, OriginSound
    <3> QED
      BY <2>1, <2>5, <3>2, <3>3 DEF OriginSound
  <2> QED
    BY <2>1, <2>6 DEF MoveSound, CopySound, Live, Walking
<1>8. CASE Copied
  <2>1. /\ pc = "wait" /\ pc' = "delete" /\ PoolDrained /\ ret = "none" /\ poolErr = "none" /\ ~poolDone
        /\ UNCHANGED <<roots, written, status, cur, target, origin, toCopy, k>>
    BY <1>8 DEF Copied, Settled, WaitErr, CtxDone, diskVars, rowVars, frameVars, loopVars
  <2>2. OriginSound'
    BY <2>1 DEF MoveSound, OriginSound, WholeAt, LeavesOf, Named, Copying, Live, Walking
  <2>3. WholeAt(cur, target[cur])
    <3>1. k \in k..Len(toCopy) /\ k \in 1..Len(toCopy) /\ cur = toCopy[k]
      BY <1>0, <2>1 DEF IInv, LoopSound, Copying, Live
    <3>2. cur \in Named /\ cur \notin srcDone
      BY <2>1, <3>1 DEF IInv, LoopSound, CancelSound
    <3>3. next > Len(Leaves[cur]) /\ (cur \in Dirs => target[cur] \in roots)
      BY <2>1 DEF MoveSound, CopySound
    <3>4. \A i \in LeavesOf(cur) : i < next
      <4>1. Leaves[cur] \in Seq({"file", "link"})
        BY <3>2 DEF PoolAssumption, Named
      <4>2. Len(Leaves[cur]) \in Nat
        BY <4>1, LenProperties
      <4> QED
        BY <1>0, <3>3, <4>2 DEF LeavesOf
    <3>5. \A i \in LeavesOf(cur) : Covered(cur, i)
      BY <2>1, <3>2, <3>4 DEF MoveSound, CopySound, Live
    <3>6. \A i \in LeavesOf(cur) : WholeLeaf(cur, i)
      BY <1>0, <2>1, <3>5, DrainedIsWhole
    <3> QED
      BY <1>0, <3>2, <3>3, <3>6, LeavesMakeWhole
  <2>4. WholeAt(cur, target[cur])'
    BY <2>1, <2>3 DEF WholeAt, LeavesOf
  <2> QED
    BY <2>1, <2>2, <2>4 DEF MoveSound, CopySound, Live, Walking
<1>9. CASE DeleteSource
  <2>1. /\ pc = "delete" /\ pc' = "copy" /\ k' = k + 1 /\ origin' = [origin EXCEPT ![cur] = "gone"]
        /\ status' = [status EXCEPT ![cur] = "done"] /\ UNCHANGED <<roots, written, target, toCopy>>
    BY <1>9 DEF DeleteSource, diskVars, frameVars
  <2>2. /\ k \in 1..Len(toCopy) /\ cur = toCopy[k] /\ cur \in Named /\ cur \in Sources
        /\ WholeAt(cur, target[cur])
    BY <1>0, <2>1 DEF IInv, LoopSound, Copying, Named, MoveSound, CopySound
  <2>3. /\ origin'[cur] = "gone" /\ status'[cur] = "done"
        /\ \A s \in Sources \ {cur} : origin'[s] = origin[s] /\ status'[s] = status[s]
    BY <2>1, <2>2 DEF IInv, TypeOK, CopierTypeOK
  <2>4. \A i \in (k + 1)..Len(toCopy) : i \in k..Len(toCopy) /\ toCopy[i] # cur
    BY <1>0, <2>2 DEF IInv, LoopSound
  <2>5. ASSUME NEW s \in Sources, origin'[s] = "gone"
        PROVE  s \in Named' /\ WholeAt(s, target[s])' /\ \A i \in (k + 1)..Len(toCopy) : toCopy[i] # s
    <3>1. s \in Named /\ WholeAt(s, target[s]) /\ \A i \in (k + 1)..Len(toCopy) : toCopy[i] # s
      BY <2>2, <2>3, <2>4, <2>5 DEF MoveSound, OriginSound
    <3> QED
      BY <2>1, <3>1 DEF Named, WholeAt, LeavesOf
  <2>6. \A s \in Sources : (status'[s] = "done") <=> (origin'[s] = "gone")
    BY <2>3 DEF MoveSound, OriginSound
  <2>7. \A s \in Sources : origin'[s] # "partly"
    BY <2>1, <2>3 DEF MoveSound, OriginSound
  <2>8. \A x \in written : origin'[x.src] = "gone"
    <3>1. \A x \in written : x.src \in Sources
      BY <1>0 DEF CopierInv, DiskIsOurs, Named
    <3> QED
      BY <2>3, <3>1 DEF MoveSound, OriginSound
  <2>9. OriginSound'
    BY <2>1, <2>5, <2>6, <2>7, <2>8 DEF OriginSound
  <2> QED
    BY <2>1, <2>9 DEF MoveSound, CopySound, Live, Walking
<1>10. CASE CopiesDone
  <2>1. pc = "copy" /\ pc' = "returned" /\ UNCHANGED <<roots, written, status, target, origin, toCopy, k>>
    BY <1>10 DEF CopiesDone, Exits, poolVars, diskVars, rowVars, frameVars
  <2> QED
    BY <2>1 DEF MoveSound, OriginSound, CopySound, WholeAt, LeavesOf, Named, Copying, Live, Walking
<1>11. CASE Place /\ UNCHANGED loopVars
  <2>1. /\ pc \in Walking /\ pc' \in Walking \cup {"placed"} /\ roots \subseteq roots'
        /\ UNCHANGED <<cur, target, poolErr, srcDone, status, origin, toCopy, k>>
    <3>1. UNCHANGED <<cur, target, poolErr, srcDone, status>>
      BY <1>11 DEF Place, PlaceCanceled, PlaceFault, PlaceRoot, CloneRoot, CloneChecked, PlaceLeaf,
             SendLeaf, SendCanceled, PlaceDone, Return, poolVars, chanVars, ctxVars, doneVars, rowVars
    <3>2. roots \subseteq roots'
      BY <1>11 DEF Place, PlaceCanceled, PlaceFault, PlaceRoot, CloneRoot, CloneChecked, PlaceLeaf,
             SendLeaf, SendCanceled, PlaceDone, poolVars, diskVars, PutTree, PutLeaf
    <3>3. pc \in Walking /\ pc' \in Walking \cup {"placed"}
      BY <1>11 DEF Place, PlaceCanceled, PlaceFault, PlaceRoot, CloneRoot, CloneChecked, PlaceLeaf,
             SendLeaf, SendCanceled, PlaceDone, Return, Placing, Walking
    <3> QED
      BY <1>11, <3>1, <3>2, <3>3 DEF loopVars
  <2>2. cur \in Named /\ cur \in Sources /\ pc \in Live /\ pc \in Copying /\ pc' \in Live /\ pc' \in Copying
    BY <1>0, <2>1 DEF CopierInv, CallerSound, Named, Live, Copying, Walking
  <2>3. ASSUME NEW s \in Sources, origin[s] = "gone" PROVE WholeAt(s, target[s])'
    <3>1. s \in Named /\ s # cur /\ WholeAt(s, target[s])
      BY <2>2, <2>3, GoneIsSpared DEF MoveSound, OriginSound
    <3> QED
      BY <1>0, <1>11, <3>1, PlaceSpares
  <2>4. \A x \in written' : x \in written \/ x.src = cur
    <3>1. \/ written' = written
          \/ PutTree(cur, target[cur])
          \/ PutLeaf(cur, next, target[cur], TRUE)
      BY <1>11 DEF Place, PlaceCanceled, PlaceFault, PlaceRoot, CloneRoot, CloneChecked, PlaceLeaf,
             SendLeaf, SendCanceled, PlaceDone, poolVars, diskVars
    <3> QED
      BY <3>1 DEF PutTree, PutLeaf, Written
  <2>5. OriginSound'
    <3>1. \A s \in Sources : origin[s] = "gone" =>
             s \in Named' /\ WholeAt(s, target[s])' /\ \A i \in k..Len(toCopy) : toCopy[i] # s
      BY <2>1, <2>3 DEF MoveSound, OriginSound, Named
    <3>2. \A s \in Sources : origin[s] # "partly"
      BY <2>1 DEF MoveSound, OriginSound, Walking
    <3>3. \A x \in written' : origin[x.src] = "gone" \/ x.src = cur
      BY <2>4 DEF MoveSound, OriginSound
    <3> QED
      BY <2>1, <2>2, <3>1, <3>2, <3>3 DEF MoveSound, OriginSound
  <2>6. ASSUME poolErr = "none", cur \notin srcDone, NEW s, s = cur, NEW i \in LeavesOf(s), i < next'
        PROVE  Covered(s, i)'
    <3>1. i < next => Covered(s, i)
      BY <2>2, <2>6 DEF MoveSound, CopySound
    <3> QED
      BY <1>0, <1>11, <2>2, <2>6, <3>1, PlaceCovers
  <2>7. CopySound'
    <3>1. SUFFICES ASSUME poolErr = "none", cur \notin srcDone
                   PROVE  (\A i \in LeavesOf(cur) : i < next => Covered(cur, i))'
      BY <2>1 DEF CopySound, Walking
    <3>2. PICK s : s = cur
      OBVIOUS
    <3>3. \A i \in LeavesOf(s) : i < next' => Covered(s, i)'
      BY <2>6, <3>1, <3>2
    <3>4. s = cur'
      BY <2>1, <3>2
    <3> QED
      BY <3>3, <3>4 DEF LeavesOf, Covered, WholeLeaf, InQueue, InHand
  <2> QED
    BY <2>5, <2>7 DEF MoveSound
<1>12. ASSUME NEW w \in Workers, Work(w) PROVE MoveSound'
  <2>1. WorkerStep(w) /\ roots \subseteq roots'
        /\ UNCHANGED <<pc, cur, next, target, ret, srcDone, status, origin, toCopy, k>>
    BY <1>0, <1>12, WorkFrame DEF Work, placeVars, frameVars, loopVars
  <2>2. poolErr' = "none" => poolErr = "none"
    BY <2>1 DEF WorkerStep, Take, Exit, OpenDest, WriteAll, FinishFile, WorkerCanceled, WorkerFault,
                Settle, Fail
  <2>3. /\ worker[w].at \in Busy => worker[w].job.src = cur /\ pc \in Live /\ cur \in Named
        /\ worker[w].at \notin Busy => UNCHANGED <<roots, written>>
    <3>1. worker[w].at \in Busy => worker[w].job.src = cur /\ pc \in Live
      BY DEF IInv, OneAtATime, Busy
    <3>2. worker[w].at \in Busy => worker[w].job.src \in Named
      BY <1>0 DEF CopierInv, JobsSound, Sound
    <3>3. worker[w].at \notin Busy => UNCHANGED <<roots, written>>
      BY <2>1 DEF WorkerStep, Take, Exit, OpenDest, WriteAll, FinishFile, WorkerCanceled, WorkerFault,
                  Settle, At, Busy, diskVars
    <3> QED
      BY <3>1, <3>2, <3>3
  <2>4. ASSUME NEW s \in Sources, origin[s] = "gone" PROVE WholeAt(s, target[s])'
    <3>1. s \in Named /\ WholeAt(s, target[s])
      BY <2>4 DEF MoveSound, OriginSound
    <3>2. worker[w].at \in Busy => worker[w].job.src # s
      BY <2>3, <2>4, GoneIsSpared DEF Copying
    <3> QED
      BY <1>0, <2>1, <3>1, <3>2, WorkSpares
  <2>5. \A x \in written' : x \in written \/ (x.src = cur /\ pc \in Live)
    <3>1. \/ UNCHANGED diskVars
          \/ \E whole \in BOOLEAN :
               PutLeaf(worker[w].job.src, worker[w].job.leaf, worker[w].job.to, whole) /\ worker[w].at \in Busy
      BY <2>1 DEF WorkerStep, Take, Exit, OpenDest, WriteAll, FinishFile, WorkerCanceled, WorkerFault,
             Settle, At, Busy
    <3> QED
      BY <2>3, <3>1 DEF PutLeaf, Written, diskVars
  <2>6. OriginSound'
    <3>1. \A s \in Sources : origin[s] = "gone" =>
             s \in Named' /\ WholeAt(s, target[s])' /\ \A i \in k..Len(toCopy) : toCopy[i] # s
      BY <2>1, <2>4 DEF MoveSound, OriginSound, Named
    <3>2. \A x \in written' : origin[x.src] = "gone" \/ (pc \in Copying /\ x.src = cur)
      BY <2>5 DEF MoveSound, OriginSound, Copying
    <3> QED
      BY <2>1, <3>1, <3>2 DEF MoveSound, OriginSound
  <2>7. ASSUME pc \in Live, poolErr' = "none", cur \notin srcDone,
               NEW s, s = cur, NEW i \in LeavesOf(s), i < next
        PROVE  Covered(s, i)'
    <3>1. Covered(s, i)
      BY <2>2, <2>7 DEF MoveSound, CopySound
    <3>2. s \in Named
      BY <1>0, <2>7 DEF IInv, LoopSound, Copying
    <3> QED
      BY <1>0, <2>1, <2>7, <3>1, <3>2, WorkCovers
  <2>8. CopySound'
    <3>1. PICK s : s = cur
      OBVIOUS
    <3>2. pc \in Live /\ poolErr' = "none" /\ cur \notin srcDone =>
             \A i \in LeavesOf(s) : i < next => Covered(s, i)'
      BY <2>7, <3>1
    <3>3. (pc \in Live /\ poolErr = "none" /\ cur \notin srcDone =>
             \A i \in LeavesOf(cur) : i < next => Covered(cur, i))'
      BY <2>1, <3>1, <3>2 DEF LeavesOf, Covered, WholeLeaf, InQueue, InHand
    <3>4. pc = "delete" => WholeAt(cur, target[cur])'
      <4>1. pc = "delete" => UNCHANGED <<roots, written>> /\ WholeAt(cur, target[cur])
        BY <2>3 DEF Live, Walking, MoveSound, CopySound
      <4> QED
        BY <2>1, <4>1 DEF WholeAt, LeavesOf
    <3> QED
      BY <2>1, <3>3, <3>4 DEF MoveSound, CopySound
  <2> QED
    BY <2>6, <2>8 DEF MoveSound
<1>13. CASE Cancel \/ (\E s \in Sources : CancelFile(s)) \/ UNCHANGED vars
  <2>1. /\ UNCHANGED <<queue, worker, poolErr, roots, written, status, pc, cur, next, target, ret,
                       origin, toCopy, k>>
        /\ srcDone \subseteq srcDone'
    BY <1>13 DEF Cancel, CancelJob, CancelFile, vars, copierVars, poolVars, ctxVars, doneVars, chanVars,
                 diskVars, rowVars, placeVars, frameVars, loopVars
  <2>2. OriginSound'
    BY <2>1 DEF MoveSound, OriginSound, WholeAt, LeavesOf, Named
  <2>3. ASSUME NEW i, Covered(cur, i) PROVE Covered(cur, i)'
    BY <2>1, <2>3 DEF Covered, WholeLeaf, Written, InQueue, InHand
  <2>4. CopySound'
    <3>1. pc \in Live /\ poolErr = "none" /\ cur \notin srcDone' =>
             \A i \in LeavesOf(cur) : i < next => Covered(cur, i)'
      BY <2>1, <2>3 DEF MoveSound, CopySound
    <3>2. pc = "delete" => WholeAt(cur, target[cur])'
      BY <2>1 DEF MoveSound, CopySound, WholeAt, LeavesOf
    <3> QED
      BY <2>1, <3>1, <3>2 DEF MoveSound, CopySound, LeavesOf
  <2> QED
    BY <2>2, <2>4 DEF MoveSound
<1> QED
  BY <1>1, <1>2, <1>3, <1>4, <1>5, <1>6, <1>7, <1>8, <1>9, <1>10, <1>11, <1>12, <1>13
  DEF Next, Caller, Loop, Returned

LEMMA InductiveMove == ASSUME DistinctBases PROVE Spec => [](IInv /\ MoveSound)
<1>1. Init => IInv /\ MoveSound
  BY InitIInv, InitMoveSound
<1>2. IInv /\ MoveSound /\ [Next]_vars => (IInv /\ MoveSound)'
  BY NextIInv, NextMoveSound
<1> QED
  BY <1>1, <1>2, PTL DEF Spec

-----------------------------------------------------------------------------
(***************************************************************************)
(* Results.                                                                 *)
(***************************************************************************)

\* Every variable of MoveCtx and of its copiers has its type, also with sources
\* of one base name.
THEOREM TypeCorrect == Spec => []TypeOK
<1>1. IInv => TypeOK
  BY DEF IInv
<1> QED
  BY <1>1, Inductive, PTL

\* UniquePath, removeCreatedOnErr: a move replaces and removes nothing that was
\* in the destination, also with sources of one base name.
THEOREM OthersStay == Spec => []OthersUntouched
<1>1. IInv => OthersUntouched
  BY DEF IInv, CopierInv, DiskIsOurs, NamesFresh, OthersUntouched
<1> QED
  BY <1>1, Inductive, PTL

\* MoveCtx: at every moment, also while copies fail or are cancelled and the
\* cleanup runs, each source is whole where it was or whole at its target,
\* unless Delete itself stopped halfway.
THEOREM NothingIsLost == ASSUME DistinctBases PROVE Spec => []NothingLost
<1>1. IInv /\ MoveSound => NothingLost
  BY DEF IInv, CopierInv, DiskIsOurs, NamesFresh, MoveSound, OriginSound, NothingLost, OthersUntouched
<1> QED
  BY <1>1, InductiveMove, PTL

\* MoveCtx: whatever it returns, no source is left half moved.
THEOREM NoneIsHalfMoved == ASSUME DistinctBases PROVE Spec => []NoHalfMove
<1>1. IInv /\ MoveSound => NoHalfMove
  <2> SUFFICES ASSUME IInv, MoveSound, Ended, NEW s \in Sources
               PROVE  Untouched(s) \/ Moved(s) \/ origin[s] = "partly"
    BY DEF NoHalfMove
  <2>1. origin[s] \in {"whole", "partly", "gone"} /\ pc = "returned"
    BY DEF IInv, TypeOK, Ended
  <2>2. origin[s] = "gone" => Moved(s)
    BY DEF MoveSound, OriginSound, Moved
  <2>3. \A x \in written : origin[x.src] = "gone"
    BY <2>1 DEF MoveSound, OriginSound, Copying, Live, Walking
  <2> QED
    BY <2>1, <2>2, <2>3 DEF Untouched
<1> QED
  BY <1>1, InductiveMove, PTL

\* setRootStatus: when the call has returned, the rows shown as done are those
\* of the sources that moved.
THEOREM RowsTellWhatMoved == ASSUME DistinctBases PROVE Spec => []DoneIsMoved
<1>1. IInv /\ MoveSound => DoneIsMoved
  BY DEF MoveSound, OriginSound, DoneIsMoved, Moved
<1> QED
  BY <1>1, InductiveMove, PTL
=============================================================================
