---------------------------- MODULE CopierProofs -----------------------------
(***************************************************************************)
(* Facts about the steps of Copier that the proofs of CopyEngine and        *)
(* MoveEngine share, for every set of workers and any sources: UniquePath   *)
(* finds a name nobody has, files go below the name of their source only,   *)
(* and no file of a source that nobody cancelled gets lost on its way        *)
(* through the channel unless the copier has failed.                        *)
(***************************************************************************)
EXTENDS Copier, TLAPS, FiniteSetTheorems, SequenceTheorems

\* The sources that were given a name.
Named == {s \in Sources : target[s] # NoTarget}

Walking == {"place", "cloned", "leaf", "send"}
Busy == {"start", "open", "whole", "failed"}

\* A name is one of its source's base, and was nobody's before the call.
NamesFresh ==
  \A s \in Named : target[s] \in Targets \ Taken /\ target[s][1] = Base[s]

\* What the destination holds besides what was there belongs to a named source.
DiskIsOurs ==
  /\ Taken \subseteq roots /\ \A t \in roots \ Taken : \E s \in Named : t = target[s]
  /\ \A x \in written : /\ x.src \in Named /\ x.to = target[x.src]
                        /\ x.to \in roots /\ x.leaf \in LeavesOf(x.src)

\* A job is for a leaf of a named source, and goes below its name.
Sound(j) == j.src \in Named /\ j.to = target[j.src] /\ j.leaf \in LeavesOf(j.src)
JobsSound ==
  /\ \A i \in 1..Len(queue) : Sound(queue[i])
  /\ \A w \in Workers : worker[w].at \in Busy => Sound(worker[w].job)

\* Where the caller is, the source it places has a name and the channel is open;
\* what it is about to send is a leaf of it.
CallerSound ==
  /\ pc \in Walking \cup {"placed"} => cur \in Named /\ ~closed
  /\ pc = "send" => next \in LeavesOf(cur)

\* When place has returned nil, or a directory was cloned, every leaf of the
\* source was passed, and a directory is there; it returns ctx.Err() only under
\* a context that is done.
PlacedSound ==
  /\ pc = "cloned" \/ (pc = "placed" /\ ret = "none") => next > Len(Leaves[cur])
  /\ (pc \in {"cloned", "leaf", "send"} \/ (pc = "placed" /\ ret = "none")) /\ cur \in Dirs
       => target[cur] \in roots
  /\ pc = "placed" /\ ret = "canceled" => SrcDone(cur)

\* A worker that failed has an error to settle.
FailedHasError == \A w \in Workers : worker[w].at = "failed" => worker[w].err # "none"

\* A worker leaves a closed and drained channel only.
ExitsDrained == \A w \in Workers : worker[w].at = "exited" => closed /\ queue = <<>>

CopierInv ==
  /\ CopierTypeOK /\ NamesFresh /\ DiskIsOurs /\ JobsSound /\ CallerSound /\ PlacedSound
  /\ FailedHasError /\ ExitsDrained

-----------------------------------------------------------------------------
\* A nonempty set of numbers has a least one.
LEMMA LeastExists ==
  ASSUME NEW T, T \subseteq Nat, T # {}
  PROVE  \E x \in T : \A y \in T : x <= y
<1> DEFINE R == {ss \in Nat \X Nat : ss[1] < ss[2]}
<1>1. IsWellFoundedOn(R, Nat)
  BY NatLessThanWellFounded DEF OpToRel
<1>2. PICK x \in T : \A y \in T : ~(<<y, x>> \in R)
  BY <1>1, WFMin
<1>3. ASSUME NEW y \in T PROVE x <= y
  <2>1. x \in Nat /\ y \in Nat
    OBVIOUS
  <2>2. <<y, x>> \in Nat \X Nat /\ <<y, x>>[1] = y /\ <<y, x>>[2] = x
    BY <2>1
  <2>3. ~(y < x)
    BY <1>2, <2>2
  <2> QED
    BY <2>1, <2>3
<1> QED
  BY <1>3

\* An image of a finite set is finite and no larger.
LEMMA ImageFinite ==
  ASSUME NEW S, IsFiniteSet(S), NEW f, DOMAIN f = S, f = [x \in S |-> f[x]]
  PROVE  LET T == {f[x] : x \in S}
         IN  IsFiniteSet(T) /\ Cardinality(T) <= Cardinality(S) /\ Cardinality(T) \in Nat
<1> DEFINE T == {f[x] : x \in S}
<1>1. f \in Surjection(S, T)
  BY DEF Surjection
<1> QED
  BY <1>1, FS_Surjection, FS_CardinalityType

\* With fewer names given than there are sources, one of the first suffixes is
\* free: UniquePath returns a name of its base that does not exist.
LEMMA FreeName ==
  ASSUME PoolAssumption, NEW b \in Bases, DiskIsOurs, NEW s \in Sources, s \notin Named
  PROVE  UniquePath(b) \in Targets \ roots /\ UniquePath(b)[1] = b
<1> USE PoolAssumption
<1> DEFINE free == {k \in 0..MaxSuffix : <<b, k>> \notin roots}
           given == {target[q] : q \in Named}
           used == {t[2] : t \in Taken \cup given}
<1>1. IsFiniteSet(Sources) /\ Cardinality(Sources) = NumSources
  BY FS_Interval DEF Sources
<1>2. IsFiniteSet(Named) /\ Cardinality(Named) <= NumSources - 1 /\ Cardinality(Named) \in Nat
  <2>1. Named \subseteq Sources \ {s}
    BY DEF Named
  <2>2. IsFiniteSet(Sources \ {s}) /\ Cardinality(Sources \ {s}) = NumSources - 1
    BY <1>1, FS_RemoveElement
  <2> QED
    BY <2>1, <2>2, FS_Subset, FS_CardinalityType
<1>3. IsFiniteSet(given) /\ Cardinality(given) <= Cardinality(Named) /\ Cardinality(given) \in Nat
  <2> DEFINE f == [q \in Named |-> target[q]]
  <2>1. DOMAIN f = Named /\ f = [q \in Named |-> f[q]] /\ given = {f[q] : q \in Named}
    OBVIOUS
  <2> HIDE DEF f, given
  <2> QED
    BY <1>2, <2>1, ImageFinite
<1>4. IsFiniteSet(Taken \cup given) /\ Cardinality(Taken \cup given) <= Cardinality(Taken) + NumSources - 1
      /\ Cardinality(Taken \cup given) \in Nat /\ Cardinality(Taken) \in Nat
  <2> HIDE DEF given
  <2>1. IsFiniteSet(Taken) /\ Cardinality(Taken) \in Nat /\ NumSources \in Nat
    BY FS_CardinalityType DEF PoolAssumption
  <2>2. IsFiniteSet(Taken \cap given)
    BY <2>1, FS_Intersection
  <2>3. Cardinality(Taken \cap given) \in Nat
    BY <2>2, FS_CardinalityType
  <2>4. /\ IsFiniteSet(Taken \cup given)
        /\ Cardinality(Taken \cup given)
             = Cardinality(Taken) + Cardinality(given) - Cardinality(Taken \cap given)
    BY <1>3, <2>1, FS_Union
  <2> QED
    BY <1>2, <1>3, <2>1, <2>3, <2>4, FS_CardinalityType
<1>5. IsFiniteSet(used) /\ Cardinality(used) <= Cardinality(Taken \cup given) /\ Cardinality(used) \in Nat
  <2> DEFINE U == Taken \cup given
             f == [t \in U |-> t[2]]
  <2>1. DOMAIN f = U /\ f = [t \in U |-> f[t]] /\ used = {f[t] : t \in U}
    OBVIOUS
  <2>2. IsFiniteSet(U)
    BY <1>4
  <2> HIDE DEF f, used
  <2>3. IsFiniteSet(used) /\ Cardinality(used) <= Cardinality(U) /\ Cardinality(used) \in Nat
    <3> HIDE DEF U
    <3> QED
      BY <2>1, <2>2, ImageFinite
  <2> QED
    BY <2>3
<1>6. free # {}
  <2> SUFFICES ASSUME free = {} PROVE FALSE
    OBVIOUS
  <2>1. 0..MaxSuffix \subseteq used
    <3> SUFFICES ASSUME NEW k \in 0..MaxSuffix PROVE k \in used
      OBVIOUS
    <3>1. <<b, k>> \in roots
      OBVIOUS
    <3>2. <<b, k>> \in Taken \cup given
      BY <3>1 DEF DiskIsOurs
    <3> QED
      BY <3>2
  <2>2. Cardinality(0..MaxSuffix) = Cardinality(Taken) + NumSources + 1
    BY <1>4, FS_Interval DEF MaxSuffix, PoolAssumption
  <2>3. Cardinality(0..MaxSuffix) <= Cardinality(used)
    BY <1>5, <2>1, FS_Subset
  <2> QED
    BY <1>4, <1>5, <2>2, <2>3 DEF PoolAssumption
<1>7. \E k \in free : \A j \in free : k <= j
  <2>1. free \subseteq Nat
    BY <1>4 DEF MaxSuffix, PoolAssumption
  <2> QED
    BY <1>6, <2>1, LeastExists
<1> DEFINE m == CHOOSE k \in free : \A j \in free : k <= j
<1>8. m \in free
  BY <1>7
<1>9. UniquePath(b) = <<b, m>>
  BY DEF UniquePath
<1>10. m \in Nat /\ <<b, m>> \notin roots
  BY <1>4, <1>8 DEF MaxSuffix, PoolAssumption
<1> HIDE DEF m
<1> QED
  BY <1>9, <1>10 DEF Targets

-----------------------------------------------------------------------------
(***************************************************************************)
(* What the disk operations do to a destination that is ours.               *)
(***************************************************************************)
WrittenType == [src : Sources, leaf : Nat \ {0}, to : Targets, whole : BOOLEAN]

LEMMA PutLeafKeeps ==
  ASSUME CopierInv, NEW s, NEW leaf, NEW to, NEW whole \in BOOLEAN,
         s \in Named, to = target[s], leaf \in LeavesOf(s),
         PutLeaf(s, leaf, to, whole), UNCHANGED target
  PROVE  DiskIsOurs' /\ roots' \subseteq Targets /\ written' \subseteq WrittenType
<1> USE DEF CopierInv, DiskIsOurs, NamesFresh
<1>1. to \in Targets \ Taken /\ Named' = Named /\ s \in Sources /\ leaf \in Nat \ {0}
  BY DEF Named, LeavesOf
<1>2. roots' = roots \cup {to}
  BY DEF PutLeaf
<1>3. \A x \in written' : x \in written \/ x = Written(s, leaf, to, whole)
  BY DEF PutLeaf
<1>4. Written(s, leaf, to, whole) \in WrittenType
  BY <1>1 DEF Written, WrittenType
<1>5. written \subseteq WrittenType /\ roots \subseteq Targets
  BY DEF CopierTypeOK, WrittenType
<1>6. written' \subseteq WrittenType /\ roots' \subseteq Targets
  BY <1>1, <1>2, <1>3, <1>4, <1>5
<1>7. Taken \subseteq roots' /\ \A t \in roots' \ Taken : \E q \in Named : t = target[q]
  BY <1>2
<1>8. ASSUME NEW x \in written'
      PROVE  x.src \in Named /\ x.to = target[x.src] /\ x.to \in roots' /\ x.leaf \in LeavesOf(x.src)
  <2>1. CASE x \in written
    BY <1>2, <2>1
  <2>2. CASE x = Written(s, leaf, to, whole)
    BY <1>2, <2>2 DEF Written
  <2> QED
    BY <1>3, <2>1, <2>2
<1> QED
  BY <1>1, <1>6, <1>7, <1>8 DEF LeavesOf

LEMMA PutTreeKeeps ==
  ASSUME CopierInv, NEW s \in Named, NEW to, to = target[s], PutTree(s, to), UNCHANGED target
  PROVE  DiskIsOurs' /\ roots' \subseteq Targets /\ written' \subseteq WrittenType
<1> USE DEF CopierInv, DiskIsOurs, NamesFresh
<1>1. to \in Targets \ Taken /\ Named' = Named /\ s \in Sources
  BY DEF Named
<1>2. roots' = roots \cup {to}
  BY DEF PutTree
<1>3. \A x \in written' : x \in written \/ \E i \in LeavesOf(s) : x = Written(s, i, to, TRUE)
  BY DEF PutTree
<1>4. \A i \in LeavesOf(s) : Written(s, i, to, TRUE) \in WrittenType
  BY <1>1 DEF Written, WrittenType, LeavesOf
<1>5. written \subseteq WrittenType /\ roots \subseteq Targets
  BY DEF CopierTypeOK, WrittenType
<1>6. written' \subseteq WrittenType /\ roots' \subseteq Targets
  BY <1>1, <1>2, <1>3, <1>4, <1>5
<1>7. Taken \subseteq roots' /\ \A t \in roots' \ Taken : \E q \in Named : t = target[q]
  BY <1>2
<1>8. ASSUME NEW x \in written'
      PROVE  x.src \in Named /\ x.to = target[x.src] /\ x.to \in roots' /\ x.leaf \in LeavesOf(x.src)
  <2>1. CASE x \in written
    BY <1>2, <2>1
  <2>2. ASSUME NEW i \in LeavesOf(s), x = Written(s, i, to, TRUE)
        PROVE  x.src \in Named /\ x.to = target[x.src] /\ x.to \in roots' /\ x.leaf \in LeavesOf(x.src)
    BY <1>2, <2>2 DEF Written
  <2> QED
    BY <1>3, <2>1, <2>2
<1> QED
  BY <1>1, <1>6, <1>7, <1>8 DEF LeavesOf

\* A cleanup of names that were given.
LEMMA RemoveAllKeeps ==
  ASSUME CopierInv, NEW T, T \cap Taken = {}, RemoveAll(T), UNCHANGED target
  PROVE  DiskIsOurs' /\ roots' \subseteq Targets /\ written' \subseteq WrittenType
<1> USE DEF CopierInv, DiskIsOurs
<1>1. Named' = Named /\ roots' = roots \ T /\ written' = {x \in written : x.to \notin T}
  BY DEF Named, RemoveAll
<1>2. written \subseteq WrittenType /\ roots \subseteq Targets
  BY DEF CopierTypeOK, WrittenType
<1>3. Taken \subseteq roots' /\ \A t \in roots' \ Taken : \E q \in Named : t = target[q]
  BY <1>1
<1>4. \A x \in written' : /\ x.src \in Named /\ x.to = target[x.src]
                          /\ x.to \in roots' /\ x.leaf \in LeavesOf(x.src)
  BY <1>1
<1> QED
  BY <1>1, <1>2, <1>3, <1>4 DEF LeavesOf

-----------------------------------------------------------------------------
(***************************************************************************)
(* Placing and working keep the shared invariant.                           *)
(***************************************************************************)

\* What neither disk nor channel need is kept by a step of the caller that
\* leaves names and workers alone.
LEMMA CallerFrame ==
  ASSUME PoolAssumption, CopierInv, UNCHANGED <<closed, worker, target>>
  PROVE  /\ NamesFresh' /\ Named' = Named /\ FailedHasError'
         /\ (queue' = queue => JobsSound' /\ ExitsDrained')
         /\ (UNCHANGED diskVars => DiskIsOurs')
BY DEF CopierInv, NamesFresh, Named, FailedHasError, JobsSound, Sound, ExitsDrained, LeavesOf, DiskIsOurs, diskVars

LEMMA PlaceKeeps == ASSUME PoolAssumption, CopierInv, Place PROVE CopierInv'
<1> USE PoolAssumption
<1>0. /\ UNCHANGED <<closed, worker, target>> /\ NamesFresh' /\ Named' = Named
      /\ FailedHasError'
      /\ (queue' = queue => JobsSound' /\ ExitsDrained')
      /\ (UNCHANGED diskVars => DiskIsOurs')
  <2>1. UNCHANGED <<closed, worker, target>>
    BY DEF Place, PlaceCanceled, PlaceFault, PlaceRoot, CloneRoot, CloneChecked, PlaceLeaf,
           SendLeaf, SendCanceled, PlaceDone, Return, poolVars, chanVars
  <2> QED
    BY <2>1, CallerFrame
<1>t. cur \in Sources /\ Leaves[cur] \in Seq({"file", "link"}) /\ Len(Leaves[cur]) \in Nat
      /\ pc \in Walking /\ cur \in Named /\ ~closed
  <2>1. pc \in Walking
    BY DEF Place, PlaceCanceled, PlaceFault, PlaceRoot, CloneRoot, CloneChecked, PlaceLeaf,
           SendLeaf, SendCanceled, PlaceDone, Placing, Walking
  <2>2. cur \in Named /\ ~closed
    BY <2>1 DEF CopierInv, CallerSound
  <2> QED
    BY <2>1, <2>2 DEF Named, PoolAssumption
<1>1. ASSUME UNCHANGED poolVars, ret' \in {"none", "canceled", "error"}, pc' = "placed",
             UNCHANGED <<cur, next>>, PlacedSound'
      PROVE  CopierInv'
  <2>1. CopierTypeOK'
    BY <1>0, <1>1 DEF CopierInv, CopierTypeOK, poolVars, ctxVars, doneVars, chanVars, diskVars, rowVars
  <2>2. CallerSound'
    BY <1>0, <1>1, <1>t DEF CallerSound, Walking
  <2> QED
    BY <1>0, <1>1, <2>1, <2>2 DEF CopierInv, poolVars, chanVars
<1>2. CASE PlaceCanceled \/ CloneChecked \/ SendCanceled \/ PlaceDone
  <2>1. SrcDone(cur)' <=> SrcDone(cur)
    BY <1>2 DEF SrcDone, CtxDone, PlaceCanceled, CloneChecked, SendCanceled, PlaceDone, Return,
                poolVars, ctxVars, doneVars
  <2>2. PlacedSound'
    BY <1>0, <1>2, <2>1 DEF CopierInv, PlacedSound, PlaceCanceled, CloneChecked, SendCanceled,
                            PlaceDone, Return, poolVars, diskVars
  <2> QED
    BY <1>1, <1>2, <2>2 DEF PlaceCanceled, CloneChecked, SendCanceled, PlaceDone, Return
<1>3. CASE PlaceFault
  <2>1. CopierTypeOK'
    BY <1>0, <1>3 DEF CopierInv, CopierTypeOK, PlaceFault, Return, ctxVars, doneVars, chanVars, diskVars
  <2>2. CallerSound'
    BY <1>0, <1>3, <1>t DEF CallerSound, Walking, PlaceFault, Return
  <2> QED
    BY <1>0, <1>3, <2>1, <2>2 DEF CopierInv, PlacedSound, PlaceFault, Return, chanVars
<1>4. CASE PlaceRoot
  <2>1. UNCHANGED <<queue, written>> /\ (UNCHANGED roots \/ roots' = roots \cup {target[cur]})
    BY <1>4 DEF PlaceRoot, chanVars
  <2>2. target[cur] \in Targets
    BY <1>t DEF CopierInv, NamesFresh
  <2>3. DiskIsOurs'
    BY <1>0, <1>t, <2>1 DEF CopierInv, DiskIsOurs, LeavesOf
  <2>4. CopierTypeOK'
    BY <1>0, <1>4, <2>1, <2>2 DEF CopierInv, CopierTypeOK, PlaceRoot, ctxVars, doneVars, chanVars, rowVars
  <2>5. CallerSound'
    BY <1>0, <1>4, <1>t DEF CallerSound, Walking, PlaceRoot
  <2> QED
    BY <1>0, <1>4, <2>1, <2>3, <2>4, <2>5 DEF CopierInv, PlacedSound, PlaceRoot
<1>5. CASE CloneRoot
  <2>1. DiskIsOurs' /\ roots' \subseteq Targets /\ written' \subseteq WrittenType
    BY <1>0, <1>5, <1>t, PutTreeKeeps DEF CloneRoot
  <2>2. CopierTypeOK'
    BY <1>0, <1>5, <1>t, <2>1 DEF CopierInv, CopierTypeOK, WrittenType, CloneRoot, ctxVars, doneVars,
                                 chanVars, rowVars
  <2>3. CallerSound'
    BY <1>0, <1>5, <1>t DEF CallerSound, Walking, CloneRoot
  <2> QED
    BY <1>0, <1>5, <1>t, <2>1, <2>2, <2>3 DEF CopierInv, PlacedSound, CloneRoot, PutTree, chanVars
<1>6. CASE PlaceLeaf
  <2>1. next \in LeavesOf(cur) /\ next \in Nat \ {0} /\ UNCHANGED <<queue, cur>>
    BY <1>6, <1>t DEF PlaceLeaf, LeavesOf, chanVars
  <2>2. DiskIsOurs' /\ roots' \subseteq Targets /\ written' \subseteq WrittenType
    <3>1. CASE Leaves[cur][next] = "link"
      BY <1>0, <1>6, <1>t, <2>1, <3>1, PutLeafKeeps DEF PlaceLeaf
    <3>2. CASE ~(Leaves[cur][next] = "link")
      BY <1>0, <1>6, <3>2 DEF PlaceLeaf, diskVars, CopierInv, CopierTypeOK, WrittenType
    <3> QED
      BY <3>1, <3>2
  <2>3. (next' = next \/ next' = next + 1) /\ (pc' = "send" => next' = next) /\ pc' \in Walking
    BY <1>6 DEF PlaceLeaf, Walking
  <2>4. CopierTypeOK'
    BY <1>0, <1>6, <2>1, <2>2, <2>3 DEF CopierInv, CopierTypeOK, WrittenType, PlaceLeaf, ctxVars,
                                       doneVars, chanVars, rowVars
  <2>5. CallerSound'
    BY <1>0, <1>t, <2>1, <2>3 DEF CallerSound, LeavesOf, Walking
  <2> QED
    <3>1. pc = "leaf" /\ pc' \in {"leaf", "send"} /\ roots \subseteq roots'
      BY <1>6 DEF PlaceLeaf, PutLeaf, diskVars
    <3>2. PlacedSound'
      BY <1>0, <2>1, <3>1 DEF CopierInv, PlacedSound
    <3> QED
      BY <1>0, <2>1, <2>2, <2>4, <2>5, <3>2 DEF CopierInv
<1>7. CASE SendLeaf
  <2> DEFINE j == [src |-> cur, leaf |-> next, to |-> target[cur]]
  <2>1. Sound(j) /\ j \in Job
    BY <1>7, <1>t DEF SendLeaf, CopierInv, CallerSound, Sound, Job, LeavesOf, NamesFresh, Named
  <2>2. queue \in Seq(Job) /\ Len(queue) < Cap /\ queue' = Append(queue, j)
    BY <1>7 DEF SendLeaf, Send, CopierInv, CopierTypeOK
  <2> HIDE DEF j
  <2>3. /\ queue' \in Seq(Job) /\ Len(queue') = Len(queue) + 1 /\ Len(queue) \in Nat
        /\ \A i \in 1..Len(queue') : queue'[i] = IF i = Len(queue) + 1 THEN j ELSE queue[i]
    BY <2>1, <2>2, AppendProperties
  <2>4. Cap \in Nat
    BY FS_CardinalityType DEF Cap, PoolAssumption
  <2>5. JobsSound' /\ ExitsDrained'
    <3>1. \A q : Sound(q)' <=> Sound(q)
      BY <1>0 DEF Sound, LeavesOf
    <3>2. \A i \in 1..Len(queue') : Sound(queue'[i])
      BY <2>1, <2>3 DEF CopierInv, JobsSound
    <3> QED
      BY <1>0, <1>t, <3>1, <3>2 DEF CopierInv, JobsSound, ExitsDrained
  <2>6. CopierTypeOK'
    BY <1>0, <1>7, <2>2, <2>3, <2>4 DEF CopierInv, CopierTypeOK, SendLeaf, ctxVars, doneVars,
                                       diskVars, rowVars
  <2>7. CallerSound'
    BY <1>0, <1>7, <1>t DEF CallerSound, Walking, SendLeaf
  <2> QED
    BY <1>0, <1>7, <2>5, <2>6, <2>7 DEF CopierInv, PlacedSound, SendLeaf, diskVars
<1> QED
  BY <1>2, <1>3, <1>4, <1>5, <1>6, <1>7 DEF Place

\* A worker's step leaves the caller alone, and undoes no cancellation.
LEMMA WorkFrame ==
  ASSUME CopierInv, NEW w \in Workers, WorkerStep(w)
  PROVE  /\ UNCHANGED <<placeVars, closed, registry, status, jobCanceled, srcDone>> /\ Named' = Named
         /\ poolDone => poolDone'
         /\ roots \subseteq roots'
         /\ \A j : Sound(j)' <=> Sound(j)
<1>1. UNCHANGED <<placeVars, closed, registry, status, jobCanceled, srcDone>>
  BY DEF WorkerStep, Take, Exit, OpenDest, WriteAll, FinishFile, WorkerCanceled, WorkerFault,
         Settle, Fail, ctxVars, doneVars, rowVars
<1>2. poolDone => poolDone'
  BY DEF WorkerStep, Take, Exit, OpenDest, WriteAll, FinishFile, WorkerCanceled, WorkerFault,
         Settle, Fail, ctxVars, doneVars
<1>3. roots \subseteq roots'
  BY DEF WorkerStep, Take, Exit, OpenDest, WriteAll, FinishFile, WorkerCanceled, WorkerFault,
         Settle, PutLeaf, diskVars
<1> QED
  BY <1>1, <1>2, <1>3 DEF Named, Sound, LeavesOf, placeVars, frameVars

LEMMA WorkKeeps ==
  ASSUME PoolAssumption, CopierInv, NEW w \in Workers, WorkerStep(w)
  PROVE  CopierInv'
<1> USE PoolAssumption
<1>0. /\ UNCHANGED <<pc, cur, next, target, ret, closed, registry, status, jobCanceled, srcDone>>
      /\ Named' = Named /\ (poolDone => poolDone') /\ roots \subseteq roots'
      /\ \A j : Sound(j)' <=> Sound(j)
  BY WorkFrame DEF placeVars, frameVars
<1>1. NamesFresh' /\ CallerSound' /\ PlacedSound'
  <2>1. NamesFresh' /\ CallerSound'
    BY <1>0 DEF CopierInv, NamesFresh, CallerSound, LeavesOf
  <2>2. SrcDone(cur) => SrcDone(cur)'
    BY <1>0 DEF SrcDone, CtxDone
  <2> QED
    BY <1>0, <2>1, <2>2 DEF CopierInv, PlacedSound
<1>2. worker[w] \in Frame /\ worker \in [Workers -> Frame] /\ queue \in Seq(Job)
  BY DEF CopierInv, CopierTypeOK
<1>w. ASSUME NEW f \in Frame, worker' = [worker EXCEPT ![w] = f],
             (f.job = NoJob) <=> (f.at \in {"idle", "exited"}),
             f.at \in Busy => Sound(f.job), f.at = "failed" => f.err # "none",
             f.at = "exited" => closed /\ queue = <<>>,
             queue' = queue \/ (queue # <<>> /\ queue' = Tail(queue)),
             poolErr' \in {"none", "canceled", "error"}, poolDone' \in BOOLEAN, faults' \in BOOLEAN,
             DiskIsOurs', roots' \subseteq Targets, written' \subseteq WrittenType
      PROVE  CopierInv'
  <2>1. /\ queue' \in Seq(Job) /\ Len(queue') <= Len(queue) /\ Len(queue') \in Nat
        /\ Len(queue) \in Nat /\ (queue = <<>> => queue' = <<>>)
        /\ \A i \in 1..Len(queue') : \E n \in 1..Len(queue) : queue'[i] = queue[n]
    <3>1. CASE queue' = queue
      BY <1>2, <3>1
    <3>2. CASE queue # <<>> /\ queue' = Tail(queue)
      BY <1>2, <3>2, HeadTailProperties
    <3> QED
      BY <1>w, <3>1, <3>2
  <2>2. worker' \in [Workers -> Frame] /\ \A v \in Workers : worker'[v] = IF v = w THEN f ELSE worker[v]
    BY <1>2, <1>w
  <2>3. CopierTypeOK'
    <3>1. Cap \in Nat
      BY FS_CardinalityType DEF Cap, PoolAssumption
    <3>2. \A v \in Workers : (worker'[v].job = NoJob) <=> (worker'[v].at \in {"idle", "exited"})
      BY <1>w, <2>2 DEF CopierInv, CopierTypeOK
    <3>3. queue' \in Seq(Job) /\ Len(queue') <= Cap
      BY <2>1, <3>1 DEF CopierInv, CopierTypeOK
    <3> QED
      BY <1>0, <1>w, <2>2, <3>2, <3>3 DEF CopierInv, CopierTypeOK, WrittenType
  <2>4. JobsSound'
    BY <1>0, <1>w, <2>1, <2>2 DEF CopierInv, JobsSound
  <2>5. FailedHasError' /\ ExitsDrained'
    BY <1>0, <1>w, <2>1, <2>2 DEF CopierInv, FailedHasError, ExitsDrained
  <2> QED
    BY <1>1, <1>w, <2>3, <2>4, <2>5 DEF CopierInv
<1>d. UNCHANGED diskVars => DiskIsOurs' /\ roots' \subseteq Targets /\ written' \subseteq WrittenType
  BY <1>0 DEF CopierInv, CopierTypeOK, DiskIsOurs, WrittenType, diskVars, LeavesOf
<1>e. /\ poolErr \in {"none", "canceled", "error"} /\ poolDone \in BOOLEAN /\ faults \in BOOLEAN
      /\ (worker[w].job = NoJob) <=> (worker[w].at \in {"idle", "exited"})
  BY DEF CopierInv, CopierTypeOK
<1>s. worker[w].at \in Busy => Sound(worker[w].job)
  BY DEF CopierInv, JobsSound
<1>3. CASE Take(w)
  <2> DEFINE f == [worker[w] EXCEPT !.at = "start", !.job = Head(queue)]
  <2>1. queue # <<>> /\ queue' = Tail(queue) /\ Head(queue) \in Job /\ Head(queue) = queue[1]
        /\ 1 \in 1..Len(queue)
    BY <1>3, <1>2, HeadTailProperties, EmptySeq DEF Take
  <2>2. Sound(Head(queue)) /\ Head(queue) # NoJob
    BY <2>1 DEF CopierInv, JobsSound, Job, NoJob, Sources
  <2>3. f \in Frame /\ f.at = "start" /\ f.job = Head(queue)
    BY <1>2, <2>1 DEF Frame
  <2>4. worker' = [worker EXCEPT ![w] = f]
    BY <1>2, <1>3 DEF Take
  <2>5. UNCHANGED <<poolErr, poolDone, faults, diskVars>>
    BY <1>3 DEF Take, ctxVars, doneVars, rowVars
  <2> HIDE DEF f
  <2> QED
    BY <1>w, <1>d, <1>e, <2>1, <2>2, <2>3, <2>4, <2>5
<1>4. CASE Exit(w)
  <2> DEFINE f == [worker[w] EXCEPT !.at = "exited"]
  <2>1. f \in Frame /\ f.at = "exited" /\ f.job = worker[w].job
    BY <1>2 DEF Frame
  <2>2. worker' = [worker EXCEPT ![w] = f] /\ worker[w].at = "idle" /\ closed /\ queue = <<>>
    BY <1>2, <1>4 DEF Exit, Goto, At
  <2>3. UNCHANGED <<queue, poolErr, poolDone, faults, diskVars>>
    BY <1>4 DEF Exit, ctxVars, doneVars, rowVars
  <2> HIDE DEF f
  <2> QED
    BY <1>w, <1>d, <1>e, <2>1, <2>2, <2>3 DEF Busy
<1>5. CASE WorkerFault(w) \/ WorkerCanceled(w)
  <2>0. PICK e \in {"canceled", "error"} : Fails(w, e)
    BY <1>5 DEF WorkerFault, WorkerCanceled
  <2> DEFINE f == [worker[w] EXCEPT !.at = "failed", !.err = e]
  <2>1. f \in Frame /\ f.at = "failed" /\ f.err = e /\ f.job = worker[w].job
    BY <1>2 DEF Frame
  <2>2. worker' = [worker EXCEPT ![w] = f]
    BY <1>2, <2>0 DEF Fails
  <2>3. worker[w].at \in {"start", "open", "whole"} /\ faults' \in BOOLEAN
        /\ UNCHANGED <<queue, poolErr, poolDone, diskVars>>
    BY <1>5, <1>e DEF WorkerFault, WorkerCanceled, At, ctxVars, doneVars, rowVars
  <2> HIDE DEF f
  <2> QED
    BY <1>w, <1>d, <1>e, <1>s, <2>1, <2>2, <2>3 DEF Busy
<1>6. CASE OpenDest(w) \/ WriteAll(w)
  <2> DEFINE j == worker[w].job
  <2>0. PICK a \in {"open", "whole"}, b \in BOOLEAN :
          Goto(w, a) /\ PutLeaf(j.src, j.leaf, j.to, b)
    BY <1>6 DEF OpenDest, WriteAll
  <2> DEFINE f == [worker[w] EXCEPT !.at = a]
  <2>1. f \in Frame /\ f.at = a /\ f.job = worker[w].job
    BY <1>2 DEF Frame
  <2>2. worker' = [worker EXCEPT ![w] = f]
    BY <1>2, <2>0 DEF Goto
  <2>3. worker[w].at \in {"start", "open"} /\ UNCHANGED <<queue, poolErr, poolDone, faults>>
    BY <1>6 DEF OpenDest, WriteAll, At, ctxVars, doneVars, rowVars
  <2>4. DiskIsOurs' /\ roots' \subseteq Targets /\ written' \subseteq WrittenType
    BY <1>0, <1>s, <2>0, <2>3, PutLeafKeeps DEF Busy, Sound
  <2> HIDE DEF f
  <2> QED
    BY <1>w, <1>e, <1>s, <2>1, <2>2, <2>3, <2>4 DEF Busy
<1>7. CASE FinishFile(w) \/ Settle(w)
  <2>1. Idle \in Frame /\ Idle.at = "idle" /\ Idle.job = NoJob /\ worker' = [worker EXCEPT ![w] = Idle]
    BY <1>7 DEF FinishFile, Settle, Idle, Frame
  <2>2. UNCHANGED <<queue, faults, diskVars>> /\ poolDone' \in BOOLEAN
    BY <1>7, <1>e DEF FinishFile, Settle, Fail, rowVars, ctxVars, doneVars
  <2>3. poolErr' \in {"none", "canceled", "error"}
    <3>1. worker[w].err \in {"none", "canceled", "error"}
      BY <1>2 DEF Frame
    <3> QED
      BY <1>7, <1>e, <3>1 DEF FinishFile, Settle, Fail
  <2> QED
    BY <1>w, <1>d, <1>e, <2>1, <2>2, <2>3 DEF Busy
<1> QED
  BY <1>3, <1>4, <1>5, <1>6, <1>7 DEF WorkerStep

-----------------------------------------------------------------------------
(***************************************************************************)
(* No leaf gets lost: once passed, it is whole on disk, in the channel, or   *)
(* in the hands of a worker, unless its source was cancelled or the copier  *)
(* has failed.  That needs sources with different base names (the condition  *)
(* of the finding about twins).                                             *)
(***************************************************************************)
DistinctBases == \A s, q \in Sources : Base[s] = Base[q] => s = q

WholeLeaf(s, i) == Written(s, i, target[s], TRUE) \in written
InQueue(s, i) == \E n \in 1..Len(queue) : queue[n].src = s /\ queue[n].leaf = i
InHand(s, i) ==
  \E w \in Workers : /\ worker[w].at \in {"start", "open", "failed"}
                     /\ worker[w].job.src = s /\ worker[w].job.leaf = i
Covered(s, i) == WholeLeaf(s, i) \/ InQueue(s, i) \/ InHand(s, i)

\* What covers the leaves of a source whose name stays.
LEMMA CoveredFrame ==
  ASSUME NEW s, UNCHANGED <<queue, worker, written>>, target'[s] = target[s]
  PROVE  \A i : Covered(s, i) => Covered(s, i)'
<1> SUFFICES ASSUME NEW i, Covered(s, i) PROVE Covered(s, i)'
  OBVIOUS
<1>1. WholeLeaf(s, i) => WholeLeaf(s, i)'
  BY DEF WholeLeaf, Written
<1>2. InQueue(s, i) => InQueue(s, i)'
  BY DEF InQueue
<1>3. InHand(s, i) => InHand(s, i)'
  BY DEF InHand
<1> QED
  BY <1>1, <1>2, <1>3 DEF Covered

LEMMA TargetsDiffer ==
  ASSUME DistinctBases, NamesFresh
  PROVE  \A s, q \in Named : target[s] = target[q] => s = q
BY DEF DistinctBases, NamesFresh, Named

\* A leaf put below one source's name spoils no leaf of another source, and of
\* its own only the one it is.
LEMMA PutLeafSpoils ==
  ASSUME CopierInv, DistinctBases, NEW q \in Named, NEW leaf, NEW whole, UNCHANGED target,
         PutLeaf(q, leaf, target[q], whole), NEW s \in Named, NEW i, WholeLeaf(s, i)
  PROVE  WholeLeaf(s, i)' \/ (s = q /\ i = leaf)
<1> DEFINE x == Written(s, i, target[s], TRUE)
<1>1. x.to = target[s] /\ x.leaf = i /\ x \in written
  BY DEF Written, WholeLeaf
<1>2. CASE s = q /\ i = leaf
  BY <1>2
<1>3. CASE ~(s = q /\ i = leaf)
  <2>1. <<x.to, x.leaf>> # <<target[q], leaf>>
    BY <1>1, <1>3, TargetsDiffer DEF CopierInv
  <2> QED
    BY <1>1, <2>1 DEF PutLeaf, WholeLeaf
<1> QED
  BY <1>2, <1>3

LEMMA WorkCovers ==
  ASSUME PoolAssumption, CopierInv, DistinctBases, NEW w \in Workers, WorkerStep(w),
         NEW s \in Named, NEW i, s \notin srcDone, poolErr' = "none", Covered(s, i)
  PROVE  Covered(s, i)'
<1>0. UNCHANGED target /\ worker \in [Workers -> Frame] /\ queue \in Seq(Job)
  BY WorkFrame DEF placeVars, frameVars, CopierInv, CopierTypeOK
<1>d. UNCHANGED diskVars => (WholeLeaf(s, i) => WholeLeaf(s, i)')
  BY <1>0 DEF WholeLeaf, diskVars
<1>q. UNCHANGED queue => (InQueue(s, i) => InQueue(s, i)')
  BY DEF InQueue
<1>h. ASSUME NEW f, worker' = [worker EXCEPT ![w] = f],
             InHand(s, i), ~InHand(s, i)'
      PROVE  /\ worker[w].at \in {"start", "open", "failed"}
             /\ worker[w].job.src = s /\ worker[w].job.leaf = i
             /\ ~(/\ f.at \in {"start", "open", "failed"}
                  /\ f.job.src = s /\ f.job.leaf = i)
  BY <1>0, <1>h DEF InHand
<1>1. CASE Take(w)
  <2>1. queue # <<>> /\ queue' = Tail(queue) /\ worker[w].at = "idle" /\ UNCHANGED diskVars
        /\ worker' = [worker EXCEPT ![w] = [worker[w] EXCEPT !.at = "start", !.job = Head(queue)]]
    BY <1>0, <1>1 DEF Take, At
  <2>2. InHand(s, i) => InHand(s, i)'
    BY <1>h, <2>1
  <2>3. ASSUME InQueue(s, i) PROVE Covered(s, i)'
    <3>1. PICK n \in 1..Len(queue) : queue[n].src = s /\ queue[n].leaf = i
      BY <2>3 DEF InQueue
    <3>2. CASE n = 1
      <4>1. Head(queue) = queue[1]
        BY <1>0, <2>1
      <4>2. worker'[w].at = "start" /\ worker'[w].job = Head(queue)
        BY <1>0, <2>1 DEF Frame
      <4> QED
        BY <3>1, <3>2, <4>1, <4>2 DEF Covered, InHand
    <3>3. CASE n # 1
      <4>1. n - 1 \in 1..Len(queue') /\ queue'[n - 1] = queue[n]
        BY <1>0, <2>1, <3>1, <3>3, HeadTailProperties, LenProperties
      <4> QED
        BY <3>1, <4>1 DEF Covered, InQueue
    <3> QED
      BY <3>2, <3>3
  <2> QED
    BY <1>d, <2>1, <2>2, <2>3 DEF Covered
<1>2. CASE Exit(w)
  <2>1. worker' = [worker EXCEPT ![w] = [worker[w] EXCEPT !.at = "exited"]]
        /\ worker[w].at = "idle" /\ UNCHANGED <<queue, diskVars>>
    BY <1>0, <1>2 DEF Exit, Goto, At
  <2>2. InHand(s, i) => InHand(s, i)'
    BY <1>h, <2>1
  <2> QED
    BY <1>d, <1>q, <2>1, <2>2 DEF Covered
<1>3. CASE WorkerFault(w) \/ WorkerCanceled(w)
  <2>0. PICK e \in {"canceled", "error"} : Fails(w, e)
    BY <1>3 DEF WorkerFault, WorkerCanceled
  <2> DEFINE f == [worker[w] EXCEPT !.at = "failed", !.err = e]
  <2>1. worker' = [worker EXCEPT ![w] = f] /\ f.at = "failed" /\ f.job = worker[w].job
    BY <1>0, <2>0 DEF Fails, Frame
  <2>2. UNCHANGED <<queue, diskVars>>
    BY <1>3 DEF WorkerFault, WorkerCanceled
  <2> HIDE DEF f
  <2>3. InHand(s, i) => InHand(s, i)'
    BY <1>h, <2>1
  <2> QED
    BY <1>d, <1>q, <2>2, <2>3 DEF Covered
<1>4. CASE OpenDest(w)
  <2> DEFINE j == worker[w].job
             f == [worker[w] EXCEPT !.at = "open"]
  <2>1. worker' = [worker EXCEPT ![w] = f] /\ f.at = "open" /\ f.job = j /\ worker[w].at = "start"
    BY <1>0, <1>4 DEF OpenDest, Goto, At, Frame
  <2>2. UNCHANGED queue /\ PutLeaf(j.src, j.leaf, j.to, FALSE) /\ Sound(j)
    BY <1>4, <2>1 DEF OpenDest, CopierInv, JobsSound, Busy
  <2>3. worker'[w].at = "open" /\ worker'[w].job = j
    BY <1>0, <2>1
  <2> HIDE DEF f
  <2>4. InHand(s, i) => InHand(s, i)'
    BY <1>h, <2>1
  <2>5. WholeLeaf(s, i) => WholeLeaf(s, i)' \/ InHand(s, i)'
    BY <1>0, <2>2, <2>3, PutLeafSpoils DEF Sound, InHand
  <2> QED
    BY <1>q, <2>2, <2>4, <2>5 DEF Covered
<1>5. CASE WriteAll(w)
  <2> DEFINE j == worker[w].job
             f == [worker[w] EXCEPT !.at = "whole"]
  <2>1. worker' = [worker EXCEPT ![w] = f] /\ f.at = "whole" /\ worker[w].at \in {"start", "open"}
    BY <1>0, <1>5 DEF WriteAll, Goto, At, Frame
  <2>2. UNCHANGED queue /\ PutLeaf(j.src, j.leaf, j.to, TRUE) /\ Sound(j)
    BY <1>5, <2>1 DEF WriteAll, CopierInv, JobsSound, Busy
  <2> HIDE DEF f
  <2>3. s = j.src /\ i = j.leaf => WholeLeaf(s, i)'
    BY <1>0, <2>2 DEF PutLeaf, WholeLeaf, Sound
  <2>4. InHand(s, i) => InHand(s, i)' \/ WholeLeaf(s, i)'
    BY <1>h, <2>1, <2>3
  <2>5. WholeLeaf(s, i) => WholeLeaf(s, i)'
    BY <1>0, <2>2, <2>3, PutLeafSpoils DEF Sound
  <2> QED
    BY <1>q, <2>2, <2>4, <2>5 DEF Covered
<1>6. CASE FinishFile(w)
  <2>1. worker' = [worker EXCEPT ![w] = Idle] /\ worker[w].at = "whole" /\ UNCHANGED <<queue, diskVars>>
    BY <1>6 DEF FinishFile, At
  <2>2. InHand(s, i) => InHand(s, i)'
    BY <1>h, <2>1
  <2> QED
    BY <1>d, <1>q, <2>1, <2>2 DEF Covered
<1>7. CASE Settle(w)
  <2>1. worker' = [worker EXCEPT ![w] = Idle] /\ worker[w].at = "failed" /\ UNCHANGED <<queue, diskVars>>
    BY <1>7 DEF Settle, At
  <2>2. worker[w].job.src # s
    <3> SUFFICES ASSUME worker[w].job.src = s PROVE FALSE
      OBVIOUS
    <3>1. ~(~CtxDone /\ SrcDone(worker[w].job.src))
      BY DEF SrcDone
    <3>2. Fail(IF CtxDone THEN "canceled" ELSE worker[w].err)
      BY <1>7, <3>1 DEF Settle
    <3>3. worker[w].err # "none"
      BY <2>1 DEF CopierInv, FailedHasError
    <3> QED
      BY <3>2, <3>3 DEF Fail
  <2>3. InHand(s, i) => InHand(s, i)'
    BY <1>h, <2>1, <2>2
  <2> QED
    BY <1>d, <1>q, <2>1, <2>3 DEF Covered
<1> QED
  BY <1>1, <1>2, <1>3, <1>4, <1>5, <1>6, <1>7 DEF WorkerStep

\* The caller loses none either, and covers those it passes.
LEMMA PlaceCovers ==
  ASSUME PoolAssumption, CopierInv, DistinctBases, Place, NEW s \in Named, NEW i \in LeavesOf(s)
  PROVE  /\ Covered(s, i) => Covered(s, i)'
         /\ s = cur /\ ~(i < next) /\ i < next' => Covered(s, i)'
<1>0. UNCHANGED <<worker, target, cur>> /\ queue \in Seq(Job) /\ cur \in Named
      /\ next \in Nat /\ s \in Sources /\ i \in Nat
  <2>1. pc \in Walking
    BY DEF Place, PlaceCanceled, PlaceFault, PlaceRoot, CloneRoot, CloneChecked, PlaceLeaf,
           SendLeaf, SendCanceled, PlaceDone, Placing, Walking
  <2>2. UNCHANGED <<worker, target, cur>>
    BY DEF Place, PlaceCanceled, PlaceFault, PlaceRoot, CloneRoot, CloneChecked, PlaceLeaf,
           SendLeaf, SendCanceled, PlaceDone, Return, poolVars, chanVars
  <2> QED
    BY <2>1, <2>2 DEF CopierInv, CopierTypeOK, CallerSound, Named, LeavesOf
<1>h. InHand(s, i) => InHand(s, i)'
  BY <1>0 DEF InHand
<1>1. CASE PlaceCanceled \/ PlaceFault \/ PlaceRoot \/ CloneChecked \/ SendCanceled \/ PlaceDone
  <2>1. UNCHANGED <<queue, written, next>>
    BY <1>1 DEF PlaceCanceled, PlaceFault, PlaceRoot, CloneChecked, SendCanceled, PlaceDone,
                Return, poolVars, chanVars, diskVars
  <2> QED
    BY <1>0, <1>h, <2>1 DEF Covered, WholeLeaf, InQueue
<1>2. CASE CloneRoot
  <2>1. PutTree(cur, target[cur]) /\ UNCHANGED queue
    BY <1>2 DEF CloneRoot, chanVars
  <2>2. s = cur => WholeLeaf(s, i)'
    BY <1>0, <2>1 DEF PutTree, WholeLeaf
  <2>3. s # cur /\ WholeLeaf(s, i) => WholeLeaf(s, i)'
    <3> SUFFICES ASSUME s # cur, WholeLeaf(s, i) PROVE WholeLeaf(s, i)'
      OBVIOUS
    <3>1. target[s] # target[cur]
      BY <1>0, TargetsDiffer DEF CopierInv
    <3> QED
      BY <1>0, <2>1, <3>1 DEF PutTree, WholeLeaf, Written
  <2> QED
    BY <1>h, <2>1, <2>2, <2>3 DEF Covered, InQueue
<1>3. CASE PlaceLeaf
  <2>1. UNCHANGED queue
    BY <1>3 DEF PlaceLeaf, chanVars
  <2>2. CASE Leaves[cur][next] = "link"
    <3>1. PutLeaf(cur, next, target[cur], TRUE) /\ next' = next + 1
      BY <1>3, <2>2 DEF PlaceLeaf
    <3>2. s = cur /\ i = next => WholeLeaf(s, i)'
      BY <1>0, <3>1 DEF PutLeaf, WholeLeaf
    <3>3. WholeLeaf(s, i) => WholeLeaf(s, i)'
      BY <1>0, <3>1, <3>2, PutLeafSpoils
    <3>4. ~(i < next) /\ i < next' => i = next
      BY <1>0, <3>1
    <3> QED
      BY <1>h, <2>1, <3>2, <3>3, <3>4 DEF Covered, InQueue
  <2>3. CASE ~(Leaves[cur][next] = "link")
    <3>1. UNCHANGED <<written, next>>
      BY <1>3, <2>3 DEF PlaceLeaf, diskVars
    <3> QED
      BY <1>0, <1>h, <2>1, <3>1 DEF Covered, WholeLeaf, InQueue
  <2> QED
    BY <2>2, <2>3
<1>4. CASE SendLeaf
  <2> DEFINE j == [src |-> cur, leaf |-> next, to |-> target[cur]]
  <2>1. queue' = Append(queue, j) /\ next' = next + 1 /\ UNCHANGED written
    BY <1>4 DEF SendLeaf, Send, diskVars
  <2>2. /\ Len(queue') = Len(queue) + 1 /\ Len(queue) \in Nat /\ queue'[Len(queue) + 1] = j
        /\ \A n \in 1..Len(queue) : queue'[n] = queue[n]
    BY <1>0, <2>1
  <2>3. InQueue(s, i) => InQueue(s, i)'
    BY <2>2 DEF InQueue
  <2>4. s = cur /\ i = next => InQueue(s, i)'
    <3>1. Len(queue) + 1 \in 1..Len(queue')
      BY <2>2
    <3> QED
      BY <2>2, <3>1 DEF InQueue
  <2>5. ~(i < next) /\ i < next' => i = next
    BY <1>0, <2>1
  <2> QED
    BY <1>0, <1>h, <2>1, <2>3, <2>4, <2>5 DEF Covered, WholeLeaf
<1> QED
  BY <1>1, <1>2, <1>3, <1>4 DEF Place

\* A source that is being neither placed nor copied stays as whole as it is.
LEMMA PlaceSpares ==
  ASSUME PoolAssumption, CopierInv, DistinctBases, Place, NEW s \in Named, s # cur
  PROVE  /\ WholeAt(s, target[s]) => WholeAt(s, target[s])'
         /\ \A x \in written' : x \in written \/ x.src = cur
<1>0. UNCHANGED <<target, cur>> /\ cur \in Named
  <2>1. pc \in Walking
    BY DEF Place, PlaceCanceled, PlaceFault, PlaceRoot, CloneRoot, CloneChecked, PlaceLeaf,
           SendLeaf, SendCanceled, PlaceDone, Placing, Walking
  <2> QED
    BY <2>1 DEF Place, PlaceCanceled, PlaceFault, PlaceRoot, CloneRoot, CloneChecked, PlaceLeaf,
           SendLeaf, SendCanceled, PlaceDone, Return, CopierInv, CallerSound
<1>1. target[s] # target[cur]
  BY <1>0, TargetsDiffer DEF CopierInv
<1>2. \/ roots \subseteq roots' /\ written' = written
      \/ PutTree(cur, target[cur])
      \/ PutLeaf(cur, next, target[cur], TRUE)
  BY DEF Place, PlaceCanceled, PlaceFault, PlaceRoot, CloneRoot, CloneChecked, PlaceLeaf,
         SendLeaf, SendCanceled, PlaceDone, poolVars, diskVars
<1>3. roots \subseteq roots'
  BY <1>2 DEF PutTree, PutLeaf
<1>4. \A x \in written : x.to # target[cur] => x \in written'
  BY <1>2 DEF PutTree, PutLeaf
<1>5. \A x \in written' : x \in written \/ x.src = cur
  BY <1>2 DEF PutTree, PutLeaf, Written
<1>6. WholeAt(s, target[s]) => WholeAt(s, target[s])'
  BY <1>0, <1>1, <1>3, <1>4 DEF WholeAt, Written, LeavesOf
<1> QED
  BY <1>5, <1>6

LEMMA WorkSpares ==
  ASSUME PoolAssumption, CopierInv, DistinctBases, NEW w \in Workers, WorkerStep(w), NEW s \in Named,
         worker[w].at \in Busy => worker[w].job.src # s
  PROVE  /\ WholeAt(s, target[s]) => WholeAt(s, target[s])'
         /\ \A x \in written' : x \in written \/ (x.src = worker[w].job.src /\ worker[w].at \in Busy)
<1> DEFINE j == worker[w].job
<1>0. UNCHANGED target
  BY WorkFrame DEF placeVars, frameVars
<1>1. \/ UNCHANGED diskVars
      \/ \E whole \in BOOLEAN : PutLeaf(j.src, j.leaf, j.to, whole) /\ worker[w].at \in Busy
  BY DEF WorkerStep, Take, Exit, OpenDest, WriteAll, FinishFile, WorkerCanceled, WorkerFault,
         Settle, At, Busy
<1>2. CASE UNCHANGED diskVars
  BY <1>0, <1>2 DEF diskVars, WholeAt, Written, LeavesOf
<1>3. ASSUME NEW whole \in BOOLEAN, PutLeaf(j.src, j.leaf, j.to, whole), worker[w].at \in Busy
      PROVE  /\ WholeAt(s, target[s]) => WholeAt(s, target[s])'
             /\ \A x \in written' : x \in written \/ (x.src = j.src /\ worker[w].at \in Busy)
  <2>1. Sound(j) /\ j.src # s
    BY <1>3 DEF CopierInv, JobsSound
  <2>2. j.to # target[s]
    BY <2>1, TargetsDiffer DEF CopierInv, Sound
  <2>3. \A x \in written : x.to # j.to => x \in written'
    BY <1>3 DEF PutLeaf
  <2>4. roots \subseteq roots' /\ \A x \in written' : x \in written \/ x.src = j.src
    BY <1>3 DEF PutLeaf, Written
  <2> QED
    BY <1>0, <1>3, <2>2, <2>3, <2>4 DEF WholeAt, Written, LeavesOf
<1> QED
  BY <1>1, <1>2, <1>3

\* The last worker leaves nothing behind: what is covered then is whole.
LEMMA DrainedIsWhole ==
  ASSUME PoolAssumption, CopierInv, PoolDrained, NEW s, NEW i, Covered(s, i)
  PROVE  WholeLeaf(s, i)
<1>1. \A w \in Workers : worker[w].at = "exited"
  BY DEF PoolDrained, At
<1>2. queue = <<>>
  BY <1>1 DEF PoolAssumption, CopierInv, ExitsDrained
<1>3. ~InHand(s, i) /\ ~InQueue(s, i)
  BY <1>1, <1>2 DEF InHand, InQueue
<1> QED
  BY <1>3 DEF Covered

\* A source all of whose leaves are whole on disk is there.
LEMMA LeavesMakeWhole ==
  ASSUME PoolAssumption, CopierInv, NEW s \in Named, \A i \in LeavesOf(s) : WholeLeaf(s, i),
         s \in Dirs => target[s] \in roots
  PROVE  WholeAt(s, target[s])
<1>1. s \in Dirs \/ 1 \in LeavesOf(s)
  <2>0. s \in Sources
    BY DEF Named
  <2>1. \A q \in Sources \ Dirs : Len(Leaves[q]) = 1
    BY DEF PoolAssumption
  <2>2. CASE s \notin Dirs
    <3>1. Len(Leaves[s]) = 1
      BY <2>0, <2>1, <2>2
    <3>2. LeavesOf(s) = 1..1
      BY <3>1 DEF LeavesOf
    <3> QED
      BY <3>2
  <2> QED
    BY <2>2
<1>2. 1 \in LeavesOf(s) => target[s] \in roots
  <2>1. 1 \in LeavesOf(s) => Written(s, 1, target[s], TRUE) \in written
    BY DEF WholeLeaf
  <2> QED
    BY <2>1 DEF CopierInv, DiskIsOurs, Written
<1> QED
  BY <1>1, <1>2 DEF WholeAt, WholeLeaf
=============================================================================
