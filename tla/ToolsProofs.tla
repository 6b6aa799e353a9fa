------------------------- MODULE ToolsProofs -------------------------
(***************************************************************************)
(* Proofs about TransferJobs, for every set of jobs and number of slots:    *)
(* its variables have their types, the tokens in the gate are the jobs      *)
(* inside it, and the gate implements SlotPool.  Then about Tools, for every *)
(* set of files, folders, paths, places and callers: the trash loses        *)
(* nothing it took; a shell, a scan and a search that run are of a window;   *)
(* an answer is taken for nothing but what it was asked for; and the        *)
(* variables of each tool have their types.                                 *)
(***************************************************************************)
EXTENDS TransferJobs, Tools, TLAPS, FiniteSetTheorems, SequenceTheorems, WellFoundedInduction

\* An extract never comes near the gate, which GateCountsHolders needs to be
\* inductive: Acquire counts a slot for every job that waits.
ExtractsStayOut ==
  \A j \in Jobs : Kind[j] = "extract" =>
    pc[j] \in {"new", "called", "running", "returning", "over"}

IInv == TypeOK /\ ExtractsStayOut /\ GateCountsHolders

-----------------------------------------------------------------------------
\* The initial state has the types.
LEMMA InitTypeOK == Init => TypeOK
BY JobsAssumption DEF Init, TypeOK, Events

\* Every step keeps the types (all actions of FileService and the frontend).
LEMMA StepTypeOK == ASSUME TypeOK, [Next]_vars PROVE TypeOK'
<1> USE JobsAssumption DEF TypeOK, Events, Goto, Ends, netVars, uiVars, backVars
<1>1. ASSUME NEW j \in Jobs, Start(j) PROVE TypeOK'
  BY <1>1 DEF Start, Startable
<1>2. ASSUME NEW j \in Jobs, StartPaste(j) PROVE TypeOK'
  BY <1>2 DEF StartPaste, Startable
<1>3. ASSUME NEW j \in Jobs, ReadCtx(j) PROVE TypeOK'
  BY <1>3 DEF ReadCtx
<1>4. ASSUME NEW j \in Jobs, Acquire(j) PROVE TypeOK'
  BY <1>4 DEF Acquire
<1>5. ASSUME NEW j \in Jobs, GiveUp(j) PROVE TypeOK'
  BY <1>5 DEF GiveUp
<1>6. ASSUME NEW j \in Jobs, Release(j) PROVE TypeOK'
  BY <1>6 DEF Release
<1>7. ASSUME NEW j \in Jobs, Progress(j) PROVE TypeOK'
  BY <1>7 DEF Progress, Emit
<1>8. ASSUME NEW j \in Jobs, WorkEnds(j) PROVE TypeOK'
  BY <1>8 DEF WorkEnds
<1>9. ASSUME NEW j \in Jobs, Announce(j) PROVE TypeOK'
  BY <1>9 DEF Announce, Emit
<1>10. ASSUME NEW j \in Jobs, FinishJob(j) PROVE TypeOK'
  BY <1>10 DEF FinishJob, Drop
<1>11. ASSUME NEW j \in Jobs, Return(j) PROVE TypeOK'
  BY <1>11 DEF Return
<1>12. ASSUME NEW j \in Jobs, HandleCancel(j) PROVE TypeOK'
  BY <1>12 DEF HandleCancel, Drop
<1>13. ASSUME NEW j \in Jobs, Settle(j) PROVE TypeOK'
  BY <1>13 DEF Settle, Drop, RemoveRow
<1>14. ASSUME DeliverProgress PROVE TypeOK'
  BY <1>14 DEF DeliverProgress
<1>15. ASSUME DeliverDone PROVE TypeOK'
  BY <1>15 DEF DeliverDone
<1>16. ASSUME NEW j \in Jobs, Fire(j) PROVE TypeOK'
  BY <1>16 DEF Fire, RemoveRow
<1>17. ASSUME NEW j \in Jobs, PressCancel(j) PROVE TypeOK'
  BY <1>17 DEF PressCancel, RemoveRow
<1>18. ASSUME UNCHANGED vars PROVE TypeOK'
  BY <1>18 DEF vars
<1> QED
  BY <1>1, <1>2, <1>3, <1>4, <1>5, <1>6, <1>7, <1>8, <1>9, <1>10, <1>11, <1>12,
     <1>13, <1>14, <1>15, <1>16, <1>17, <1>18 DEF Next, Backend, Frontend

\* The variables of every behaviour have their types.
THEOREM TypeCorrect == Spec => []TypeOK
<1>1. Init => TypeOK
  BY InitTypeOK
<1>2. TypeOK /\ [Next]_vars => TypeOK'
  BY StepTypeOK
<1> QED
  BY <1>1, <1>2, PTL DEF Spec

-----------------------------------------------------------------------------
\* The jobs inside the gate are finitely many.
LEMMA HoldersFinite ==
  IsFiniteSet(Holders) /\ Cardinality(Holders) \in Nat
<1>1. Holders \subseteq Jobs
  BY DEF Holders
<1> QED
  BY <1>1, JobsAssumption, FS_Subset, FS_CardinalityType

\* A job that passes acquireTransfer is one more inside.
LEMMA OneMore ==
  ASSUME NEW j \in Jobs, j \notin Holders, Holders' = Holders \cup {j}
  PROVE  Cardinality(Holders') = Cardinality(Holders) + 1
BY HoldersFinite, FS_AddElement

\* A job that passes releaseTransfer is one less inside.
LEMMA OneLess ==
  ASSUME NEW j \in Jobs, j \in Holders, Holders' = Holders \ {j}
  PROVE  /\ Cardinality(Holders') = Cardinality(Holders) - 1
         /\ Cardinality(Holders) > 0
<1>1. Cardinality(Holders \ {j}) = Cardinality(Holders) - 1
  BY HoldersFinite, FS_RemoveElement
<1>2. IsFiniteSet(Holders \ {j}) /\ Cardinality(Holders \ {j}) \in Nat
  BY HoldersFinite, FS_Subset, FS_CardinalityType
<1> QED
  BY <1>1, <1>2, HoldersFinite

\* The initial state has nobody inside and no token in the channel.
LEMMA InitIInv == Init => IInv
<1> SUFFICES ASSUME Init PROVE IInv
  OBVIOUS
<1>1. TypeOK
  BY InitTypeOK
<1>2. ExtractsStayOut
  BY DEF Init, ExtractsStayOut
<1>3. Holders = {}
  BY DEF Init, Holders, InGate
<1>4. GateCountsHolders
  BY <1>3, FS_EmptySet, JobsAssumption DEF Init, GateCountsHolders
<1> QED
  BY <1>1, <1>2, <1>4 DEF IInv

\* No step leads an extract into the gate.
LEMMA StepExtractsStayOut ==
  ASSUME TypeOK, ExtractsStayOut, [Next]_vars PROVE ExtractsStayOut'
<1> USE DEF TypeOK, ExtractsStayOut, Goto
<1>1. ASSUME NEW j \in Jobs, Start(j) \/ StartPaste(j) PROVE ExtractsStayOut'
  BY <1>1 DEF Start, StartPaste, Startable
<1>2. ASSUME NEW j \in Jobs, ReadCtx(j) \/ Acquire(j) \/ GiveUp(j)
      PROVE ExtractsStayOut'
  BY <1>2 DEF ReadCtx, Acquire, GiveUp
<1>3. ASSUME NEW j \in Jobs, WorkEnds(j) \/ Release(j) \/ Announce(j)
      PROVE ExtractsStayOut'
  BY <1>3 DEF WorkEnds, Release, Announce
<1>4. ASSUME NEW j \in Jobs, FinishJob(j) \/ Return(j) PROVE ExtractsStayOut'
  BY <1>4 DEF FinishJob, Return
<1>5. ASSUME UNCHANGED pc PROVE ExtractsStayOut'
  BY <1>5
<1>6. ASSUME NEW j \in Jobs,
             Progress(j) \/ HandleCancel(j) \/ PressCancel(j) \/ Settle(j) \/ Fire(j)
      PROVE UNCHANGED pc
  BY <1>6 DEF Progress, HandleCancel, PressCancel, Settle, Fire, backVars
<1>7. ASSUME DeliverProgress \/ DeliverDone \/ UNCHANGED vars PROVE UNCHANGED pc
  BY <1>7 DEF DeliverProgress, DeliverDone, vars, backVars
<1> QED
  BY <1>1, <1>2, <1>3, <1>4, <1>5, <1>6, <1>7 DEF Next, Backend, Frontend

\* acquireTransfer keeps the tokens equal to the jobs inside, and leaves room
\* for no more than Slots of them.
LEMMA AcquireCounts ==
  ASSUME IInv, NEW j \in Jobs, Acquire(j) PROVE GateCountsHolders'
<1> USE DEF IInv, TypeOK
<1>1. j \notin Holders /\ Holders' = Holders \cup {j}
  BY DEF Acquire, Goto, Holders, InGate, ExtractsStayOut
<1>2. Cardinality(Holders') = Cardinality(Holders) + 1
  BY <1>1, OneMore
<1> QED
  BY <1>2, JobsAssumption DEF Acquire, GateCountsHolders

\* releaseTransfer finds a token: that of the job that releases.
LEMMA ReleaseCounts ==
  ASSUME IInv, NEW j \in Jobs, Release(j) PROVE GateCountsHolders'
<1> USE DEF IInv, TypeOK
<1>1. j \in Holders /\ Holders' = Holders \ {j}
  BY DEF Release, Goto, Holders, InGate, ExtractsStayOut
<1>2. Cardinality(Holders') = Cardinality(Holders) - 1 /\ Cardinality(Holders) > 0
  BY <1>1, OneLess
<1> QED
  BY <1>2, HoldersFinite, JobsAssumption DEF Release, GateCountsHolders

\* No other step changes who is inside, or the tokens.
LEMMA OthersCount ==
  ASSUME IInv, [Next]_vars,
         \A j \in Jobs : ~Acquire(j) /\ ~Release(j)
  PROVE  UNCHANGED <<Holders, gate>>
<1> USE JobsAssumption DEF IInv, TypeOK, ExtractsStayOut, Holders, InGate, Goto, Kinds
<1>1. ASSUME NEW j \in Jobs, Start(j) \/ StartPaste(j)
      PROVE UNCHANGED <<Holders, gate>>
  BY <1>1 DEF Start, StartPaste, Startable
<1>2. ASSUME NEW j \in Jobs, ReadCtx(j) PROVE UNCHANGED <<Holders, gate>>
  BY <1>2 DEF ReadCtx
<1>3. ASSUME NEW j \in Jobs, GiveUp(j) PROVE UNCHANGED <<Holders, gate>>
  BY <1>3 DEF GiveUp
<1>4. ASSUME NEW j \in Jobs, WorkEnds(j) PROVE UNCHANGED <<Holders, gate>>
  BY <1>4 DEF WorkEnds
<1>5. ASSUME NEW j \in Jobs, Announce(j) PROVE UNCHANGED <<Holders, gate>>
  BY <1>5 DEF Announce
<1>6. ASSUME NEW j \in Jobs, FinishJob(j) \/ Return(j)
      PROVE UNCHANGED <<Holders, gate>>
  BY <1>6 DEF FinishJob, Return
<1>7. ASSUME UNCHANGED <<pc, gate>> PROVE UNCHANGED <<Holders, gate>>
  BY <1>7
<1>8. ASSUME NEW j \in Jobs,
             Progress(j) \/ HandleCancel(j) \/ PressCancel(j) \/ Settle(j) \/ Fire(j)
      PROVE UNCHANGED <<pc, gate>>
  BY <1>8 DEF Progress, HandleCancel, PressCancel, Settle, Fire, backVars
<1>9. ASSUME DeliverProgress \/ DeliverDone \/ UNCHANGED vars
      PROVE UNCHANGED <<pc, gate>>
  BY <1>9 DEF DeliverProgress, DeliverDone, vars, backVars
<1> QED
  BY <1>1, <1>2, <1>3, <1>4, <1>5, <1>6, <1>7, <1>8, <1>9 DEF Next, Backend, Frontend

\* The invariant is inductive.
LEMMA StepIInv == ASSUME IInv, [Next]_vars PROVE IInv'
<1>1. TypeOK'
  BY StepTypeOK DEF IInv
<1>2. ExtractsStayOut'
  BY StepExtractsStayOut DEF IInv
<1>3. GateCountsHolders'
  <2>1. CASE \E j \in Jobs : Acquire(j)
    BY <2>1, AcquireCounts
  <2>2. CASE \E j \in Jobs : Release(j)
    BY <2>2, ReleaseCounts
  <2>3. CASE \A j \in Jobs : ~Acquire(j) /\ ~Release(j)
    BY <2>3, OthersCount DEF IInv, GateCountsHolders
  <2> QED
    BY <2>1, <2>2, <2>3
<1> QED
  BY <1>1, <1>2, <1>3 DEF IInv

\* The tokens in the gate are the jobs inside, at most maxConcurrentTransfers.
THEOREM GateCorrect == Spec => []GateCountsHolders
<1>1. IInv => GateCountsHolders
  BY DEF IInv
<1>2. Init => IInv
  BY InitIInv
<1>3. IInv /\ [Next]_vars => IInv'
  BY StepIInv
<1> QED
  BY <1>1, <1>2, <1>3, PTL DEF Spec

-----------------------------------------------------------------------------
\* What HandlesAreLive rests on: a handle is stored once and before the call,
\* FinishJob dropped that of a call that returns, and an extract's waits for
\* the answer to be settled.
HandlesFollowCalls ==
  \A j \in handles :
    /\ pc[j] # "new"
    /\ Kind[j] # "extract" => pc[j] \notin {"returning", "over"}
    /\ pc[j] = "over" => j \in replies

HInv == TypeOK /\ HandlesFollowCalls

\* Every step keeps it.
LEMMA StepHInv == ASSUME HInv, [Next]_vars PROVE HandlesFollowCalls'
<1> USE DEF HInv, TypeOK, HandlesFollowCalls, Goto, Drop, netVars, backVars
<1>1. ASSUME NEW j \in Jobs, Start(j) \/ StartPaste(j) PROVE HandlesFollowCalls'
  BY <1>1 DEF Start, StartPaste, Startable
<1>2. ASSUME NEW j \in Jobs, ReadCtx(j) \/ Acquire(j) \/ GiveUp(j)
      PROVE HandlesFollowCalls'
  BY <1>2 DEF ReadCtx, Acquire, GiveUp
<1>3. ASSUME NEW j \in Jobs, WorkEnds(j) \/ Release(j) \/ Announce(j)
      PROVE HandlesFollowCalls'
  BY <1>3 DEF WorkEnds, Release, Announce
<1>4. ASSUME NEW j \in Jobs, FinishJob(j) PROVE HandlesFollowCalls'
  BY <1>4 DEF FinishJob
<1>5. ASSUME NEW j \in Jobs, Return(j) PROVE HandlesFollowCalls'
  BY <1>5, JobsAssumption DEF Return, Kinds
<1>6. ASSUME NEW j \in Jobs, HandleCancel(j) PROVE HandlesFollowCalls'
  BY <1>6 DEF HandleCancel
<1>7. ASSUME NEW j \in Jobs, Settle(j) PROVE HandlesFollowCalls'
  BY <1>7 DEF Settle
<1>8. ASSUME UNCHANGED <<pc, handles, replies>> PROVE HandlesFollowCalls'
  BY <1>8
<1>9. ASSUME NEW j \in Jobs, Progress(j) \/ PressCancel(j) \/ Fire(j)
      PROVE UNCHANGED <<pc, handles, replies>>
  BY <1>9 DEF Progress, PressCancel, Fire
<1>10. ASSUME DeliverProgress \/ DeliverDone \/ UNCHANGED vars
       PROVE UNCHANGED <<pc, handles, replies>>
  BY <1>10 DEF DeliverProgress, DeliverDone, vars
<1> QED
  BY <1>1, <1>2, <1>3, <1>4, <1>5, <1>6, <1>7, <1>8, <1>9, <1>10
     DEF Next, Backend, Frontend

\* A handle outlives its job's call only until the answer is settled, whatever
\* is cancelled meanwhile: the registry does not grow.
THEOREM RegistryStaysClean == Spec => []HandlesAreLive
<1>1. Init => HInv
  BY InitTypeOK DEF Init, HInv, HandlesFollowCalls
<1>2. HInv /\ [Next]_vars => HInv'
  BY StepTypeOK, StepHInv DEF HInv
<1>3. HInv => HandlesAreLive
  BY DEF HInv, HandlesFollowCalls, HandlesAreLive
<1> QED
  BY <1>1, <1>2, <1>3, PTL DEF Spec

-----------------------------------------------------------------------------
\* The abstract pool's jobs inside are those that hold a slot.
LEMMA InsideIsHolders == TypeOK => Gate!Inside = Holders
BY DEF Gate!Inside, Gated, Standings, Standing, Holders, InGate, TypeOK

\* The instance counts as this module does.
LEMMA SameCardinality == \A S : Gate!Cardinality(S) = Cardinality(S)
BY DEF Gate!Cardinality, Cardinality

\* Passing acquireTransfer enters the pool: there is room when the channel
\* takes a token.
LEMMA AcquireEnters ==
  ASSUME IInv, NEW j \in Jobs, Acquire(j) PROVE j \in Gated /\ Gate!Enter(j)
<1> USE DEF IInv, TypeOK
<1>1. j \in Gated
  BY DEF Acquire, Gated, ExtractsStayOut
<1>2. Cardinality(Gate!Inside) < Slots
  BY InsideIsHolders DEF Acquire, GateCountsHolders
<1>3. Gate!Goes(j, "queued", "in")
  BY <1>1 DEF Acquire, Goto, Gate!Goes, Standings, Standing, InGate, Gated
<1> QED
  BY <1>1, <1>2, <1>3, SameCardinality DEF Gate!Enter

\* Every other step of one job moves it the abstract way, or leaves it where
\* it stands.
LEMMA JobMoves ==
  ASSUME IInv, NEW j \in Jobs,
         \/ Start(j) \/ StartPaste(j) \/ ReadCtx(j) \/ GiveUp(j) \/ WorkEnds(j)
         \/ Release(j) \/ Announce(j) \/ FinishJob(j) \/ Return(j)
  PROVE  \/ UNCHANGED Standings
         \/ /\ j \in Gated
            /\ \/ Gate!Goes(j, "out", "queued") \/ Gate!Goes(j, "out", "left")
               \/ Gate!Goes(j, "queued", "left") \/ Gate!Goes(j, "in", "left")
<1> USE JobsAssumption DEF IInv, TypeOK, ExtractsStayOut, Goto, Kinds,
                           Gate!Goes, Gated, Standings, Standing, InGate
<1>1. CASE Start(j)
  BY <1>1 DEF Start, Startable
<1>2. CASE StartPaste(j)
  <2>1. j \in Gated /\ Standings[j] = "out"
    BY <1>2 DEF StartPaste, Startable
  <2>2. CASE Goto(j, "called")
    BY <1>2, <2>2 DEF StartPaste, Startable
  <2>3. CASE Goto(j, "over")
    BY <1>2, <2>1, <2>3 DEF StartPaste, Startable
  <2> QED
    BY <1>2, <2>2, <2>3 DEF StartPaste, Startable
<1>3. CASE ReadCtx(j)
  BY <1>3 DEF ReadCtx
<1>4. CASE GiveUp(j)
  BY <1>4 DEF GiveUp
<1>5. CASE WorkEnds(j)
  BY <1>5 DEF WorkEnds
<1>6. CASE Release(j)
  BY <1>6 DEF Release
<1>7. CASE Announce(j)
  BY <1>7 DEF Announce
<1>8. CASE FinishJob(j)
  BY <1>8 DEF FinishJob
<1>9. CASE Return(j)
  BY <1>9 DEF Return
<1> QED
  BY <1>1, <1>2, <1>3, <1>4, <1>5, <1>6, <1>7, <1>8, <1>9

\* Every step of the backend and the frontend is a step of the pool or none.
LEMMA StepGate ==
  ASSUME IInv, [Next]_vars
  PROVE  [Gate!Next]_Standings
<1>1. ASSUME NEW j \in Jobs, Acquire(j) PROVE Gate!Next
  BY <1>1, AcquireEnters DEF Gate!Next
<1>2. ASSUME NEW j \in Jobs,
             \/ Start(j) \/ StartPaste(j) \/ ReadCtx(j) \/ GiveUp(j) \/ WorkEnds(j)
             \/ Release(j) \/ Announce(j) \/ FinishJob(j) \/ Return(j)
      PROVE  Gate!Next \/ UNCHANGED Standings
  <2>1. CASE UNCHANGED Standings
    BY <2>1
  <2>2. CASE j \in Gated /\ ( \/ Gate!Goes(j, "out", "queued")
                             \/ Gate!Goes(j, "out", "left")
                             \/ Gate!Goes(j, "queued", "left")
                             \/ Gate!Goes(j, "in", "left") )
    BY <2>2 DEF Gate!Next
  <2> QED
    BY <1>2, <2>1, <2>2, JobMoves
<1>3. ASSUME UNCHANGED pc PROVE UNCHANGED Standings
  BY <1>3 DEF Standings, Standing, InGate, Gated
<1>4. ASSUME NEW j \in Jobs,
             Progress(j) \/ HandleCancel(j) \/ PressCancel(j) \/ Settle(j) \/ Fire(j)
      PROVE UNCHANGED pc
  BY <1>4 DEF Progress, HandleCancel, PressCancel, Settle, Fire, backVars
<1>5. ASSUME DeliverProgress \/ DeliverDone \/ UNCHANGED vars PROVE UNCHANGED pc
  BY <1>5 DEF DeliverProgress, DeliverDone, vars, backVars
<1> QED
  BY <1>1, <1>2, <1>3, <1>4, <1>5 DEF Next, Backend, Frontend

\* The transfer gate implements the pool of slots: what runTransfer,
\* AttachDiskImage and pasteRemote do with the channel admits a job only while
\* fewer than Slots are in, and lets each leave once.
THEOREM GateImplements == Spec => GateSpec
<1>1. Init => Gate!Init
  BY DEF Init, Gate!Init, Standings, Standing, Gated
<1>2. Init => IInv
  BY InitIInv
<1>3. IInv /\ [Next]_vars => IInv'
  BY StepIInv
<1>4. IInv /\ [Next]_vars => [Gate!Next]_Standings
  BY StepGate
<1> QED
  BY <1>1, <1>2, <1>3, <1>4, PTL DEF Spec, GateSpec, Gate!Spec

-----------------------------------------------------------------------------
\* What a call on the trash may be at.
Frames ==
  [op : {"none", "put", "restore", "remove", "empty"},
   step : {"idle", "name", "check", "move", "copy", "delete", "info", "drop", "meta", "files", "infos"},
   todo : Seq(Bin!Item)]

\* The types of the trash.
TrashTypes ==
  /\ places \in [Places -> SUBSET Bin!Content]
  /\ files \in [Bin!Slots -> SUBSET Bin!Content]
  /\ info \in [Bin!Slots -> SUBSET Places]
  /\ trashCall \in [Callers -> Frames]
  /\ madeAt \in Seq(Places) /\ Len(madeAt) <= MaxFiles
  /\ purged \subseteq 1 .. Len(madeAt) /\ broken \subseteq 1 .. Len(madeAt)
  /\ undo \in [Places -> SUBSET (1 .. MaxFiles)]
  /\ faults \in 0 .. MaxFaults

\* What is anywhere was made.
WasMade ==
  /\ \A p \in Places : \A t \in places[p] : t.file <= Len(madeAt)
  /\ \A s \in Bin!Slots : \A t \in files[s] : t.file <= Len(madeAt)

\* No other call is under way.
Alone(c) == \A d \in Callers : d # c => trashCall[d] = Bin!Idle
\* One call at a time: while one is under way the others are idle.
OneCall == \A c \in Callers : trashCall[c] # Bin!Idle => Alone(c)

\* A note names one place at most.
OneOrigin == \A s \in Bin!Slots : \A p, q \in info[s] : p = q

\* The steps of each operation, and what it is still to do.
FrameShape(f) ==
  /\ f.op = "none" => f.step = "idle"
  /\ f.op = "put" => f.step \in {"name", "move", "copy", "delete", "info"}
  /\ f.op = "restore" => f.step \in {"check", "move", "copy", "drop", "meta"}
  /\ f.op = "remove" => f.step \in {"drop", "meta"}
  /\ f.op = "empty" => f.step \in {"files", "infos"}
  /\ f.todo = <<>> <=> f.op \in {"none", "empty"}
  /\ \A i \in DOMAIN f.todo : \A p, q \in f.todo[i].origin : p = q
  /\ f.op = "put" => \A i \in DOMAIN f.todo : f.todo[i].origin # {}

\* What its steps so far have made sure of.
PutSafe(c) ==
  LET s == Bin!Cur(c).slot IN
  /\ Bin!At(c, "put", "move") => files[s] = {}
  /\ Bin!At(c, "put", "copy") => Bin!Whole(files[s]) = {}
  /\ Bin!At(c, "put", "delete") => \A p \in Bin!Cur(c).origin :
       /\ Bin!Whole(places[p]) \subseteq Bin!Whole(files[s])
       /\ Bin!Whole(files[s]) \subseteq {t.file : t \in places[p]}

\* What a restore relies on at the step it is at: the place it moves to is free,
\* the copy it drops is there.
RestoreSafe(c) ==
  LET s == Bin!Cur(c).slot IN
  /\ Bin!At(c, "restore", "move") => \A p \in Bin!Cur(c).origin : places[p] = {}
  /\ Bin!At(c, "restore", "copy") =>
       Bin!Cur(c).origin # {} /\ \A p \in Bin!Cur(c).origin : Bin!Whole(places[p]) = {}
  /\ Bin!At(c, "restore", "drop") =>
       /\ Bin!Cur(c).origin # {}
       /\ \A p \in Bin!Cur(c).origin : Bin!Whole(files[s]) \subseteq Bin!Whole(places[p])

\* What holds of a call wherever it is.
Sound(c) == FrameShape(trashCall[c]) /\ PutSafe(c) /\ RestoreSafe(c)

\* What every step of the trash keeps, however often it fails or dies.
TrashInv ==
  /\ TrashTypes /\ WasMade /\ OneCall /\ OneOrigin
  /\ \A c \in Callers : Sound(c)
  /\ Bin!NothingTrashedIsLost

\* Without a failure, a note without its file is about to be removed.
Due(c, s) ==
  \/ trashCall[c].op = "empty"
  \/ trashCall[c].op \in {"restore", "remove"} /\ trashCall[c].step = "meta" /\ Bin!Cur(c).slot = s
\* The name is given, and the note is still to be written.
PutOf(c, s) == trashCall[c].op = "put" /\ trashCall[c].step # "name" /\ Bin!Cur(c).slot = s

\* Without a failure no note is left without its file, save the one a call is
\* about to remove; the name a delete was given has no note.
NoStrayNotes ==
  /\ \A s \in Bin!Slots : files[s] = {} /\ info[s] # {} => \E c \in Callers : Due(c, s)
  /\ \A c \in Callers : \A s \in Bin!Slots : PutOf(c, s) => info[s] = {}

\* Things made at a place that o names, if it names one.
OfPlace(things, o) == \A t \in things : o \subseteq {madeAt[t.file]}
\* A delete puts its file under a name whose note will name the place it left.
PutTrue(c) ==
  /\ Bin!At(c, "put", "copy") => \A p \in Bin!Cur(c).origin : places[p] # {}
  /\ trashCall[c].op = "put" /\ trashCall[c].step \in {"delete", "info"} =>
       files[Bin!Cur(c).slot] # {}
  /\ trashCall[c].op = "put" /\ trashCall[c].step \in {"copy", "delete", "info"} =>
       OfPlace(files[Bin!Cur(c).slot], Bin!Cur(c).origin)
\* What a restore still has to bring back is of the place it read in the note.
RestoreTrue(c) ==
  trashCall[c].op = "restore" =>
    \A i \in DOMAIN trashCall[c].todo :
      OfPlace(files[trashCall[c].todo[i].slot], trashCall[c].todo[i].origin)

\* What lies at a place was made there.
ThingsAtHome == \A p \in Places : OfPlace(places[p], {p})
\* A note names the place of the file beside it, save while a delete has still to
\* write it.
NotesSay == \A s \in Bin!Slots : (\E c \in Callers : PutOf(c, s)) \/ OfPlace(files[s], info[s])

\* What every step of the trash keeps while at most one thing goes wrong.
NotesInv ==
  /\ TrashInv
  /\ faults = 0 => NoStrayNotes
  /\ \A c \in Callers : PutTrue(c) /\ RestoreTrue(c)
  /\ ThingsAtHome /\ NotesSay

-----------------------------------------------------------------------------
\* A nonempty set of numbers has a least one.
LEMMA LeastExists ==
  ASSUME NEW T, T \subseteq Nat, T # {}
  PROVE  \E x \in T : \A y \in T : x <= y
<1> DEFINE R == {ss \in Nat \X Nat : ss[1] < ss[2]}
<1>1. IsWellFoundedOn(R, Nat)
  BY NatLessThanWellFounded DEF OpToRel
<1>2. PICK x \in T : \A y \in T : ~(<<y, x>> \in R)
  BY <1>1, WFMin
<1>3. ASSUME NEW y \in T PROVE x <= y
  <2>1. x \in Nat /\ y \in Nat
    OBVIOUS
  <2>2. <<y, x>> \in Nat \X Nat /\ <<y, x>>[1] = y /\ <<y, x>>[2] = x
    BY <2>1
  <2>3. ~(y < x)
    BY <1>2, <2>2
  <2> QED
    BY <2>1, <2>3
<1> QED
  BY <1>2, <1>3

\* The constants of the trash.
LEMMA BinAssumption == Copies \in Nat \ {0} /\ MaxFiles \in Nat /\ MaxFaults \in Nat
BY ToolsAssumption DEF Bin!TrashAssumption

\* The name a delete is given is free.
LEMMA NameIsFree ==
  ASSUME Bin!FreeNames # {}
  PROVE  Bin!UniqueTrashName \in Bin!Slots /\ files[Bin!UniqueTrashName] = {}
<1>1. Bin!FreeNames \subseteq Nat
  BY BinAssumption DEF Bin!FreeNames, Bin!Slots
<1>2. \E s \in Bin!FreeNames : \A t \in Bin!FreeNames : s <= t
  BY <1>1, LeastExists
<1>3. Bin!UniqueTrashName \in Bin!FreeNames
  BY <1>2 DEF Bin!UniqueTrashName
<1> QED
  BY <1>3 DEF Bin!FreeNames

\* What is torn is of the same files, and none of it is whole.
LEMMA TornIsNotWhole ==
  ASSUME NEW things, things \subseteq Bin!Content
  PROVE  /\ Bin!Torn(things) \subseteq Bin!Content
         /\ Bin!Whole(Bin!Torn(things)) = {}
         /\ {t.file : t \in Bin!Torn(things)} = {t.file : t \in things}
         /\ Bin!Torn(things) = {} <=> things = {}
         /\ \A t \in Bin!Torn(things) : \E u \in things : u.file = t.file
<1>1. \A t \in things : [t EXCEPT !.whole = FALSE].file = t.file
        /\ [t EXCEPT !.whole = FALSE].whole = FALSE
        /\ [t EXCEPT !.whole = FALSE] \in Bin!Content
  BY DEF Bin!Content
<1> QED
  BY <1>1 DEF Bin!Torn, Bin!Whole

\* Nothing is whole where nothing is.
LEMMA NoneIsWhole == Bin!Whole({}) = {}
BY DEF Bin!Whole

\* What is whole somewhere is one of the files there.
LEMMA WholeAreFiles ==
  ASSUME NEW things, things \subseteq Bin!Content
  PROVE  /\ Bin!Whole(things) \subseteq {t.file : t \in things}
         /\ Bin!Whole(things) \subseteq 1 .. MaxFiles
BY DEF Bin!Whole, Bin!Content

\* What is chosen: one or two.
LEMMA SelectionsAre ==
  ASSUME NEW S, NEW x \in Bin!Selections(S)
  PROVE  /\ x \in Seq(S) /\ Len(x) \in {1, 2} /\ DOMAIN x = 1 .. Len(x)
         /\ \A i \in DOMAIN x : x[i] \in S
<1>1. CASE \E y \in S : x = <<y>>
  <2>1. PICK y \in S : x = <<y>>
    BY <1>1
  <2> QED
    BY <2>1
<1>2. CASE x \in S \X S
  <2>1. PICK y \in S, z \in S : x = <<y, z>>
    BY <1>2
  <2> QED
    BY <2>1
<1> QED
  BY <1>1, <1>2 DEF Bin!Selections

-----------------------------------------------------------------------------
\* What an item of a frame is.
LEMMA CurIs ==
  ASSUME TrashTypes, NEW c \in Callers, trashCall[c].todo # <<>>
  PROVE  /\ Bin!Cur(c) = trashCall[c].todo[1] /\ 1 \in DOMAIN trashCall[c].todo
         /\ Bin!Cur(c) \in Bin!Item /\ Bin!Cur(c).slot \in Bin!Slots
         /\ Bin!Cur(c).origin \subseteq Places
<1>1. PICK td : td = trashCall[c].todo /\ td \in Seq(Bin!Item) /\ td # <<>>
  BY DEF TrashTypes, Frames
<1>2. Head(td) = td[1] /\ 1 \in DOMAIN td /\ td[1] \in Bin!Item
  BY <1>1
<1> QED
  BY <1>1, <1>2 DEF Bin!Cur, Bin!Item

\* Only c's call changes, and its new frame has its shape.
CallStep(c) ==
  /\ trashCall' \in [Callers -> Frames] /\ OneCall' /\ Alone(c)'
  /\ FrameShape(trashCall[c])'
  /\ \A d \in Callers : d # c => trashCall'[d] = Bin!Idle

\* An idle call is a call.
LEMMA IdleFrame == Bin!Idle \in Frames /\ FrameShape(Bin!Idle)
  /\ Bin!Idle.op = "none" /\ Bin!Idle.step = "idle" /\ Bin!Idle.todo = <<>>
<1>1. <<>> \in Seq(Bin!Item)
  BY EmptySeq
<1> QED
  BY <1>1 DEF Bin!Idle, Frames, FrameShape

\* The only call under way moves on, and stays the only one.
LEMMA AloneSteps ==
  ASSUME TrashTypes, NEW c \in Callers, Alone(c), NEW f \in Frames, FrameShape(f),
         trashCall' = [trashCall EXCEPT ![c] = f]
  PROVE  CallStep(c) /\ trashCall'[c] = f
<1>1. trashCall \in [Callers -> Frames]
  BY DEF TrashTypes
<1>2. trashCall' \in [Callers -> Frames] /\ trashCall'[c] = f
  BY <1>1
<1>3. \A d \in Callers : d # c => trashCall'[d] = Bin!Idle
  BY <1>1 DEF Alone
<1> QED
  BY <1>2, <1>3 DEF CallStep, OneCall, Alone

\* A call begins only while no other is under way.
LEMMA Begins ==
  ASSUME TrashTypes, NEW c \in Callers, NEW op, NEW step, NEW todo,
         Bin!Begin(c, op, step, todo),
         [op |-> op, step |-> step, todo |-> todo] \in Frames,
         FrameShape([op |-> op, step |-> step, todo |-> todo])
  PROVE  /\ CallStep(c) /\ trashCall'[c] = [op |-> op, step |-> step, todo |-> todo]
         /\ \A d \in Callers : trashCall[d] = Bin!Idle
<1>1. \A d \in Callers : trashCall[d] = Bin!Idle
  BY DEF Bin!Begin, Bin!Quiet
<1>2. Alone(c)
  BY <1>1 DEF Alone
<1> DEFINE f == [op |-> op, step |-> step, todo |-> todo]
<1>3. trashCall' = [trashCall EXCEPT ![c] = f]
  BY DEF Bin!Begin
<1> HIDE DEF f
<1>4. f \in Frames /\ FrameShape(f)
  BY DEF f
<1>5. CallStep(c) /\ trashCall'[c] = f
  BY <1>2, <1>3, <1>4, AloneSteps
<1> QED
  BY <1>1, <1>5 DEF f

\* A call that gives up is idle.
LEMMA GivesUp ==
  ASSUME TrashTypes, NEW c \in Callers, Alone(c), Bin!GiveUp(c)
  PROVE  CallStep(c) /\ trashCall'[c] = Bin!Idle
BY AloneSteps, IdleFrame DEF Bin!GiveUp

\* A call that goes to a step keeps what it has to do.
LEMMA GoesTo ==
  ASSUME TrashTypes, NEW c \in Callers, Alone(c), NEW step, Bin!GoTo(c, step),
         [trashCall[c] EXCEPT !.step = step] \in Frames,
         FrameShape([trashCall[c] EXCEPT !.step = step])
  PROVE  /\ CallStep(c) /\ trashCall'[c].op = trashCall[c].op /\ trashCall'[c].step = step
         /\ trashCall'[c].todo = trashCall[c].todo
<1> DEFINE f == [trashCall[c] EXCEPT !.step = step]
<1>1. trashCall' = [trashCall EXCEPT ![c] = f]
  BY DEF Bin!GoTo
<1>2. f.op = trashCall[c].op /\ f.step = step /\ f.todo = trashCall[c].todo
  BY DEF TrashTypes, Frames
<1> HIDE DEF f
<1>3. f \in Frames /\ FrameShape(f)
  BY DEF f
<1>4. CallStep(c) /\ trashCall'[c] = f
  BY <1>1, <1>3, AloneSteps
<1> QED
  BY <1>2, <1>4

\* What is still to be done after the first.
LEMMA TailIs ==
  ASSUME NEW S, NEW td \in Seq(S), td # <<>>, Len(td) # 1
  PROVE  /\ Tail(td) \in Seq(S) /\ Tail(td) # <<>>
         /\ \A i \in DOMAIN Tail(td) : i + 1 \in DOMAIN td /\ Tail(td)[i] = td[i + 1]
<1>1. Len(td) \in Nat /\ Len(td) > 1 /\ DOMAIN td = 1 .. Len(td)
  <2>1. Len(td) \in Nat /\ DOMAIN td = 1 .. Len(td)
    BY LenProperties
  <2>2. Len(td) # 0
    BY EmptySeq
  <2> QED
    BY <2>1, <2>2
<1>2. Tail(td) \in Seq(S) /\ Len(Tail(td)) = Len(td) - 1
                /\ \A i \in 1 .. Len(Tail(td)) : Tail(td)[i] = td[i + 1]
  BY HeadTailProperties
<1>3. DOMAIN Tail(td) = 1 .. Len(td) - 1
  BY <1>1, <1>2, LenProperties
<1>4. \A i \in 1 .. Len(td) - 1 : i + 1 \in DOMAIN td /\ Tail(td)[i] = td[i + 1]
  BY <1>1, <1>2
<1>5. Tail(td) # <<>>
  <2>1. Len(<<>>) = 0
    OBVIOUS
  <2>2. Len(Tail(td)) # 0
    BY <1>1, <1>2
  <2> QED
    BY <2>1, <2>2
<1> QED
  BY <1>2, <1>3, <1>4, <1>5

\* The next item, or the end.
LEMMA Advances ==
  ASSUME TrashTypes, NEW c \in Callers, Alone(c), FrameShape(trashCall[c]),
         NEW step, Bin!Advance(c, step),
         trashCall[c].op = "put" => step = "name",
         trashCall[c].op = "restore" => step = "check",
         trashCall[c].op = "remove" => step = "drop",
         trashCall[c].op \in {"put", "restore", "remove"}
  PROVE  /\ CallStep(c)
         /\ \/ trashCall'[c] = Bin!Idle
            \/ /\ trashCall'[c].op = trashCall[c].op /\ trashCall'[c].step = step
               /\ \A i \in DOMAIN trashCall'[c].todo :
                    i + 1 \in DOMAIN trashCall[c].todo
                    /\ trashCall'[c].todo[i] = trashCall[c].todo[i + 1]
<1> DEFINE f == [op |-> trashCall[c].op, step |-> step, todo |-> Tail(trashCall[c].todo)]
<1>1. trashCall[c] \in Frames
  BY DEF TrashTypes
<1>2. PICK td : td = trashCall[c].todo /\ td \in Seq(Bin!Item)
  BY <1>1 DEF Frames
<1>3. td # <<>>
  BY <1>2 DEF FrameShape
<1>4. CASE Len(td) = 1
  <2>1. trashCall' = [trashCall EXCEPT ![c] = Bin!Idle]
    BY <1>2, <1>4 DEF Bin!Advance, TrashTypes
  <2> QED
    BY <2>1, AloneSteps, IdleFrame
<1>5. CASE Len(td) # 1
  <2>1. trashCall' = [trashCall EXCEPT ![c] = f]
    BY <1>2, <1>5 DEF Bin!Advance, TrashTypes
  <2>2. Tail(td) \in Seq(Bin!Item) /\ Tail(td) # <<>>
        /\ \A i \in DOMAIN Tail(td) : i + 1 \in DOMAIN td /\ Tail(td)[i] = td[i + 1]
    BY <1>2, <1>3, <1>5, TailIs
  <2>3. f \in Frames
    BY <1>1, <1>2, <2>2 DEF Frames
  <2>4. \A i \in DOMAIN f.todo : i + 1 \in DOMAIN td /\ f.todo[i] = td[i + 1]
    BY <1>2, <2>2
  <2>5. f.todo # <<>> /\ f.op = trashCall[c].op /\ f.step = step
    BY <1>2, <2>2
  <2> HIDE DEF f
  <2>6. \A i \in DOMAIN f.todo : \A p, q \in f.todo[i].origin : p = q
    BY <1>2, <2>4 DEF FrameShape
  <2>7. f.op = "put" => \A i \in DOMAIN f.todo : f.todo[i].origin # {}
    BY <1>2, <2>4, <2>5 DEF FrameShape
  <2>8. FrameShape(f)
    BY <2>5, <2>6, <2>7 DEF FrameShape
  <2>9. CallStep(c) /\ trashCall'[c] = f
    BY <2>1, <2>3, <2>8, AloneSteps
  <2> QED
    BY <1>2, <2>4, <2>5, <2>9
<1> QED
  BY <1>4, <1>5

\* Who is at a step is alone.
LEMMA BusyIsAlone ==
  ASSUME OneCall, NEW c \in Callers, trashCall[c].op # "none"
  PROVE  Alone(c)
BY IdleFrame DEF OneCall

-----------------------------------------------------------------------------
\* What of the invariant is about the things and the notes.
DataOK ==
  /\ places \in [Places -> SUBSET Bin!Content]
  /\ files \in [Bin!Slots -> SUBSET Bin!Content]
  /\ info \in [Bin!Slots -> SUBSET Places]
  /\ madeAt \in Seq(Places) /\ Len(madeAt) <= MaxFiles
  /\ purged \subseteq 1 .. Len(madeAt) /\ broken \subseteq 1 .. Len(madeAt)
  /\ undo \in [Places -> SUBSET (1 .. MaxFiles)]
  /\ faults \in 0 .. MaxFaults
  /\ WasMade /\ OneOrigin

\* A file is whole somewhere, or was removed for good or torn on purpose.
Kept(n) ==
  \/ n \in purged \cup broken
  \/ \E p \in Places : n \in Bin!Whole(places[p])
  \/ \E s \in Bin!Slots : n \in Bin!Whole(files[s])

\* TrashInv has the types.
LEMMA InvHasData == TrashInv => DataOK /\ TrashTypes /\ OneCall
BY DEF TrashInv, DataOK, TrashTypes

\* What one step of one call has to show.
LEMMA Concludes ==
  ASSUME NEW c \in Callers, DataOK', CallStep(c), PutSafe(c)', RestoreSafe(c)',
         Bin!NothingTrashedIsLost'
  PROVE  TrashInv' /\ CallStep(c)
<1>1. \A d \in Callers : d # c => Sound(d)'
  BY IdleFrame DEF CallStep, Sound, PutSafe, RestoreSafe, Bin!At
<1>2. Sound(c)'
  BY DEF CallStep, Sound
<1> QED
  BY <1>1, <1>2 DEF TrashInv, TrashTypes, DataOK, CallStep

\* Nothing is lost by a step if what was whole somewhere is kept.
LEMMA KeptAll ==
  ASSUME Bin!NothingTrashedIsLost, madeAt' = madeAt,
         purged \cup broken \subseteq purged' \cup broken',
         \A p \in Places : \A n \in Bin!Whole(places[p]) : Kept(n)',
         \A s \in Bin!Slots : \A n \in Bin!Whole(files[s]) : Kept(n)'
  PROVE  Bin!NothingTrashedIsLost'
<1> SUFFICES ASSUME NEW n \in 1 .. Len(madeAt) PROVE Kept(n)'
  BY DEF Bin!NothingTrashedIsLost, Kept
<1>1. Kept(n)
  BY DEF Bin!NothingTrashedIsLost, Kept
<1> QED
  BY <1>1 DEF Kept

\* A step that moves nothing needs nothing of the places.
LEMMA PlainStep ==
  ASSUME NEW c \in Callers,
         trashCall'[c].op = "put" => trashCall'[c].step \notin {"move", "copy", "delete"},
         trashCall'[c].op = "restore" => trashCall'[c].step \notin {"move", "copy", "drop"}
  PROVE  PutSafe(c)' /\ RestoreSafe(c)'
BY DEF PutSafe, RestoreSafe, Bin!At

\* Steps that move nothing.
LEMMA OnlyCalls ==
  ASSUME TrashInv, NEW c \in Callers,
         UNCHANGED <<places, files, info, madeAt, purged, broken>>,
         undo' \in [Places -> SUBSET (1 .. MaxFiles)], faults' \in 0 .. MaxFaults,
         CallStep(c), PutSafe(c)', RestoreSafe(c)'
  PROVE  TrashInv' /\ CallStep(c)
<1>1. DataOK'
  BY InvHasData DEF DataOK, WasMade, OneOrigin
<1>2. Bin!NothingTrashedIsLost'
  BY DEF TrashInv, Bin!NothingTrashedIsLost
<1> QED
  BY <1>1, <1>2, Concludes

\* What holds for a call under way.
LEMMA Busy ==
  ASSUME TrashInv, NEW c \in Callers, trashCall[c].op \in {"put", "restore", "remove"}
  PROVE  /\ Alone(c) /\ FrameShape(trashCall[c]) /\ PutSafe(c) /\ RestoreSafe(c)
         /\ trashCall[c] \in Frames /\ trashCall[c].todo # <<>>
         /\ Bin!Cur(c).slot \in Bin!Slots /\ Bin!Cur(c).origin \subseteq Places
         /\ \A p, q \in Bin!Cur(c).origin : p = q
         /\ trashCall[c].op = "put" => Bin!Cur(c).origin # {}
<1>1. TrashTypes /\ OneCall /\ Sound(c)
  BY DEF TrashInv
<1>2. Alone(c)
  BY <1>1, BusyIsAlone
<1>3. FrameShape(trashCall[c]) /\ trashCall[c] \in Frames /\ trashCall[c].todo # <<>>
  BY <1>1 DEF Sound, FrameShape, TrashTypes
<1>4. /\ Bin!Cur(c).slot \in Bin!Slots /\ Bin!Cur(c).origin \subseteq Places
      /\ Bin!Cur(c) = trashCall[c].todo[1] /\ 1 \in DOMAIN trashCall[c].todo
  BY <1>1, <1>3, CurIs
<1>5. /\ \A p, q \in Bin!Cur(c).origin : p = q
      /\ trashCall[c].op = "put" => Bin!Cur(c).origin # {}
  BY <1>3, <1>4 DEF FrameShape
<1> QED
  BY <1>1, <1>2, <1>3, <1>4, <1>5 DEF Sound

\* No place has an undo to begin with.
LEMMA NoUndoType == Bin!NoUndo \in [Places -> SUBSET (1 .. MaxFiles)]
BY DEF Bin!NoUndo

\* The next step of the same item.
LEMMA SameItem ==
  ASSUME TrashInv, NEW c \in Callers, trashCall[c].op \in {"put", "restore", "remove"},
         NEW step, Bin!GoTo(c, step),
         trashCall[c].op = "put" => step \in {"name", "move", "copy", "delete", "info"},
         trashCall[c].op = "restore" => step \in {"check", "move", "copy", "drop", "meta"},
         trashCall[c].op = "remove" => step \in {"drop", "meta"}
  PROVE  /\ CallStep(c) /\ trashCall'[c].op = trashCall[c].op /\ trashCall'[c].step = step
         /\ trashCall'[c].todo = trashCall[c].todo /\ Bin!Cur(c)' = Bin!Cur(c)
<1>1. Alone(c) /\ FrameShape(trashCall[c]) /\ trashCall[c] \in Frames /\ TrashTypes
  BY Busy, InvHasData
<1> DEFINE f == [trashCall[c] EXCEPT !.step = step]
<1>2. f.op = trashCall[c].op /\ f.step = step /\ f.todo = trashCall[c].todo
  BY <1>1 DEF Frames
<1>3. f \in Frames
  BY <1>1 DEF Frames
<1>4. FrameShape(f)
  <2> HIDE DEF f
  <2> QED
    BY <1>1, <1>2 DEF FrameShape
<1>5. /\ CallStep(c) /\ trashCall'[c].op = trashCall[c].op /\ trashCall'[c].step = step
      /\ trashCall'[c].todo = trashCall[c].todo
  BY <1>1, <1>3, <1>4, GoesTo
<1> QED
  BY <1>5 DEF Bin!Cur

-----------------------------------------------------------------------------
\* Delete.
LEMMA ItemsOf ==
  ASSUME NEW n \in {1, 2}, NEW td \in [1 .. n -> Bin!Item]
  PROVE  td \in Seq(Bin!Item) /\ td # <<>> /\ DOMAIN td = 1 .. n
<1>1. td \in Seq(Bin!Item)
  BY SeqDef
<1>2. 1 \in DOMAIN td
  OBVIOUS
<1> QED
  BY <1>1, <1>2

\* A call begins on what was chosen.
LEMMA BeginsOn ==
  ASSUME TrashInv, NEW c \in Callers, NEW op, NEW step,
         NEW n \in {1, 2}, NEW td \in [1 .. n -> Bin!Item],
         \A i \in 1 .. n : \A p, q \in td[i].origin : p = q,
         op = "put" => \A i \in 1 .. n : td[i].origin # {},
         Bin!Begin(c, op, step, td),
         <<op, step>> \in {<<"put", "name">>, <<"restore", "check">>, <<"remove", "drop">>}
  PROVE  /\ CallStep(c) /\ trashCall'[c] = [op |-> op, step |-> step, todo |-> td]
         /\ PutSafe(c)' /\ RestoreSafe(c)'
         /\ \A d \in Callers : trashCall[d] = Bin!Idle
<1>3. td \in Seq(Bin!Item) /\ td # <<>> /\ DOMAIN td = 1 .. n
  BY ItemsOf
<1> DEFINE f == [op |-> op, step |-> step, todo |-> td]
<1>4. f.op = op /\ f.step = step /\ f.todo = td
  OBVIOUS
<1>5. f \in Frames
  BY <1>3 DEF Frames
<1>6. FrameShape(f)
  BY <1>3 DEF FrameShape
<1>7. /\ CallStep(c) /\ trashCall'[c] = f
      /\ \A d \in Callers : trashCall[d] = Bin!Idle
  BY <1>5, <1>6, InvHasData, Begins
<1>8. PutSafe(c)' /\ RestoreSafe(c)'
  <2>1. trashCall'[c].op = op /\ trashCall'[c].step = step
    BY <1>4, <1>7
  <2> QED
    BY <2>1, PlainStep
<1> QED
  BY <1>7, <1>8

\* Delete begins (trash.go, MoveToTrash).
LEMMA PutStep ==
  ASSUME TrashInv, NEW c \in Callers, Bin!Put(c) PROVE TrashInv' /\ CallStep(c)
<1>0. TrashTypes /\ DataOK
  BY InvHasData
<1>1. PICK chosen \in Bin!Selections({p \in Places : places[p] # {}}) :
        Bin!Begin(c, "put", "name", [i \in DOMAIN chosen |-> [slot |-> 1, origin |-> {chosen[i]}]])
  BY DEF Bin!Put
<1>2. PICK n \in {1, 2} : DOMAIN chosen = 1 .. n /\ \A i \in 1 .. n : chosen[i] \in Places
  BY SelectionsAre
<1> DEFINE td == [i \in 1 .. n |-> [slot |-> 1, origin |-> {chosen[i]}]]
<1>3. \A i \in 1 .. n : td[i] \in Bin!Item /\ td[i].origin = {chosen[i]}
  BY <1>2, BinAssumption DEF Bin!Item, Bin!Slots
<1>4. td \in [1 .. n -> Bin!Item] /\ Bin!Begin(c, "put", "name", td)
  BY <1>1, <1>2, <1>3
<1> HIDE DEF td
<1>5. CallStep(c) /\ PutSafe(c)' /\ RestoreSafe(c)'
  BY <1>3, <1>4, BeginsOn
<1>6. UNCHANGED <<places, files, info, madeAt, purged, broken, faults>> /\ undo' = Bin!NoUndo
  BY DEF Bin!Put
<1> QED
  BY <1>0, <1>5, <1>6, OnlyCalls, NoUndoType DEF DataOK

\* Delete is given a name in the trash (uniqueTrashName).
LEMMA PutNameStep ==
  ASSUME TrashInv, NEW c \in Callers, Bin!PutName(c) PROVE TrashInv' /\ CallStep(c)
<1>0. TrashTypes /\ DataOK /\ trashCall[c].op = "put" /\ trashCall[c].step = "name"
  BY InvHasData DEF Bin!PutName, Bin!At
<1>1. UNCHANGED <<places, files, info, madeAt, purged, broken, faults, undo>>
  BY DEF Bin!PutName
<1>2. CallStep(c) /\ PutSafe(c)' /\ RestoreSafe(c)'
  <2>1. CASE Bin!GiveUp(c)
    <3>1. CallStep(c) /\ trashCall'[c] = Bin!Idle
      BY <1>0, <2>1, Busy, GivesUp
    <3> QED
      BY <3>1, PlainStep, IdleFrame
  <2>2. CASE /\ Bin!FreeNames # {}
             /\ trashCall' = [trashCall EXCEPT ![c].step = "move",
                                              ![c].todo[1].slot = Bin!UniqueTrashName]
    <3> DEFINE s == Bin!UniqueTrashName
    <3>1. s \in Bin!Slots /\ files[s] = {}
      BY <2>2, NameIsFree
    <3> HIDE DEF s
    <3>2. PICK td : td = trashCall[c].todo /\ td \in Seq(Bin!Item) /\ td # <<>>
      BY <1>0, Busy DEF Frames
    <3>3. 1 \in DOMAIN td /\ DOMAIN td = 1 .. Len(td) /\ td[1] \in Bin!Item
      BY <3>2
    <3> DEFINE it == [td[1] EXCEPT !.slot = s]
    <3>4. it \in Bin!Item /\ it.slot = s /\ it.origin = td[1].origin
      BY <3>1, <3>3 DEF Bin!Item
    <3> HIDE DEF it
    <3> DEFINE td2 == [td EXCEPT ![1] = it]
    <3>5. td2 \in Seq(Bin!Item) /\ DOMAIN td2 = DOMAIN td /\ td2[1] = it /\ td2 # <<>>
          /\ \A i \in DOMAIN td : i # 1 => td2[i] = td[i]
      BY <3>2, <3>3, <3>4
    <3> HIDE DEF td2
    <3> DEFINE f == [trashCall[c] EXCEPT !.step = "move", !.todo = td2]
    <3>6. trashCall' = [trashCall EXCEPT ![c] = f]
      BY <1>0, <2>2, <3>2 DEF TrashTypes, Frames, td2, it, s
    <3>7. f.op = "put" /\ f.step = "move" /\ f.todo = td2 /\ f \in Frames
      BY <1>0, <3>5 DEF TrashTypes, Frames
    <3> HIDE DEF f
    <3>8. FrameShape(trashCall[c]) /\ Alone(c)
      BY <1>0, Busy
    <3>9. \A i \in DOMAIN td2 : /\ \A p, q \in td2[i].origin : p = q
                                /\ td2[i].origin # {}
      BY <1>0, <3>2, <3>3, <3>4, <3>5, <3>8 DEF FrameShape
    <3>10. FrameShape(f)
      BY <3>5, <3>7, <3>9 DEF FrameShape
    <3>11. CallStep(c) /\ trashCall'[c] = f
      BY <1>0, <3>6, <3>7, <3>8, <3>10, AloneSteps
    <3>12. Head(td2) = it
      BY <3>5
    <3>13. Bin!Cur(c)'.slot = s
      BY <3>4, <3>7, <3>11, <3>12 DEF Bin!Cur
    <3> QED
      BY <1>1, <3>1, <3>7, <3>11, <3>13 DEF PutSafe, RestoreSafe, Bin!At
  <2> QED
    BY <2>1, <2>2 DEF Bin!PutName
<1> QED
  BY <1>0, <1>1, <1>2, OnlyCalls DEF DataOK

\* Things that were made.
Made(X) == X \subseteq Bin!Content /\ \A t \in X : t.file <= Len(madeAt)

\* What is anywhere was made.
LEMMA MadeSets ==
  ASSUME DataOK
  PROVE  /\ \A p \in Places : Made(places[p])
         /\ \A s \in Bin!Slots : Made(files[s])
         /\ Made({})
BY DEF DataOK, WasMade, Made

\* What is left of a thing that was partly removed was made.
LEMMA MadeTorn ==
  ASSUME NEW X, Made(X)
  PROVE  Made(Bin!Torn(X))
BY TornIsNotWhole DEF Made

\* What is whole somewhere has a number that was given.
LEMMA MadeWhole ==
  ASSUME DataOK, NEW X, Made(X)
  PROVE  /\ Bin!Whole(X) \subseteq {t.file : t \in X}
         /\ {t.file : t \in X} \subseteq 1 .. Len(madeAt)
         /\ Bin!Whole(X) \subseteq 1 .. Len(madeAt)
         /\ Bin!Whole(X) \subseteq 1 .. MaxFiles
<1>1. Bin!Whole(X) \subseteq {t.file : t \in X} /\ Bin!Whole(X) \subseteq 1 .. MaxFiles
  BY WholeAreFiles DEF Made
<1>2. ASSUME NEW t \in X PROVE t.file \in 1 .. Len(madeAt)
  <2>1. t.file \in 1 .. MaxFiles /\ t.file <= Len(madeAt)
    BY DEF Made, Bin!Content
  <2>2. MaxFiles \in Nat /\ Len(madeAt) \in Nat
    BY BinAssumption DEF DataOK
  <2> QED
    BY <2>1, <2>2
<1> QED
  BY <1>1, <1>2

\* A step that makes nothing keeps the types.
LEMMA DataStep ==
  ASSUME DataOK, madeAt' = madeAt,
         files' \in [Bin!Slots -> SUBSET Bin!Content], \A s \in Bin!Slots : Made(files'[s]),
         places' \in [Places -> SUBSET Bin!Content], \A p \in Places : Made(places'[p]),
         info' \in [Bin!Slots -> SUBSET Places], OneOrigin',
         purged' \subseteq 1 .. Len(madeAt), broken' \subseteq 1 .. Len(madeAt),
         undo' \in [Places -> SUBSET (1 .. MaxFiles)], faults' \in 0 .. MaxFaults
  PROVE  DataOK'
BY DEF DataOK, WasMade, Made

\* One name of the trash changes.
LEMMA FilesData ==
  ASSUME DataOK, NEW s \in Bin!Slots, NEW X, Made(X), files' = [files EXCEPT ![s] = X],
         UNCHANGED <<places, info, madeAt>>,
         purged' \subseteq 1 .. Len(madeAt), broken' \subseteq 1 .. Len(madeAt),
         undo' \in [Places -> SUBSET (1 .. MaxFiles)], faults' \in 0 .. MaxFaults
  PROVE  DataOK'
<1>1. \A r \in Bin!Slots : Made(files'[r])
  BY MadeSets DEF DataOK
<1>2. files' \in [Bin!Slots -> SUBSET Bin!Content]
  BY <1>1 DEF DataOK, Made
<1>3. \A p \in Places : Made(places'[p])
  BY MadeSets
<1> QED
  BY <1>1, <1>2, <1>3, DataStep DEF DataOK, OneOrigin

\* One place changes.
LEMMA PlacesData ==
  ASSUME DataOK, NEW p \in Places, NEW X, Made(X), places' = [places EXCEPT ![p] = X],
         UNCHANGED <<files, info, madeAt>>,
         purged' \subseteq 1 .. Len(madeAt), broken' \subseteq 1 .. Len(madeAt),
         undo' \in [Places -> SUBSET (1 .. MaxFiles)], faults' \in 0 .. MaxFaults
  PROVE  DataOK'
<1>1. \A r \in Places : Made(places'[r])
  BY MadeSets DEF DataOK
<1>2. places' \in [Places -> SUBSET Bin!Content]
  BY <1>1 DEF DataOK, Made
<1>3. \A s \in Bin!Slots : Made(files'[s])
  BY MadeSets
<1> QED
  BY <1>1, <1>2, <1>3, DataStep DEF DataOK, OneOrigin

\* One place and one name of the trash change.
LEMMA DataMoves ==
  ASSUME DataOK, NEW p \in Places, NEW s \in Bin!Slots, NEW X, NEW Y, Made(X), Made(Y),
         places' = [places EXCEPT ![p] = X], files' = [files EXCEPT ![s] = Y],
         UNCHANGED <<info, madeAt, purged, broken, undo, faults>>
  PROVE  DataOK'
<1>1. \A r \in Places : Made(places'[r])
  BY MadeSets DEF DataOK
<1>2. places' \in [Places -> SUBSET Bin!Content]
  BY <1>1 DEF DataOK, Made
<1>3. \A r \in Bin!Slots : Made(files'[r])
  BY MadeSets DEF DataOK
<1>4. files' \in [Bin!Slots -> SUBSET Bin!Content]
  BY <1>3 DEF DataOK, Made
<1> QED
  BY <1>1, <1>2, <1>3, <1>4, DataStep DEF DataOK, OneOrigin

\* What is whole at no other place stays kept.
LEMMA KeptFiles ==
  ASSUME Bin!NothingTrashedIsLost, files \in [Bin!Slots -> SUBSET Bin!Content],
         NEW s \in Bin!Slots, NEW X, files' = [files EXCEPT ![s] = X],
         UNCHANGED <<places, madeAt>>,
         purged \cup broken \subseteq purged' \cup broken',
         \A n \in Bin!Whole(files[s]) : Kept(n)'
  PROVE  Bin!NothingTrashedIsLost'
<1>1. \A p \in Places : \A n \in Bin!Whole(places[p]) : Kept(n)'
  BY DEF Kept
<1>2. \A r \in Bin!Slots : r # s => files'[r] = files[r]
  OBVIOUS
<1>3. \A r \in Bin!Slots : \A n \in Bin!Whole(files[r]) : Kept(n)'
  BY <1>2 DEF Kept
<1> QED
  BY <1>1, <1>3, KeptAll

\* Nothing is lost when what one place held is kept elsewhere.
LEMMA KeptPlaces ==
  ASSUME Bin!NothingTrashedIsLost, places \in [Places -> SUBSET Bin!Content],
         NEW p \in Places, NEW X, places' = [places EXCEPT ![p] = X],
         UNCHANGED <<files, madeAt>>,
         purged \cup broken \subseteq purged' \cup broken',
         \A n \in Bin!Whole(places[p]) : Kept(n)'
  PROVE  Bin!NothingTrashedIsLost'
<1>1. \A s \in Bin!Slots : \A n \in Bin!Whole(files[s]) : Kept(n)'
  BY DEF Kept
<1>2. \A r \in Places : r # p => places'[r] = places[r]
  OBVIOUS
<1>3. \A r \in Places : \A n \in Bin!Whole(places[r]) : Kept(n)'
  BY <1>2 DEF Kept
<1> QED
  BY <1>1, <1>3, KeptAll

\* Delete renames the file into the trash, or goes on to copy it.
LEMMA PutMoveStep ==
  ASSUME TrashInv, NEW c \in Callers, Bin!PutMove(c) PROVE TrashInv' /\ CallStep(c)
<1>0. TrashTypes /\ DataOK /\ trashCall[c].op = "put" /\ trashCall[c].step = "move"
      /\ Bin!NothingTrashedIsLost
  BY InvHasData DEF Bin!PutMove, Bin!At, TrashInv
<1> DEFINE s == Bin!Cur(c).slot
<1>1. /\ s \in Bin!Slots /\ files[s] = {} /\ Alone(c)
      /\ Bin!Cur(c).origin \subseteq Places /\ \A p, q \in Bin!Cur(c).origin : p = q
  BY <1>0, Busy DEF PutSafe, Bin!At
<1>2. UNCHANGED <<info, madeAt, purged, broken, undo, faults>>
  BY DEF Bin!PutMove
<1>3. PICK p \in Bin!Cur(c).origin :
       \/ places[p] = {} /\ Bin!GiveUp(c) /\ UNCHANGED <<places, files>>
       \/ /\ files' = [files EXCEPT ![s] = places[p]]
          /\ places' = [places EXCEPT ![p] = {}] /\ Bin!GoTo(c, "info")
       \/ /\ files' = [files EXCEPT ![s] = Bin!Torn(places[p])]
          /\ Bin!GoTo(c, "copy") /\ UNCHANGED places
  BY DEF Bin!PutMove
<1>4. p \in Places /\ Made(places[p]) /\ Made({}) /\ Made(files[s])
  BY <1>0, <1>1, <1>3, MadeSets
<1>5. CASE places[p] = {} /\ Bin!GiveUp(c) /\ UNCHANGED <<places, files>>
  <2>1. CallStep(c) /\ trashCall'[c] = Bin!Idle
    BY <1>0, <1>1, <1>5, GivesUp
  <2>2. PutSafe(c)' /\ RestoreSafe(c)'
    BY <2>1, PlainStep, IdleFrame
  <2> QED
    BY <1>0, <1>2, <1>5, <2>1, <2>2, OnlyCalls DEF DataOK
<1>6. CASE /\ files' = [files EXCEPT ![s] = places[p]]
           /\ places' = [places EXCEPT ![p] = {}] /\ Bin!GoTo(c, "info")
  <2>1. CallStep(c) /\ trashCall'[c].op = "put" /\ trashCall'[c].step = "info"
    BY <1>0, <1>6, SameItem
  <2>2. PutSafe(c)' /\ RestoreSafe(c)'
    BY <2>1, PlainStep
  <2>3. DataOK'
    BY <1>0, <1>1, <1>2, <1>4, <1>6, DataMoves
  <2>4. files'[s] = places[p] /\ \A r \in Places : r # p => places'[r] = places[r]
    BY <1>0, <1>1, <1>4, <1>6 DEF DataOK
  <2>5. \A r \in Bin!Slots : r # s => files'[r] = files[r]
    BY <1>0, <1>6 DEF DataOK
  <2>6. \A r \in Places : \A n \in Bin!Whole(places[r]) : Kept(n)'
    BY <1>1, <2>4 DEF Kept
  <2>7. \A r \in Bin!Slots : \A n \in Bin!Whole(files[r]) : Kept(n)'
    BY <1>1, <2>5, NoneIsWhole DEF Kept
  <2>8. Bin!NothingTrashedIsLost'
    BY <1>0, <1>2, <2>6, <2>7, KeptAll
  <2> QED
    BY <2>1, <2>2, <2>3, <2>8, Concludes
<1>7. CASE /\ files' = [files EXCEPT ![s] = Bin!Torn(places[p])]
           /\ Bin!GoTo(c, "copy") /\ UNCHANGED places
  <2>1. CallStep(c) /\ trashCall'[c].op = "put" /\ trashCall'[c].step = "copy"
        /\ Bin!Cur(c)' = Bin!Cur(c)
    BY <1>0, <1>7, SameItem
  <2>2. files'[s] = Bin!Torn(places[p]) /\ Bin!Whole(Bin!Torn(places[p])) = {}
    BY <1>0, <1>1, <1>4, <1>7, TornIsNotWhole DEF DataOK, Made
  <2>3. Bin!Whole(files'[s]) = {}
    BY <2>2
  <2>4. Bin!Whole(files[Bin!Cur(c).slot])' = {}
    BY <2>1, <2>3
  <2>5. PutSafe(c)' /\ RestoreSafe(c)'
    BY <2>1, <2>4 DEF PutSafe, RestoreSafe, Bin!At
  <2>6. DataOK'
    BY <1>0, <1>1, <1>2, <1>4, <1>7, MadeTorn, FilesData DEF DataOK
  <2>7. Bin!NothingTrashedIsLost'
    BY <1>0, <1>1, <1>2, <1>7, NoneIsWhole, KeptFiles DEF DataOK
  <2> QED
    BY <2>1, <2>5, <2>6, <2>7, Concludes
<1> QED
  BY <1>3, <1>5, <1>6, <1>7

\* Delete has copied the file to the trash.
LEMMA PutCopiedStep ==
  ASSUME TrashInv, NEW c \in Callers, Bin!PutCopied(c) PROVE TrashInv' /\ CallStep(c)
<1>0. TrashTypes /\ DataOK /\ trashCall[c].op = "put" /\ trashCall[c].step = "copy"
      /\ Bin!NothingTrashedIsLost
  BY InvHasData DEF Bin!PutCopied, Bin!At, TrashInv
<1> DEFINE s == Bin!Cur(c).slot
<1>1. /\ s \in Bin!Slots /\ Bin!Whole(files[s]) = {}
      /\ Bin!Cur(c).origin \subseteq Places /\ \A p, q \in Bin!Cur(c).origin : p = q
  BY <1>0, Busy DEF PutSafe, Bin!At
<1>2. UNCHANGED <<places, info, madeAt, purged, broken, undo, faults>> /\ Bin!GoTo(c, "delete")
  BY DEF Bin!PutCopied
<1>3. PICK p \in Bin!Cur(c).origin : files' = [files EXCEPT ![s] = places[p]]
  BY DEF Bin!PutCopied
<1>4. p \in Places /\ Made(places[p])
  BY <1>0, <1>1, <1>3, MadeSets
<1>5. /\ CallStep(c) /\ trashCall'[c].op = "put" /\ trashCall'[c].step = "delete"
      /\ Bin!Cur(c)' = Bin!Cur(c)
  BY <1>0, <1>2, SameItem
<1>6. files'[s] = places'[p]
  BY <1>0, <1>1, <1>2, <1>3 DEF DataOK
<1>7. PutSafe(c)' /\ RestoreSafe(c)'
  <2>1. \A q \in Bin!Cur(c)'.origin :
          /\ Bin!Whole(places'[q]) \subseteq Bin!Whole(files'[Bin!Cur(c)'.slot])
          /\ Bin!Whole(files'[Bin!Cur(c)'.slot]) \subseteq {t.file : t \in places'[q]}
    <3> SUFFICES ASSUME NEW q \in Bin!Cur(c).origin
                 PROVE /\ Bin!Whole(places'[q]) \subseteq Bin!Whole(files'[s])
                       /\ Bin!Whole(files'[s]) \subseteq {t.file : t \in places'[q]}
      BY <1>5
    <3>1. q = p
      BY <1>1, <1>3
    <3>2. places'[q] = places[p] /\ files'[s] = places[p]
      BY <1>2, <1>6, <3>1
    <3> QED
      BY <1>0, <1>4, <3>2, MadeWhole
  <2> QED
    BY <1>5, <2>1 DEF PutSafe, RestoreSafe, Bin!At
<1>8. DataOK'
  BY <1>0, <1>1, <1>2, <1>3, <1>4, FilesData DEF DataOK
<1>9. Bin!NothingTrashedIsLost'
  BY <1>0, <1>1, <1>2, <1>3, KeptFiles DEF DataOK
<1> QED
  BY <1>5, <1>7, <1>8, <1>9, Concludes

\* Delete removes the original of its copy.
LEMMA PutDeletedStep ==
  ASSUME TrashInv, NEW c \in Callers, Bin!PutDeleted(c) PROVE TrashInv' /\ CallStep(c)
<1>0. TrashTypes /\ DataOK /\ trashCall[c].op = "put" /\ trashCall[c].step = "delete"
      /\ Bin!NothingTrashedIsLost
  BY InvHasData DEF Bin!PutDeleted, Bin!At, TrashInv
<1> DEFINE s == Bin!Cur(c).slot
<1>1. /\ s \in Bin!Slots /\ Bin!Cur(c).origin \subseteq Places
      /\ \A p \in Bin!Cur(c).origin : Bin!Whole(places[p]) \subseteq Bin!Whole(files[s])
  BY <1>0, Busy DEF PutSafe, Bin!At
<1>2. UNCHANGED <<files, info, madeAt, purged, broken, undo, faults>> /\ Bin!GoTo(c, "info")
  BY DEF Bin!PutDeleted
<1>3. PICK p \in Bin!Cur(c).origin : places' = [places EXCEPT ![p] = {}]
  BY DEF Bin!PutDeleted
<1>4. p \in Places /\ Made({})
  BY <1>0, <1>1, <1>3, MadeSets
<1>5. CallStep(c) /\ trashCall'[c].op = "put" /\ trashCall'[c].step = "info"
  BY <1>0, <1>2, SameItem
<1>6. PutSafe(c)' /\ RestoreSafe(c)'
  BY <1>5, PlainStep
<1>7. DataOK'
  BY <1>0, <1>2, <1>3, <1>4, PlacesData DEF DataOK
<1>8. \A n \in Bin!Whole(places[p]) : Kept(n)'
  BY <1>1, <1>2, <1>3 DEF Kept
<1>9. Bin!NothingTrashedIsLost'
  BY <1>0, <1>2, <1>3, <1>4, <1>8, KeptPlaces DEF DataOK
<1> QED
  BY <1>5, <1>6, <1>7, <1>9, Concludes

\* The next item begins, or the call is over.
LEMMA NextItem ==
  ASSUME TrashInv, NEW c \in Callers, trashCall[c].op \in {"put", "restore", "remove"},
         NEW step, Bin!Advance(c, step),
         trashCall[c].op = "put" => step = "name",
         trashCall[c].op = "restore" => step = "check",
         trashCall[c].op = "remove" => step = "drop"
  PROVE  /\ CallStep(c) /\ PutSafe(c)' /\ RestoreSafe(c)'
         /\ \/ trashCall'[c] = Bin!Idle
            \/ /\ trashCall'[c].op = trashCall[c].op /\ trashCall'[c].step = step
               /\ \A i \in DOMAIN trashCall'[c].todo :
                    i + 1 \in DOMAIN trashCall[c].todo
                    /\ trashCall'[c].todo[i] = trashCall[c].todo[i + 1]
<1>1. Alone(c) /\ FrameShape(trashCall[c]) /\ TrashTypes
  BY Busy, InvHasData
<1>2. /\ CallStep(c)
      /\ \/ trashCall'[c] = Bin!Idle
         \/ /\ trashCall'[c].op = trashCall[c].op /\ trashCall'[c].step = step
            /\ \A i \in DOMAIN trashCall'[c].todo :
                 i + 1 \in DOMAIN trashCall[c].todo
                 /\ trashCall'[c].todo[i] = trashCall[c].todo[i + 1]
  BY <1>1, Advances
<1>3. PutSafe(c)' /\ RestoreSafe(c)'
  BY <1>2, PlainStep, IdleFrame
<1> QED
  BY <1>2, <1>3

\* A note of one place.
LEMMA InfoData ==
  ASSUME DataOK, NEW s \in Bin!Slots, NEW o, o \subseteq Places, \A p, q \in o : p = q,
         info' = [info EXCEPT ![s] = o],
         UNCHANGED <<places, files, madeAt, purged, broken>>,
         undo' \in [Places -> SUBSET (1 .. MaxFiles)], faults' \in 0 .. MaxFaults
  PROVE  DataOK'
<1>1. info' \in [Bin!Slots -> SUBSET Places] /\ OneOrigin'
  BY DEF DataOK, OneOrigin
<1>2. \A r \in Bin!Slots : Made(files'[r])
  BY MadeSets
<1>3. \A p \in Places : Made(places'[p])
  BY MadeSets
<1> QED
  BY <1>1, <1>2, <1>3, DataStep DEF DataOK

\* Nothing is lost by a step that moves nothing.
LEMMA NothingMoves ==
  ASSUME Bin!NothingTrashedIsLost, UNCHANGED <<places, files, madeAt, purged, broken>>
  PROVE  Bin!NothingTrashedIsLost'
BY DEF Bin!NothingTrashedIsLost

\* Delete writes the note (writeTrashInfo).
LEMMA WriteTrashInfoStep ==
  ASSUME TrashInv, NEW c \in Callers, Bin!WriteTrashInfo(c) PROVE TrashInv' /\ CallStep(c)
<1>0. TrashTypes /\ DataOK /\ trashCall[c].op = "put" /\ Bin!NothingTrashedIsLost
  BY InvHasData DEF Bin!WriteTrashInfo, Bin!At, TrashInv
<1>1. /\ Bin!Cur(c).slot \in Bin!Slots /\ Bin!Cur(c).origin \subseteq Places
      /\ \A p, q \in Bin!Cur(c).origin : p = q
  BY <1>0, Busy
<1>2. UNCHANGED <<places, files, madeAt, purged, broken, faults>> /\ Bin!Advance(c, "name")
      /\ info' = [info EXCEPT ![Bin!Cur(c).slot] = Bin!Cur(c).origin]
  BY DEF Bin!WriteTrashInfo
<1>3. undo' \in [Places -> SUBSET (1 .. MaxFiles)]
  <2>1. Bin!Whole(files[Bin!Cur(c).slot]) \subseteq 1 .. MaxFiles
    BY <1>0, <1>1, MadeSets, MadeWhole
  <2> QED
    BY <1>0, <2>1 DEF Bin!WriteTrashInfo, DataOK
<1>4. DataOK'
  BY <1>0, <1>1, <1>2, <1>3, InfoData DEF DataOK
<1>5. CallStep(c) /\ PutSafe(c)' /\ RestoreSafe(c)'
  BY <1>0, <1>2, NextItem
<1> QED
  BY <1>0, <1>2, <1>4, <1>5, NothingMoves, Concludes

\* One more fault.
LEMMA FaultCounts ==
  ASSUME DataOK, faults < MaxFaults, faults' = faults + 1
  PROVE  faults' \in 0 .. MaxFaults
BY BinAssumption DEF DataOK

\* A step of a delete fails.
LEMMA PutFailsStep ==
  ASSUME TrashInv, NEW c \in Callers, Bin!PutFails(c) PROVE TrashInv' /\ CallStep(c)
<1>0. TrashTypes /\ DataOK /\ trashCall[c].op = "put" /\ Bin!NothingTrashedIsLost
  BY InvHasData DEF Bin!PutFails, Bin!At, TrashInv
<1> DEFINE s == Bin!Cur(c).slot
<1>1. /\ s \in Bin!Slots /\ Bin!Cur(c).origin \subseteq Places /\ Bin!Cur(c).origin # {}
      /\ PutSafe(c) /\ Alone(c) /\ \A p, q \in Bin!Cur(c).origin : p = q
  BY <1>0, Busy
<1>2. UNCHANGED <<places, madeAt, purged>> /\ Bin!GiveUp(c) /\ undo' = Bin!NoUndo
      /\ broken' = broken \cup Bin!HalfDeleted(c)
  BY DEF Bin!PutFails
<1>3. faults' \in 0 .. MaxFaults /\ undo' \in [Places -> SUBSET (1 .. MaxFiles)]
  BY <1>0, <1>2, FaultCounts, NoUndoType DEF Bin!PutFails
<1>4. CallStep(c) /\ PutSafe(c)' /\ RestoreSafe(c)'
  BY <1>0, <1>1, <1>2, GivesUp, PlainStep, IdleFrame
<1>5. PICK p \in Bin!Cur(c).origin : p \in Places
  BY <1>1
<1>6. Bin!HalfDeleted(c) \subseteq 1 .. Len(madeAt)
  <2>1. \A q \in Bin!Cur(c).origin : {t.file : t \in {u \in places[q] : ~u.whole}} \subseteq 1 .. Len(madeAt)
    BY <1>0, <1>1, MadeSets, MadeWhole
  <2> QED
    BY <2>1 DEF Bin!HalfDeleted
<1>7. broken' \subseteq 1 .. Len(madeAt)
  BY <1>0, <1>2, <1>6 DEF DataOK
<1>8. info' \in [Bin!Slots -> SUBSET Places] /\ OneOrigin'
  BY <1>0, <1>1 DEF Bin!PutFails, DataOK, OneOrigin
<1>9. files' = files \/ files' = [files EXCEPT ![s] = {}]
  BY DEF Bin!PutFails
<1>10. \A r \in Bin!Slots : Made(files'[r])
  BY <1>0, <1>1, <1>9, MadeSets DEF DataOK
<1>11. files' \in [Bin!Slots -> SUBSET Bin!Content]
  BY <1>0, <1>9 DEF DataOK
<1>12. \A r \in Places : Made(places'[r])
  BY <1>0, <1>2, MadeSets
<1>13. DataOK'
  BY <1>0, <1>2, <1>3, <1>7, <1>8, <1>10, <1>11, <1>12, DataStep DEF DataOK
<1>14. Bin!NothingTrashedIsLost'
  <2>1. CASE trashCall[c].step \notin {"copy", "delete"}
    <3>1. files' = files
      BY <2>1 DEF Bin!PutFails
    <3>2. \A q \in Places : \A n \in Bin!Whole(places[q]) : Kept(n)'
      BY <1>2 DEF Kept
    <3>3. \A r \in Bin!Slots : \A n \in Bin!Whole(files[r]) : Kept(n)'
      BY <3>1 DEF Kept
    <3> QED
      BY <1>0, <1>2, <3>2, <3>3, KeptAll
  <2>2. CASE trashCall[c].step \in {"copy", "delete"}
    <3>1. files' = [files EXCEPT ![s] = {}]
      BY <2>2 DEF Bin!PutFails
    <3>2. \A n \in Bin!Whole(files[s]) : Kept(n)'
      <4>1. CASE trashCall[c].step = "copy"
        BY <1>0, <1>1, <4>1 DEF PutSafe, Bin!At
      <4>2. CASE trashCall[c].step = "delete"
        <5> SUFFICES ASSUME NEW n \in Bin!Whole(files[s]) PROVE Kept(n)'
          OBVIOUS
        <5>1. n \in {t.file : t \in places[p]}
          BY <1>0, <1>1, <1>5, <4>2 DEF PutSafe, Bin!At
        <5>2. PICK t \in places[p] : t.file = n
          BY <5>1
        <5>3. CASE t.whole
          BY <1>2, <1>5, <5>2, <5>3 DEF Kept, Bin!Whole
        <5>4. CASE ~t.whole
          BY <1>2, <1>5, <4>2, <5>2, <5>4 DEF Kept, Bin!HalfDeleted
        <5> QED
          BY <5>3, <5>4
      <4> QED
        BY <2>2, <4>1, <4>2
    <3> QED
      BY <1>0, <1>1, <1>2, <3>1, <3>2, KeptFiles DEF DataOK
  <2> QED
    BY <2>1, <2>2
<1> QED
  BY <1>4, <1>13, <1>14, Concludes

-----------------------------------------------------------------------------
\* Restore.
LEMMA ListedIsItem ==
  ASSUME DataOK, NEW s \in Bin!Slots
  PROVE  /\ Bin!Listed(s) \in Bin!Item /\ Bin!Listed(s).slot = s /\ Bin!Listed(s).origin = info[s]
         /\ \A p, q \in Bin!Listed(s).origin : p = q
BY DEF Bin!Listed, Bin!Item, DataOK, OneOrigin

\* Restore begins.
LEMMA RestoreStep ==
  ASSUME TrashInv, NEW c \in Callers, Bin!Restore(c) PROVE TrashInv' /\ CallStep(c)
<1>0. TrashTypes /\ DataOK
  BY InvHasData
<1>1. PICK chosen \in Bin!Selections({s \in Bin!Slots : files[s] # {}}) :
        Bin!Begin(c, "restore", "check", [i \in DOMAIN chosen |-> Bin!Listed(chosen[i])])
  BY DEF Bin!Restore
<1>2. PICK n \in {1, 2} : DOMAIN chosen = 1 .. n /\ \A i \in 1 .. n : chosen[i] \in Bin!Slots
  BY SelectionsAre
<1> DEFINE td == [i \in 1 .. n |-> Bin!Listed(chosen[i])]
<1>3. \A i \in 1 .. n : td[i] \in Bin!Item /\ \A p, q \in td[i].origin : p = q
  BY <1>0, <1>2, ListedIsItem
<1>4. td \in [1 .. n -> Bin!Item] /\ Bin!Begin(c, "restore", "check", td)
  BY <1>1, <1>2, <1>3
<1> HIDE DEF td
<1>5. CallStep(c) /\ PutSafe(c)' /\ RestoreSafe(c)'
  BY <1>3, <1>4, BeginsOn
<1>6. UNCHANGED <<places, files, info, madeAt, purged, broken, faults, undo>>
  BY DEF Bin!Restore
<1> QED
  BY <1>0, <1>5, <1>6, OnlyCalls DEF DataOK

\* What undo finds for a place is in the trash with a note of that place.
LEMMA LastListedIs ==
  ASSUME DataOK, NEW p \in Places, Bin!LastListed(p) # {}
  PROVE  LET s == CHOOSE s \in Bin!LastListed(p) : TRUE
         IN  s \in Bin!Slots /\ files[s] # {} /\ p \in info[s]
BY DEF Bin!LastListed

\* Undo looks the deleted files up by their places.
LEMMA RestoreOriginsStep ==
  ASSUME TrashInv, NEW c \in Callers, Bin!RestoreOrigins(c) PROVE TrashInv' /\ CallStep(c)
<1>0. TrashTypes /\ DataOK
  BY InvHasData
<1>1. PICK chosen \in Bin!Selections({p \in Places : undo[p] # {} /\ Bin!LastListed(p) # {}}) :
        Bin!Begin(c, "restore", "check",
          [i \in DOMAIN chosen |-> [slot |-> CHOOSE s \in Bin!LastListed(chosen[i]) : TRUE,
                                    origin |-> {chosen[i]}]])
  BY DEF Bin!RestoreOrigins
<1>2. PICK n \in {1, 2} : /\ DOMAIN chosen = 1 .. n
                          /\ \A i \in 1 .. n : chosen[i] \in Places /\ Bin!LastListed(chosen[i]) # {}
  BY SelectionsAre
<1> DEFINE td == [i \in 1 .. n |-> [slot |-> CHOOSE s \in Bin!LastListed(chosen[i]) : TRUE,
                                    origin |-> {chosen[i]}]]
<1>3. \A i \in 1 .. n : td[i] \in Bin!Item /\ td[i].origin = {chosen[i]}
  BY <1>0, <1>2, LastListedIs DEF Bin!Item
<1>4. td \in [1 .. n -> Bin!Item] /\ Bin!Begin(c, "restore", "check", td)
  BY <1>1, <1>2, <1>3
<1> HIDE DEF td
<1>5. CallStep(c) /\ PutSafe(c)' /\ RestoreSafe(c)'
  BY <1>3, <1>4, BeginsOn
<1>6. UNCHANGED <<places, files, info, madeAt, purged, broken, faults>> /\ undo' = Bin!NoUndo
  BY DEF Bin!RestoreOrigins
<1> QED
  BY <1>0, <1>5, <1>6, OnlyCalls, NoUndoType DEF DataOK

\* Restore looks whether the place is free.
LEMMA RestoreCheckStep ==
  ASSUME TrashInv, NEW c \in Callers, Bin!RestoreCheck(c) PROVE TrashInv' /\ CallStep(c)
<1>0. TrashTypes /\ DataOK /\ trashCall[c].op = "restore" /\ trashCall[c].step = "check"
  BY InvHasData DEF Bin!RestoreCheck, Bin!At
<1>1. UNCHANGED <<places, files, info, madeAt, purged, broken, faults, undo>>
  BY DEF Bin!RestoreCheck
<1>2. CASE (\E p \in Bin!Cur(c).origin : places[p] = {}) /\ Bin!GoTo(c, "move")
  <2>1. /\ CallStep(c) /\ trashCall'[c].op = "restore" /\ trashCall'[c].step = "move"
        /\ Bin!Cur(c)' = Bin!Cur(c)
    BY <1>0, <1>2, SameItem
  <2>2. \A p \in Bin!Cur(c).origin : places[p] = {}
    BY <1>0, <1>2, Busy
  <2>3. PutSafe(c)' /\ RestoreSafe(c)'
    BY <1>1, <2>1, <2>2 DEF PutSafe, RestoreSafe, Bin!At
  <2> QED
    BY <1>0, <1>1, <2>1, <2>3, OnlyCalls DEF DataOK
<1>3. CASE Bin!Advance(c, "check")
  <2>1. CallStep(c) /\ PutSafe(c)' /\ RestoreSafe(c)'
    BY <1>0, <1>3, NextItem
  <2> QED
    BY <1>0, <1>1, <2>1, OnlyCalls DEF DataOK
<1> QED
  BY <1>2, <1>3 DEF Bin!RestoreCheck

\* Restore renames the file back, or goes on to copy it.
LEMMA RestoreMoveStep ==
  ASSUME TrashInv, NEW c \in Callers, Bin!RestoreMove(c) PROVE TrashInv' /\ CallStep(c)
<1>0. TrashTypes /\ DataOK /\ trashCall[c].op = "restore" /\ trashCall[c].step = "move"
      /\ Bin!NothingTrashedIsLost
  BY InvHasData DEF Bin!RestoreMove, Bin!At, TrashInv
<1> DEFINE s == Bin!Cur(c).slot
<1>1. /\ s \in Bin!Slots /\ Bin!Cur(c).origin \subseteq Places
      /\ \A p, q \in Bin!Cur(c).origin : p = q
      /\ \A p \in Bin!Cur(c).origin : places[p] = {}
  BY <1>0, Busy DEF RestoreSafe, Bin!At
<1>2. UNCHANGED <<info, madeAt, purged, broken, undo, faults>>
  BY DEF Bin!RestoreMove
<1>3. PICK p \in Bin!Cur(c).origin :
       \/ Bin!Advance(c, "check") /\ UNCHANGED <<places, files>>
       \/ /\ places' = [places EXCEPT ![p] = files[s]]
          /\ files' = [files EXCEPT ![s] = {}] /\ Bin!GoTo(c, "meta")
       \/ /\ places' = [places EXCEPT ![p] = Bin!Torn(files[s])]
          /\ Bin!GoTo(c, "copy") /\ UNCHANGED files
  BY DEF Bin!RestoreMove
<1>4. p \in Places /\ Made(files[s]) /\ Made({}) /\ places[p] = {} /\ Made(places[p])
  BY <1>0, <1>1, <1>3, MadeSets
<1>5. CASE Bin!Advance(c, "check") /\ UNCHANGED <<places, files>>
  <2>1. CallStep(c) /\ PutSafe(c)' /\ RestoreSafe(c)'
    BY <1>0, <1>5, NextItem
  <2> QED
    BY <1>0, <1>2, <1>5, <2>1, OnlyCalls DEF DataOK
<1>6. CASE /\ places' = [places EXCEPT ![p] = files[s]]
           /\ files' = [files EXCEPT ![s] = {}] /\ Bin!GoTo(c, "meta")
  <2>1. CallStep(c) /\ trashCall'[c].op = "restore" /\ trashCall'[c].step = "meta"
    BY <1>0, <1>6, SameItem
  <2>2. PutSafe(c)' /\ RestoreSafe(c)'
    BY <2>1, PlainStep
  <2>3. DataOK'
    BY <1>0, <1>1, <1>2, <1>4, <1>6, DataMoves
  <2>4. places'[p] = files[s] /\ \A r \in Places : r # p => places'[r] = places[r]
    BY <1>0, <1>1, <1>4, <1>6 DEF DataOK
  <2>5. \A r \in Bin!Slots : r # s => files'[r] = files[r]
    BY <1>0, <1>6 DEF DataOK
  <2>6. \A r \in Places : \A n \in Bin!Whole(places[r]) : Kept(n)'
    BY <1>4, <2>4, NoneIsWhole DEF Kept
  <2>7. \A r \in Bin!Slots : \A n \in Bin!Whole(files[r]) : Kept(n)'
    BY <1>4, <2>4, <2>5 DEF Kept
  <2>8. Bin!NothingTrashedIsLost'
    BY <1>0, <1>2, <2>6, <2>7, KeptAll
  <2> QED
    BY <2>1, <2>2, <2>3, <2>8, Concludes
<1>7. CASE /\ places' = [places EXCEPT ![p] = Bin!Torn(files[s])]
           /\ Bin!GoTo(c, "copy") /\ UNCHANGED files
  <2>1. CallStep(c) /\ trashCall'[c].op = "restore" /\ trashCall'[c].step = "copy"
        /\ Bin!Cur(c)' = Bin!Cur(c)
    BY <1>0, <1>7, SameItem
  <2>2. places'[p] = Bin!Torn(files[s]) /\ Bin!Whole(Bin!Torn(files[s])) = {}
    BY <1>0, <1>1, <1>4, <1>7, TornIsNotWhole DEF DataOK, Made
  <2>3. \A q \in Bin!Cur(c).origin : Bin!Whole(places'[q]) = {}
    BY <1>1, <1>3, <2>2
  <2>4. PutSafe(c)' /\ RestoreSafe(c)'
    BY <1>3, <2>1, <2>3 DEF PutSafe, RestoreSafe, Bin!At
  <2>5. DataOK'
    BY <1>0, <1>1, <1>2, <1>4, <1>7, MadeTorn, PlacesData DEF DataOK
  <2>6. Bin!NothingTrashedIsLost'
    BY <1>0, <1>2, <1>4, <1>7, NoneIsWhole, KeptPlaces DEF DataOK
  <2> QED
    BY <2>1, <2>4, <2>5, <2>6, Concludes
<1> QED
  BY <1>3, <1>5, <1>6, <1>7

\* Restore has copied the file back.
LEMMA RestoreCopiedStep ==
  ASSUME TrashInv, NEW c \in Callers, Bin!RestoreCopied(c) PROVE TrashInv' /\ CallStep(c)
<1>0. TrashTypes /\ DataOK /\ trashCall[c].op = "restore" /\ trashCall[c].step = "copy"
      /\ Bin!NothingTrashedIsLost
  BY InvHasData DEF Bin!RestoreCopied, Bin!At, TrashInv
<1> DEFINE s == Bin!Cur(c).slot
<1>1. /\ s \in Bin!Slots /\ Bin!Cur(c).origin \subseteq Places
      /\ \A p, q \in Bin!Cur(c).origin : p = q
      /\ \A p \in Bin!Cur(c).origin : Bin!Whole(places[p]) = {}
  BY <1>0, Busy DEF RestoreSafe, Bin!At
<1>2. UNCHANGED <<files, info, madeAt, purged, broken, undo, faults>> /\ Bin!GoTo(c, "drop")
  BY DEF Bin!RestoreCopied
<1>3. PICK p \in Bin!Cur(c).origin : places' = [places EXCEPT ![p] = files[s]]
  BY DEF Bin!RestoreCopied
<1>4. p \in Places /\ Made(files[s]) /\ Bin!Whole(places[p]) = {}
  BY <1>0, <1>1, <1>3, MadeSets
<1>5. /\ CallStep(c) /\ trashCall'[c].op = "restore" /\ trashCall'[c].step = "drop"
      /\ Bin!Cur(c)' = Bin!Cur(c)
  BY <1>0, <1>2, SameItem
<1>6. places'[p] = files'[s]
  BY <1>0, <1>2, <1>3, <1>4 DEF DataOK
<1>7. \A q \in Bin!Cur(c).origin : Bin!Whole(files'[s]) \subseteq Bin!Whole(places'[q])
  <2> SUFFICES ASSUME NEW q \in Bin!Cur(c).origin
               PROVE Bin!Whole(files'[s]) \subseteq Bin!Whole(places'[q])
    OBVIOUS
  <2>1. q = p
    BY <1>1, <1>3
  <2> QED
    BY <1>6, <2>1
<1>8. PutSafe(c)' /\ RestoreSafe(c)'
  BY <1>3, <1>5, <1>7 DEF PutSafe, RestoreSafe, Bin!At
<1>9. DataOK'
  BY <1>0, <1>2, <1>3, <1>4, PlacesData DEF DataOK
<1>10. Bin!NothingTrashedIsLost'
  BY <1>0, <1>2, <1>3, <1>4, KeptPlaces DEF DataOK
<1> QED
  BY <1>5, <1>8, <1>9, <1>10, Concludes

-----------------------------------------------------------------------------
\* What a removal takes of the trash is restored, or counts as removed for good.
LEMMA PurgeKeeps ==
  ASSUME TrashInv, NEW c \in Callers, trashCall[c].op \in {"restore", "remove"},
         trashCall[c].step = "drop", Bin!Purge(c, {Bin!Cur(c).slot}),
         UNCHANGED <<places, broken>>
  PROVE  /\ purged \subseteq purged' /\ purged' \subseteq 1 .. Len(madeAt)
         /\ \A n \in Bin!Whole(files[Bin!Cur(c).slot]) : Kept(n)'
<1>0. DataOK
  BY InvHasData
<1> DEFINE s == Bin!Cur(c).slot
<1>1. s \in Bin!Slots /\ RestoreSafe(c) /\ Bin!Cur(c).origin \subseteq Places
  BY Busy
<1>2. Made(files[s])
  BY <1>0, <1>1, MadeSets
<1>3. Bin!Whole(files[s]) \subseteq 1 .. Len(madeAt)
  BY <1>0, <1>2, MadeWhole
<1>4. CASE trashCall[c].op = "restore"
  <2>1. purged' = purged
    BY <1>4 DEF Bin!Purge
  <2>2. PICK p \in Bin!Cur(c).origin : Bin!Whole(files[s]) \subseteq Bin!Whole(places[p])
    BY <1>1, <1>4 DEF RestoreSafe, Bin!At
  <2> QED
    BY <1>0, <1>1, <2>1, <2>2 DEF Kept, DataOK
<1>5. CASE trashCall[c].op = "remove"
  <2>1. purged' = purged \cup Bin!Whole(files[s])
    BY <1>5 DEF Bin!Purge
  <2> QED
    BY <1>0, <1>3, <2>1 DEF Kept, DataOK
<1> QED
  BY <1>4, <1>5

\* Only a restore and a removal drop a file of the trash.
LEMMA DropsOnly ==
  ASSUME TrashInv, NEW c \in Callers, trashCall[c].step = "drop"
  PROVE  trashCall[c].op \in {"restore", "remove"}
<1>1. trashCall[c] \in Frames /\ FrameShape(trashCall[c])
  BY DEF TrashInv, TrashTypes, Sound
<1> QED
  BY <1>1 DEF Frames, FrameShape

\* Only a restore and a removal drop a note.
LEMMA MetaOnly ==
  ASSUME TrashInv, NEW c \in Callers, trashCall[c].step = "meta"
  PROVE  trashCall[c].op \in {"restore", "remove"}
<1>1. trashCall[c] \in Frames /\ FrameShape(trashCall[c])
  BY DEF TrashInv, TrashTypes, Sound
<1> QED
  BY <1>1 DEF Frames, FrameShape

\* The file in the trash is removed.
LEMMA DroppedStep ==
  ASSUME TrashInv, NEW c \in Callers, Bin!Dropped(c) PROVE TrashInv' /\ CallStep(c)
<1>0. TrashTypes /\ DataOK /\ trashCall[c].op \in {"restore", "remove"} /\ trashCall[c].step = "drop"
      /\ Bin!NothingTrashedIsLost
  BY InvHasData, DropsOnly DEF Bin!Dropped, TrashInv
<1> DEFINE s == Bin!Cur(c).slot
<1>1. s \in Bin!Slots /\ Made({})
  BY <1>0, Busy, MadeSets
<1>2. UNCHANGED <<places, info, madeAt, broken, undo, faults>> /\ Bin!GoTo(c, "meta")
      /\ files' = [files EXCEPT ![s] = {}] /\ Bin!Purge(c, {s})
  BY DEF Bin!Dropped
<1>3. /\ purged \subseteq purged' /\ purged' \subseteq 1 .. Len(madeAt)
      /\ \A n \in Bin!Whole(files[s]) : Kept(n)'
  BY <1>0, <1>2, PurgeKeeps
<1>4. CallStep(c) /\ trashCall'[c].step = "meta"
  BY <1>0, <1>2, SameItem
<1>5. PutSafe(c)' /\ RestoreSafe(c)'
  BY <1>4, PlainStep
<1>6. DataOK'
  BY <1>0, <1>1, <1>2, <1>3, FilesData DEF DataOK
<1>7. Bin!NothingTrashedIsLost'
  BY <1>0, <1>1, <1>2, <1>3, KeptFiles DEF DataOK
<1> QED
  BY <1>4, <1>5, <1>6, <1>7, Concludes

\* The note is removed.
LEMMA RemoveMetaStep ==
  ASSUME TrashInv, NEW c \in Callers, Bin!RemoveMeta(c) PROVE TrashInv' /\ CallStep(c)
<1>0. TrashTypes /\ DataOK /\ trashCall[c].op \in {"restore", "remove"} /\ trashCall[c].step = "meta"
      /\ Bin!NothingTrashedIsLost
  BY InvHasData, MetaOnly DEF Bin!RemoveMeta, TrashInv
<1>1. Bin!Cur(c).slot \in Bin!Slots
  BY <1>0, Busy
<1>2. UNCHANGED <<places, files, madeAt, purged, broken, undo, faults>>
      /\ info' = [info EXCEPT ![Bin!Cur(c).slot] = {}]
      /\ Bin!Advance(c, IF trashCall[c].op = "restore" THEN "check" ELSE "drop")
  BY DEF Bin!RemoveMeta
<1>3. DataOK'
  <2>1. (\A s \in Bin!Slots : Made(files'[s])) /\ (\A p \in Places : Made(places'[p]))
    BY <1>0, <1>2, MadeSets
  <2>2. info' \in [Bin!Slots -> SUBSET Places] /\ OneOrigin'
    BY <1>0, <1>1, <1>2 DEF DataOK, OneOrigin
  <2> QED
    BY <1>0, <1>2, <2>1, <2>2, DataStep DEF DataOK
<1>4. CallStep(c) /\ PutSafe(c)' /\ RestoreSafe(c)'
  <2>1. CASE trashCall[c].op = "restore"
    <3>1. Bin!Advance(c, "check")
      BY <1>2, <2>1
    <3> QED
      BY <2>1, <3>1, NextItem
  <2>2. CASE trashCall[c].op = "remove"
    <3>1. Bin!Advance(c, "drop")
      BY <1>2, <2>2
    <3> QED
      BY <2>2, <3>1, NextItem
  <2> QED
    BY <1>0, <2>1, <2>2
<1> QED
  BY <1>0, <1>2, <1>3, <1>4, NothingMoves, Concludes

\* A step of a restore fails.
LEMMA RestoreFailsStep ==
  ASSUME TrashInv, NEW c \in Callers, Bin!RestoreFails(c) PROVE TrashInv' /\ CallStep(c)
<1>0. TrashTypes /\ DataOK /\ trashCall[c].op = "restore"
  BY InvHasData DEF Bin!RestoreFails
<1>1. UNCHANGED <<places, files, info, madeAt, purged, broken, undo>> /\ Bin!Advance(c, "check")
      /\ faults' \in 0 .. MaxFaults
  BY <1>0, FaultCounts DEF Bin!RestoreFails
<1>2. CallStep(c) /\ PutSafe(c)' /\ RestoreSafe(c)'
  BY <1>0, <1>1, NextItem
<1> QED
  BY <1>0, <1>1, <1>2, OnlyCalls DEF DataOK

-----------------------------------------------------------------------------
\* Remove and empty.
LEMMA RemoveStep ==
  ASSUME TrashInv, NEW c \in Callers, Bin!Remove(c) PROVE TrashInv' /\ CallStep(c)
<1>0. TrashTypes /\ DataOK
  BY InvHasData
<1>1. PICK chosen \in Bin!Selections({s \in Bin!Slots : files[s] # {}}) :
        Bin!Begin(c, "remove", "drop", [i \in DOMAIN chosen |-> Bin!Listed(chosen[i])])
  BY DEF Bin!Remove
<1>2. PICK n \in {1, 2} : DOMAIN chosen = 1 .. n /\ \A i \in 1 .. n : chosen[i] \in Bin!Slots
  BY SelectionsAre
<1> DEFINE td == [i \in 1 .. n |-> Bin!Listed(chosen[i])]
<1>3. \A i \in 1 .. n : td[i] \in Bin!Item /\ \A p, q \in td[i].origin : p = q
  BY <1>0, <1>2, ListedIsItem
<1>4. td \in [1 .. n -> Bin!Item] /\ Bin!Begin(c, "remove", "drop", td)
  BY <1>1, <1>2, <1>3
<1> HIDE DEF td
<1>5. CallStep(c) /\ PutSafe(c)' /\ RestoreSafe(c)'
  BY <1>3, <1>4, BeginsOn
<1>6. UNCHANGED <<places, files, info, madeAt, purged, broken, faults, undo>>
  BY DEF Bin!Remove
<1> QED
  BY <1>0, <1>5, <1>6, OnlyCalls DEF DataOK

\* A step of a removal fails.
LEMMA RemoveFailsStep ==
  ASSUME TrashInv, NEW c \in Callers, Bin!RemoveFails(c) PROVE TrashInv' /\ CallStep(c)
<1>0. TrashTypes /\ DataOK /\ trashCall[c].op = "remove"
  BY InvHasData DEF Bin!RemoveFails
<1>1. UNCHANGED <<places, files, info, madeAt, purged, broken, undo>>
      /\ faults' \in 0 .. MaxFaults
  BY <1>0, FaultCounts DEF Bin!RemoveFails
<1>2. CASE Bin!GoTo(c, "meta")
  <2>1. CallStep(c) /\ trashCall'[c].step = "meta"
    BY <1>0, <1>2, SameItem
  <2>2. PutSafe(c)' /\ RestoreSafe(c)'
    BY <2>1, PlainStep
  <2> QED
    BY <1>0, <1>1, <2>1, <2>2, OnlyCalls DEF DataOK
<1>3. CASE Bin!Advance(c, "drop")
  <2>1. CallStep(c) /\ PutSafe(c)' /\ RestoreSafe(c)'
    BY <1>0, <1>3, NextItem
  <2> QED
    BY <1>0, <1>1, <2>1, OnlyCalls DEF DataOK
<1> QED
  BY <1>2, <1>3 DEF Bin!RemoveFails

\* The two steps of emptying are steps of a call.
LEMMA EmptyFrame ==
  \A step \in {"files", "infos"} :
    LET f == [op |-> "empty", step |-> step, todo |-> <<>>]
    IN  f \in Frames /\ FrameShape(f)
<1> SUFFICES ASSUME NEW step \in {"files", "infos"}
             PROVE LET f == [op |-> "empty", step |-> step, todo |-> <<>>]
                   IN  f \in Frames /\ FrameShape(f)
  OBVIOUS
<1>1. <<>> \in Seq(Bin!Item)
  BY EmptySeq
<1> QED
  BY <1>1 DEF Frames, FrameShape

\* Emptying begins.
LEMMA EmptyStep ==
  ASSUME TrashInv, NEW c \in Callers, Bin!Empty(c) PROVE TrashInv' /\ CallStep(c)
<1>0. TrashTypes /\ DataOK
  BY InvHasData
<1>1. Bin!Begin(c, "empty", "files", <<>>)
      /\ UNCHANGED <<places, files, info, madeAt, purged, broken, undo, faults>>
  BY DEF Bin!Empty
<1>2. /\ [op |-> "empty", step |-> "files", todo |-> <<>>] \in Frames
      /\ FrameShape([op |-> "empty", step |-> "files", todo |-> <<>>])
  BY EmptyFrame
<1>3. CallStep(c) /\ trashCall'[c] = [op |-> "empty", step |-> "files", todo |-> <<>>]
  BY <1>0, <1>1, <1>2, Begins
<1>4. PutSafe(c)' /\ RestoreSafe(c)'
  BY <1>3, PlainStep
<1> QED
  BY <1>0, <1>1, <1>3, <1>4, OnlyCalls DEF DataOK

\* What is taken for good out of the trash by an emptying.
LEMMA EmptyPurges ==
  ASSUME DataOK, NEW c \in Callers, trashCall[c].op = "empty", NEW S, S \subseteq Bin!Slots,
         Bin!Purge(c, S), UNCHANGED broken
  PROVE  /\ purged \subseteq purged' /\ purged' \subseteq 1 .. Len(madeAt)
         /\ \A s \in S : \A n \in Bin!Whole(files[s]) : Kept(n)'
<1>1. purged' = purged \cup UNION {Bin!Whole(files[s]) : s \in S}
  BY DEF Bin!Purge
<1>2. \A s \in S : Bin!Whole(files[s]) \subseteq 1 .. Len(madeAt)
  BY MadeSets, MadeWhole
<1> QED
  BY <1>1, <1>2 DEF Kept, DataOK

\* Emptying is the only call under way.
LEMMA EmptyIsAlone ==
  ASSUME TrashInv, NEW c \in Callers, trashCall[c].op = "empty"
  PROVE  /\ Alone(c) /\ TrashTypes /\ DataOK /\ trashCall[c] \in Frames
         /\ FrameShape(trashCall[c]) /\ Bin!NothingTrashedIsLost /\ trashCall[c].todo = <<>>
BY InvHasData, BusyIsAlone DEF TrashInv, TrashTypes, Sound, FrameShape

\* Emptying removes files/.
LEMMA EmptyFilesStep ==
  ASSUME TrashInv, NEW c \in Callers, Bin!EmptyFiles(c) PROVE TrashInv' /\ CallStep(c)
<1>0. trashCall[c].op = "empty" /\ UNCHANGED <<places, info, madeAt, broken, undo, faults>>
      /\ Bin!GoTo(c, "infos") /\ files' = [s \in Bin!Slots |-> {}] /\ Bin!Purge(c, Bin!Slots)
  BY DEF Bin!EmptyFiles, Bin!At
<1>1. /\ Alone(c) /\ TrashTypes /\ DataOK /\ trashCall[c] \in Frames
      /\ FrameShape(trashCall[c]) /\ Bin!NothingTrashedIsLost /\ trashCall[c].todo = <<>>
  BY <1>0, EmptyIsAlone
<1>2. [trashCall[c] EXCEPT !.step = "infos"] = [op |-> "empty", step |-> "infos", todo |-> <<>>]
  BY <1>0, <1>1 DEF Frames
<1>3. CallStep(c) /\ trashCall'[c].step = "infos"
  BY <1>0, <1>1, <1>2, EmptyFrame, GoesTo
<1>4. PutSafe(c)' /\ RestoreSafe(c)'
  BY <1>3, PlainStep
<1>5. /\ purged \subseteq purged' /\ purged' \subseteq 1 .. Len(madeAt)
      /\ \A s \in Bin!Slots : \A n \in Bin!Whole(files[s]) : Kept(n)'
  BY <1>0, <1>1, EmptyPurges
<1>6. (\A s \in Bin!Slots : Made(files'[s])) /\ (\A p \in Places : Made(places'[p]))
  BY <1>0, <1>1, MadeSets
<1>7. DataOK'
  BY <1>0, <1>1, <1>5, <1>6, DataStep DEF DataOK, OneOrigin
<1>8. \A p \in Places : \A n \in Bin!Whole(places[p]) : Kept(n)'
  BY <1>0 DEF Kept
<1>9. Bin!NothingTrashedIsLost'
  BY <1>0, <1>1, <1>5, <1>8, KeptAll
<1> QED
  BY <1>3, <1>4, <1>7, <1>9, Concludes

\* Emptying removes info/.
LEMMA EmptyInfosStep ==
  ASSUME TrashInv, NEW c \in Callers, Bin!EmptyInfos(c) PROVE TrashInv' /\ CallStep(c)
<1>0. trashCall[c].op = "empty" /\ UNCHANGED <<places, files, madeAt, purged, broken, undo, faults>>
      /\ Bin!GiveUp(c) /\ info' = [s \in Bin!Slots |-> {}]
  BY DEF Bin!EmptyInfos, Bin!At
<1>1. Alone(c) /\ TrashTypes /\ DataOK /\ Bin!NothingTrashedIsLost
  BY <1>0, EmptyIsAlone
<1>2. CallStep(c) /\ PutSafe(c)' /\ RestoreSafe(c)'
  BY <1>0, <1>1, GivesUp, PlainStep, IdleFrame
<1>3. (\A s \in Bin!Slots : Made(files'[s])) /\ (\A p \in Places : Made(places'[p]))
  BY <1>0, <1>1, MadeSets
<1>4. info' \in [Bin!Slots -> SUBSET Places] /\ OneOrigin'
  BY <1>0 DEF OneOrigin
<1>5. DataOK'
  BY <1>0, <1>1, <1>3, <1>4, DataStep DEF DataOK
<1> QED
  BY <1>0, <1>1, <1>2, <1>5, NothingMoves, Concludes

\* A step of emptying fails.
LEMMA EmptyFailsStep ==
  ASSUME TrashInv, NEW c \in Callers, Bin!EmptyFails(c) PROVE TrashInv' /\ CallStep(c)
<1>0. trashCall[c].op = "empty" /\ UNCHANGED <<places, files, info, madeAt, purged, broken, undo>>
      /\ Bin!GiveUp(c) /\ faults < MaxFaults /\ faults' = faults + 1
  BY DEF Bin!EmptyFails, Bin!At
<1>1. Alone(c) /\ TrashTypes /\ DataOK
  BY <1>0, EmptyIsAlone
<1>2. CallStep(c) /\ PutSafe(c)' /\ RestoreSafe(c)'
  BY <1>0, <1>1, GivesUp, PlainStep, IdleFrame
<1>3. faults' \in 0 .. MaxFaults
  BY <1>0, <1>1, FaultCounts
<1> QED
  BY <1>0, <1>1, <1>2, <1>3, OnlyCalls DEF DataOK

-----------------------------------------------------------------------------
\* The call under way stays where it is.
LEMMA SameCall ==
  ASSUME TrashInv, NEW c \in Callers, trashCall[c].op # "none", UNCHANGED trashCall
  PROVE  CallStep(c) /\ Bin!Cur(c)' = Bin!Cur(c)
<1>1. TrashTypes /\ OneCall /\ Sound(c) /\ Alone(c)
  BY BusyIsAlone DEF TrashInv
<1> QED
  BY <1>1 DEF CallStep, TrashTypes, OneCall, Alone, Sound, Bin!Cur

\* Half removed at its place: it is in the trash.
LEMMA PartlyPut ==
  ASSUME TrashInv, NEW c \in Callers, Bin!At(c, "put", "delete"),
         NEW p \in Bin!Cur(c).origin, places' = [places EXCEPT ![p] = Bin!Torn(@)],
         UNCHANGED <<files, info, purged, trashCall, madeAt, broken, undo, faults>>
  PROVE  TrashInv' /\ CallStep(c)
<1>0. DataOK /\ Bin!NothingTrashedIsLost /\ trashCall[c].op = "put" /\ trashCall[c].step = "delete"
  BY InvHasData DEF Bin!At, TrashInv
<1> DEFINE s == Bin!Cur(c).slot
<1>1. /\ s \in Bin!Slots /\ p \in Places /\ Bin!Cur(c).origin \subseteq Places
      /\ \A q \in Bin!Cur(c).origin : q = p
      /\ Bin!Whole(places[p]) \subseteq Bin!Whole(files[s])
      /\ Bin!Whole(files[s]) \subseteq {t.file : t \in places[p]}
  BY <1>0, Busy DEF PutSafe, Bin!At
<1>2. Made(places[p]) /\ places' = [places EXCEPT ![p] = Bin!Torn(places[p])]
  BY <1>0, <1>1, MadeSets
<1>3. CallStep(c) /\ Bin!Cur(c)' = Bin!Cur(c)
  BY <1>0, SameCall
<1>4. /\ places'[p] = Bin!Torn(places[p]) /\ Bin!Whole(Bin!Torn(places[p])) = {}
      /\ {t.file : t \in Bin!Torn(places[p])} = {t.file : t \in places[p]}
  BY <1>0, <1>1, <1>2, TornIsNotWhole DEF DataOK, Made
<1>5. Bin!Whole(places'[p]) = {} /\ {t.file : t \in places'[p]} = {t.file : t \in places[p]}
  BY <1>4
<1>6. \A q \in Bin!Cur(c)'.origin :
          /\ Bin!Whole(places'[q]) \subseteq Bin!Whole(files'[Bin!Cur(c)'.slot])
          /\ Bin!Whole(files'[Bin!Cur(c)'.slot]) \subseteq {t.file : t \in places'[q]}
  <2> SUFFICES ASSUME NEW q \in Bin!Cur(c).origin
               PROVE /\ Bin!Whole(places'[q]) \subseteq Bin!Whole(files[s])
                     /\ Bin!Whole(files[s]) \subseteq {t.file : t \in places'[q]}
    BY <1>3
  <2>1. q = p
    BY <1>1
  <2> QED
    BY <1>1, <1>5, <2>1
<1>7. PutSafe(c)' /\ RestoreSafe(c)'
  BY <1>0, <1>3, <1>6 DEF PutSafe, RestoreSafe, Bin!At
<1>8. DataOK'
  BY <1>0, <1>1, <1>2, MadeTorn, PlacesData DEF DataOK
<1>9. \A n \in Bin!Whole(places[p]) : Kept(n)'
  BY <1>1 DEF Kept
<1>10. Bin!NothingTrashedIsLost'
  BY <1>0, <1>1, <1>2, <1>9, KeptPlaces DEF DataOK
<1> QED
  BY <1>3, <1>7, <1>8, <1>10, Concludes

\* A removal has gone part of the way through a file.
LEMMA PartlyDropped ==
  ASSUME TrashInv, NEW c \in Callers, trashCall[c].step = "drop",
         files' = [files EXCEPT ![Bin!Cur(c).slot] = Bin!Torn(@)],
         Bin!Purge(c, {Bin!Cur(c).slot}),
         UNCHANGED <<places, info, trashCall, madeAt, broken, undo, faults>>
  PROVE  TrashInv' /\ CallStep(c)
<1>0. DataOK /\ Bin!NothingTrashedIsLost /\ trashCall[c].op \in {"restore", "remove"}
  BY InvHasData, DropsOnly DEF TrashInv
<1> DEFINE s == Bin!Cur(c).slot
<1>1. s \in Bin!Slots /\ RestoreSafe(c)
  BY <1>0, Busy
<1>2. Made(files[s]) /\ files' = [files EXCEPT ![s] = Bin!Torn(files[s])]
  BY <1>0, <1>1, MadeSets
<1>3. CallStep(c) /\ Bin!Cur(c)' = Bin!Cur(c)
  BY <1>0, SameCall
<1>4. files'[s] = Bin!Torn(files[s]) /\ Bin!Whole(Bin!Torn(files[s])) = {}
  BY <1>0, <1>1, <1>2, TornIsNotWhole DEF DataOK, Made
<1>5. Bin!Whole(files[Bin!Cur(c).slot])' = {}
  BY <1>3, <1>4
<1>6. PutSafe(c)' /\ RestoreSafe(c)'
  BY <1>0, <1>1, <1>3, <1>5 DEF PutSafe, RestoreSafe, Bin!At
<1>7. /\ purged \subseteq purged' /\ purged' \subseteq 1 .. Len(madeAt)
      /\ \A n \in Bin!Whole(files[s]) : Kept(n)'
  BY <1>0, PurgeKeeps
<1>8. DataOK'
  BY <1>0, <1>1, <1>2, <1>7, MadeTorn, FilesData DEF DataOK
<1>9. Bin!NothingTrashedIsLost'
  BY <1>0, <1>1, <1>2, <1>7, KeptFiles DEF DataOK
<1> QED
  BY <1>3, <1>6, <1>8, <1>9, Concludes

\* Emptying has gone part of the way.
LEMMA PartlyEmptied ==
  ASSUME TrashInv, NEW c \in Callers, trashCall[c].op = "empty",
         \/ /\ \E s \in Bin!Slots : files' = [files EXCEPT ![s] = {}] /\ Bin!Purge(c, {s})
            /\ UNCHANGED info
         \/ /\ \E s \in Bin!Slots : info' = [info EXCEPT ![s] = {}]
            /\ UNCHANGED <<files, purged>>,
         UNCHANGED <<places, trashCall, madeAt, broken, undo, faults>>
  PROVE  TrashInv' /\ CallStep(c)
<1>0. DataOK /\ Bin!NothingTrashedIsLost
  BY InvHasData DEF TrashInv
<1>1. CallStep(c) /\ trashCall'[c].op = "empty"
  BY SameCall
<1>2. PutSafe(c)' /\ RestoreSafe(c)'
  BY <1>1, PlainStep
<1>3. CASE /\ \E s \in Bin!Slots : files' = [files EXCEPT ![s] = {}] /\ Bin!Purge(c, {s})
           /\ UNCHANGED info
  <2>1. PICK s \in Bin!Slots : files' = [files EXCEPT ![s] = {}] /\ Bin!Purge(c, {s})
    BY <1>3
  <2>2. /\ purged \subseteq purged' /\ purged' \subseteq 1 .. Len(madeAt)
        /\ \A r \in {s} : \A n \in Bin!Whole(files[r]) : Kept(n)'
    BY <1>0, <2>1, EmptyPurges
  <2>3. DataOK'
    BY <1>0, <1>3, <2>1, <2>2, MadeSets, FilesData DEF DataOK
  <2>4. Bin!NothingTrashedIsLost'
    BY <1>0, <2>1, <2>2, KeptFiles DEF DataOK
  <2> QED
    BY <1>1, <1>2, <2>3, <2>4, Concludes
<1>4. CASE /\ \E s \in Bin!Slots : info' = [info EXCEPT ![s] = {}]
           /\ UNCHANGED <<files, purged>>
  <2>1. (\A s \in Bin!Slots : Made(files'[s])) /\ (\A p \in Places : Made(places'[p]))
    BY <1>0, <1>4, MadeSets
  <2>2. info' \in [Bin!Slots -> SUBSET Places] /\ OneOrigin'
    BY <1>0, <1>4 DEF DataOK, OneOrigin
  <2>3. DataOK'
    BY <1>0, <1>4, <2>1, <2>2, DataStep DEF DataOK
  <2> QED
    BY <1>0, <1>1, <1>2, <1>4, <2>3, NothingMoves, Concludes
<1> QED
  BY <1>3, <1>4

\* A step has gone part of the way.
LEMMA PartlyStep ==
  ASSUME TrashInv, NEW c \in Callers, Bin!Partly(c) PROVE TrashInv' /\ CallStep(c)
<1>1. CASE /\ Bin!At(c, "put", "delete")
           /\ \E p \in Bin!Cur(c).origin : places' = [places EXCEPT ![p] = Bin!Torn(@)]
           /\ UNCHANGED <<files, info, purged>>
  BY <1>1, PartlyPut DEF Bin!Partly
<1>2. CASE /\ trashCall[c].step = "drop"
           /\ files' = [files EXCEPT ![Bin!Cur(c).slot] = Bin!Torn(@)]
           /\ Bin!Purge(c, {Bin!Cur(c).slot}) /\ UNCHANGED <<places, info>>
  BY <1>2, PartlyDropped DEF Bin!Partly
<1>3. CASE /\ trashCall[c].op = "empty" /\ UNCHANGED places
           /\ \/ /\ \E s \in Bin!Slots : files' = [files EXCEPT ![s] = {}] /\ Bin!Purge(c, {s})
                 /\ UNCHANGED info
              \/ /\ \E s \in Bin!Slots : info' = [info EXCEPT ![s] = {}]
                 /\ UNCHANGED <<files, purged>>
  BY <1>3, PartlyEmptied DEF Bin!Partly
<1> QED
  BY <1>1, <1>2, <1>3 DEF Bin!Partly, Bin!At

\* With no call under way nothing is asked of one.
LEMMA QuietIsSound ==
  ASSUME DataOK', \A c \in Callers : trashCall'[c] = Bin!Idle,
         trashCall' \in [Callers -> Frames], Bin!NothingTrashedIsLost'
  PROVE  TrashInv'
<1>1. \A c \in Callers : Sound(c)'
  BY IdleFrame DEF Sound, PutSafe, RestoreSafe, Bin!At
<1> QED
  BY <1>1 DEF TrashInv, TrashTypes, DataOK, OneCall, Alone

\* The application dies between two steps.
LEMMA CrashStep ==
  ASSUME TrashInv, Bin!Crash PROVE TrashInv'
<1>0. DataOK /\ Bin!NothingTrashedIsLost
  BY InvHasData DEF TrashInv
<1>1. /\ UNCHANGED <<places, files, info, madeAt, purged, broken>> /\ undo' = Bin!NoUndo
      /\ trashCall' = [c \in Callers |-> Bin!Idle] /\ faults < MaxFaults /\ faults' = faults + 1
  BY DEF Bin!Crash
<1>2. faults' \in 0 .. MaxFaults /\ undo' \in [Places -> SUBSET (1 .. MaxFiles)]
  BY <1>0, <1>1, FaultCounts, NoUndoType
<1>3. DataOK'
  BY <1>0, <1>1, <1>2 DEF DataOK, WasMade, OneOrigin
<1> QED
  BY <1>0, <1>1, <1>3, NothingMoves, IdleFrame, QuietIsSound

\* What is new is whole where it was made.
LEMMA MakeStep ==
  ASSUME TrashInv, NEW p \in Places, Bin!Make(p) PROVE TrashInv'
<1>0. DataOK /\ Bin!NothingTrashedIsLost /\ TrashTypes
  BY InvHasData DEF TrashInv
<1> DEFINE n == Len(madeAt)
<1>1. /\ UNCHANGED <<files, info, trashCall, purged, broken, undo, faults>>
      /\ places[p] = {} /\ n < MaxFiles /\ madeAt' = Append(madeAt, p)
      /\ places' = [places EXCEPT ![p] = {[file |-> Len(madeAt'), whole |-> TRUE]}]
      /\ \A c \in Callers : trashCall[c] = Bin!Idle
  BY DEF Bin!Make, Bin!Quiet
<1>2. n \in Nat /\ MaxFiles \in Nat
  BY <1>0, BinAssumption DEF DataOK
<1>3. madeAt' \in Seq(Places) /\ Len(madeAt') = n + 1
  BY <1>0, <1>1 DEF DataOK
<1> HIDE DEF n
<1> DEFINE new == [file |-> n + 1, whole |-> TRUE]
<1>4. new \in Bin!Content /\ new.file = n + 1 /\ new.whole
  BY <1>1, <1>2 DEF Bin!Content
<1>5. places' = [places EXCEPT ![p] = {new}]
  BY <1>1, <1>3
<1> HIDE DEF new
<1>6. places'[p] = {new} /\ \A r \in Places : r # p => places'[r] = places[r]
  BY <1>0, <1>5 DEF DataOK
<1>7. DataOK'
  <2>1. places' \in [Places -> SUBSET Bin!Content]
    BY <1>0, <1>4, <1>5 DEF DataOK
  <2>2. ASSUME NEW k \in Int, k <= Len(madeAt) PROVE k <= Len(madeAt')
    BY <1>2, <1>3, <2>2 DEF n
  <2>3. \A t \in Bin!Content : t.file \in Int
    BY <1>2 DEF Bin!Content
  <2>4. \A s \in Bin!Slots : \A t \in files'[s] : t.file <= Len(madeAt')
    BY <1>0, <1>1, <2>2, <2>3 DEF DataOK, WasMade
  <2>5. ASSUME NEW r \in Places, NEW t \in places'[r] PROVE t.file <= Len(madeAt')
    <3>1. CASE r = p
      BY <1>2, <1>3, <1>4, <1>6, <2>5, <3>1
    <3>2. CASE r # p
      BY <1>0, <1>6, <2>2, <2>3, <2>5, <3>2 DEF DataOK, WasMade
    <3> QED
      BY <3>1, <3>2
  <2>6. 1 .. Len(madeAt) \subseteq 1 .. Len(madeAt')
    BY <1>2, <1>3 DEF n
  <2>7. Len(madeAt') <= MaxFiles
    BY <1>1, <1>2, <1>3 DEF n
  <2> QED
    BY <1>0, <1>1, <1>3, <2>1, <2>4, <2>5, <2>6, <2>7 DEF DataOK, WasMade, OneOrigin
<1>8. Bin!NothingTrashedIsLost'
  <2> SUFFICES ASSUME NEW m \in 1 .. Len(madeAt') PROVE Kept(m)'
    BY DEF Bin!NothingTrashedIsLost, Kept
  <2>1. CASE m = n + 1
    <3>1. n + 1 \in Bin!Whole(places'[p])
      BY <1>4, <1>6 DEF Bin!Whole
    <3> QED
      BY <2>1, <3>1 DEF Kept
  <2>2. CASE m \in 1 .. n
    <3>1. Kept(m)
      BY <1>0, <2>2 DEF Bin!NothingTrashedIsLost, Kept, n
    <3>2. \A r \in Places : m \in Bin!Whole(places[r]) => r # p
      BY <1>1, NoneIsWhole
    <3> QED
      BY <1>1, <1>6, <3>1, <3>2 DEF Kept
  <2> QED
    BY <1>2, <1>3, <2>1, <2>2
<1> QED
  BY <1>0, <1>1, <1>7, <1>8, QuietIsSound DEF TrashTypes

\* The initial states satisfy TrashInv.
LEMMA InitTrashInv == Bin!Init => TrashInv
<1> SUFFICES ASSUME Bin!Init PROVE TrashInv
  OBVIOUS
<1>1. /\ places = [p \in Places |-> {}] /\ madeAt = <<>> /\ files = [s \in Bin!Slots |-> {}]
      /\ info = [s \in Bin!Slots |-> {}] /\ trashCall = [c \in Callers |-> Bin!Idle]
      /\ purged = {} /\ broken = {} /\ undo = Bin!NoUndo /\ faults = 0
  BY DEF Bin!Init
<1>2. madeAt \in Seq(Places) /\ Len(madeAt) = 0 /\ trashCall \in [Callers -> Frames]
  BY <1>1, EmptySeq, IdleFrame
<1>3. TrashTypes
  BY <1>1, <1>2, BinAssumption, NoUndoType DEF TrashTypes
<1>4. \A c \in Callers : Sound(c)
  BY <1>1, IdleFrame DEF Sound, PutSafe, RestoreSafe, Bin!At
<1>5. WasMade /\ OneCall /\ OneOrigin
  BY <1>1 DEF WasMade, OneCall, OneOrigin
<1>6. Bin!NothingTrashedIsLost
  BY <1>2 DEF Bin!NothingTrashedIsLost
<1> QED
  BY <1>3, <1>4, <1>5, <1>6 DEF TrashInv

\* Every step of the trash keeps TrashInv.
LEMMA StepTrashInv == ASSUME TrashInv, [Bin!Next]_ofBin PROVE TrashInv'
<1>1. ASSUME NEW c \in Callers, Bin!Step(c) PROVE TrashInv'
  BY <1>1, PutStep, PutNameStep, PutMoveStep, PutCopiedStep, PutDeletedStep, WriteTrashInfoStep,
     PutFailsStep, RestoreStep, RestoreOriginsStep, RestoreCheckStep, RestoreMoveStep,
     RestoreCopiedStep, DroppedStep, RemoveMetaStep, RestoreFailsStep, RemoveStep,
     RemoveFailsStep, EmptyStep, EmptyFilesStep, EmptyInfosStep, EmptyFailsStep, PartlyStep
     DEF Bin!Step
<1>2. ASSUME UNCHANGED ofBin PROVE TrashInv'
  <2>1. UNCHANGED <<places, files, info, trashCall, madeAt, purged, broken, undo, faults>>
    BY <1>2 DEF ofBin
  <2>2. TrashTypes' /\ WasMade' /\ OneCall' /\ OneOrigin'
    BY <2>1 DEF TrashInv, TrashTypes, WasMade, OneCall, Alone, OneOrigin
  <2>3. ASSUME NEW c \in Callers PROVE Sound(c)'
    BY <2>1 DEF TrashInv, Sound, PutSafe, RestoreSafe, Bin!At, Bin!Cur
  <2>4. Bin!NothingTrashedIsLost'
    BY <2>1, NothingMoves DEF TrashInv
  <2> QED
    BY <2>2, <2>3, <2>4 DEF TrashInv
<1> QED
  BY <1>1, <1>2, CrashStep, MakeStep DEF Bin!Next

-----------------------------------------------------------------------------
\* NotesInv as the only call that may be under way sees it.
NotesAt(c) ==
  /\ faults = 0 => /\ \A s \in Bin!Slots : files[s] = {} /\ info[s] # {} => Due(c, s)
                   /\ \A s \in Bin!Slots : PutOf(c, s) => info[s] = {}
  /\ PutTrue(c) /\ RestoreTrue(c) /\ ThingsAtHome
  /\ \A s \in Bin!Slots : PutOf(c, s) \/ OfPlace(files[s], info[s])

\* NotesInv, for the only call.
LEMMA NotesFor ==
  ASSUME NotesInv, NEW c \in Callers, Alone(c)
  PROVE  NotesAt(c)
<1>1. \A d \in Callers : \A s \in Bin!Slots : (Due(d, s) \/ PutOf(d, s)) => d = c
  BY IdleFrame DEF Alone, Due, PutOf
<1>2. \A s \in Bin!Slots : PutOf(c, s) \/ OfPlace(files[s], info[s])
  BY <1>1 DEF NotesInv, NotesSay
<1>3. faults = 0 => /\ \A s \in Bin!Slots : files[s] = {} /\ info[s] # {} => Due(c, s)
                    /\ \A s \in Bin!Slots : PutOf(c, s) => info[s] = {}
  BY <1>1 DEF NotesInv, NoStrayNotes
<1> QED
  BY <1>2, <1>3 DEF NotesInv, NotesAt

\* And back.
LEMMA NotesBack ==
  ASSUME TrashInv', NEW c \in Callers, CallStep(c), NotesAt(c)'
  PROVE  NotesInv'
<1>1. \A d \in Callers : d # c => trashCall'[d] = Bin!Idle
  BY DEF CallStep
<1>2. \A d \in Callers : d # c => PutTrue(d)' /\ RestoreTrue(d)' /\ \A s \in Bin!Slots : ~PutOf(d, s)'
  BY <1>1, IdleFrame DEF PutTrue, RestoreTrue, PutOf, Bin!At
<1>3. \A d \in Callers : PutTrue(d)' /\ RestoreTrue(d)'
  BY <1>2 DEF NotesAt
<1>4. faults' = 0 => NoStrayNotes'
  BY <1>2 DEF NotesAt, NoStrayNotes
<1>5. NotesSay' /\ ThingsAtHome'
  BY DEF NotesAt, NotesSay
<1> QED
  BY <1>3, <1>4, <1>5 DEF NotesInv

\* Nothing is of every place; what no place is named for is of it.
LEMMA OfPlaceFacts ==
  /\ \A o : OfPlace({}, o)
  /\ \A X : OfPlace(X, {})
  /\ \A X, o, q : OfPlace(X, o) /\ q \subseteq o => OfPlace(X, q)
BY DEF OfPlace

\* What comes of things is at the same place.
ComesOf(Y, X) == \A t \in Y : \E u \in X : u.file = t.file

\* What is left of things of a place is of that place.
LEMMA OfPlaceKept ==
  ASSUME madeAt' = madeAt, NEW X, NEW Y, NEW o, OfPlace(X, o), ComesOf(Y, X)
  PROVE  \A t \in Y : o \subseteq {madeAt'[t.file]}
BY DEF OfPlace, ComesOf

\* What is left of a thing that was partly removed is of it.
LEMMA TornComesOf ==
  ASSUME NEW X, Made(X)
  PROVE  ComesOf(Bin!Torn(X), X) /\ (Bin!Torn(X) = {} <=> X = {})
BY TornIsNotWhole DEF ComesOf, Made

\* All that is in the trash comes of what was there under the name.
FilesShrink == \A s \in Bin!Slots : ComesOf(files'[s], files[s])

\* A file of the trash that only shrinks stays of its place.
LEMMA FilesKeepPlace ==
  ASSUME FilesShrink, madeAt' = madeAt, NEW s \in Bin!Slots, NEW o, OfPlace(files[s], o)
  PROVE  OfPlace(files[s], o)'
BY OfPlaceKept DEF FilesShrink, OfPlace

\* What was chosen to be restored is restored to where it is of.
LEMMA RestoreGoesOn ==
  ASSUME TrashInv, NEW c \in Callers, NotesAt(c), FilesShrink, madeAt' = madeAt,
         trashCall[c].op = "restore",
         \A i \in DOMAIN trashCall'[c].todo : \E j \in DOMAIN trashCall[c].todo :
            trashCall'[c].todo[i] = trashCall[c].todo[j]
  PROVE  RestoreTrue(c)'
<1>1. trashCall[c].todo \in Seq(Bin!Item)
  BY DEF TrashInv, TrashTypes, Frames
<1>2. \A j \in DOMAIN trashCall[c].todo :
        OfPlace(files[trashCall[c].todo[j].slot], trashCall[c].todo[j].origin)
  BY DEF NotesAt, RestoreTrue
<1> SUFFICES ASSUME NEW i \in DOMAIN trashCall'[c].todo
             PROVE  OfPlace(files[trashCall[c].todo[i].slot], trashCall[c].todo[i].origin)'
  BY DEF RestoreTrue
<1>3. PICK j \in DOMAIN trashCall[c].todo : trashCall'[c].todo[i] = trashCall[c].todo[j]
  OBVIOUS
<1>4. PICK s, o : s = trashCall[c].todo[j].slot /\ o = trashCall[c].todo[j].origin
  OBVIOUS
<1>5. s \in Bin!Slots /\ OfPlace(files[s], o)
  <2>1. PICK td : td = trashCall[c].todo /\ td \in Seq(Bin!Item)
    BY <1>1
  <2>2. td[j] \in Bin!Item
    BY <2>1
  <2> QED
    BY <1>2, <1>4, <2>1, <2>2 DEF Bin!Item
<1>6. OfPlace(files[s], o)'
  BY <1>5, FilesKeepPlace
<1> QED
  BY <1>3, <1>4, <1>6

\* The thing of the item that is being restored is of the item's origin.
LEMMA RestoredIsOfOrigin ==
  ASSUME TrashInv, NEW c \in Callers, NotesAt(c), trashCall[c].op = "restore"
  PROVE  OfPlace(files[Bin!Cur(c).slot], Bin!Cur(c).origin)
<1>1. Bin!Cur(c) = trashCall[c].todo[1] /\ 1 \in DOMAIN trashCall[c].todo
  BY Busy, InvHasData, CurIs
<1> QED
  BY <1>1 DEF NotesAt, RestoreTrue

\* The things and notes stay as they are.
LEMMA NotesOnlyCalls ==
  ASSUME NEW c \in Callers, NotesAt(c), UNCHANGED <<places, files, info, madeAt>>,
         faults' = 0 => faults = 0,
         PutTrue(c)', RestoreTrue(c)',
         \A s \in Bin!Slots : faults' = 0 /\ files[s] = {} /\ Due(c, s) => Due(c, s)' \/ info[s] = {},
         \A s \in Bin!Slots : PutOf(c, s)' /\ faults' = 0 => info[s] = {},
         \A s \in Bin!Slots : PutOf(c, s) => PutOf(c, s)' \/ OfPlace(files[s], info[s])
  PROVE  NotesAt(c)'
<1>1. \A s \in Bin!Slots : (PutOf(c, s) \/ OfPlace(files[s], info[s]))'
  BY DEF NotesAt, OfPlace
<1>2. ThingsAtHome'
  BY DEF NotesAt, ThingsAtHome, OfPlace
<1> QED
  BY <1>1, <1>2 DEF NotesAt

\* What a step leaves where it is stays where it is of.
LEMMA HomeAfter ==
  ASSUME ThingsAtHome, madeAt' = madeAt, NEW p \in Places, OfPlace(places[p], {p})',
         \A r \in Places : r # p => places'[r] = places[r]
  PROVE  ThingsAtHome'
BY DEF ThingsAtHome, OfPlace

\* No call of the kind.
LEMMA NotDue ==
  ASSUME NEW c \in Callers, trashCall[c].op \in {"none", "put"}
  PROVE  \A s \in Bin!Slots : ~Due(c, s)
BY DEF Due

\* A call begins.
LEMMA BeginNotes ==
  ASSUME NEW c \in Callers, NotesAt(c), trashCall[c] = Bin!Idle,
         UNCHANGED <<places, files, info, madeAt, faults>>,
         trashCall'[c].op = "put" => trashCall'[c].step = "name",
         RestoreTrue(c)'
  PROVE  NotesAt(c)'
<1>1. \A s \in Bin!Slots : ~Due(c, s) /\ ~PutOf(c, s) /\ ~PutOf(c, s)'
  BY IdleFrame DEF Due, PutOf
<1>2. PutTrue(c)'
  BY DEF PutTrue, Bin!At
<1> QED
  BY <1>1, <1>2, NotesOnlyCalls

\* Delete begins.
LEMMA PutNotes ==
  ASSUME TrashInv, NEW c \in Callers, NotesAt(c), Bin!Put(c) PROVE NotesAt(c)'
<1>1. /\ UNCHANGED <<places, files, info, madeAt, faults>>
      /\ \E td : Bin!Begin(c, "put", "name", td)
  BY DEF Bin!Put
<1>2. PICK td : Bin!Begin(c, "put", "name", td)
  BY <1>1
<1>3. trashCall'[c].op = "put" /\ trashCall'[c].step = "name" /\ trashCall[c] = Bin!Idle
  BY <1>2 DEF TrashInv, TrashTypes, Bin!Begin
<1>4. RestoreTrue(c)'
  BY <1>3 DEF RestoreTrue
<1> QED
  BY <1>1, <1>3, <1>4, BeginNotes

\* Restore begins: what its list says is of the notes.
LEMMA RestoreNotes ==
  ASSUME TrashInv, NEW c \in Callers, NotesAt(c), Bin!Restore(c) PROVE NotesAt(c)'
<1>1. /\ UNCHANGED <<places, files, info, madeAt, faults>>
      /\ \E chosen \in Bin!Selections({s \in Bin!Slots : files[s] # {}}) :
           Bin!Begin(c, "restore", "check", [i \in DOMAIN chosen |-> Bin!Listed(chosen[i])])
  BY DEF Bin!Restore
<1>2. PICK chosen \in Bin!Selections({s \in Bin!Slots : files[s] # {}}) :
           Bin!Begin(c, "restore", "check", [i \in DOMAIN chosen |-> Bin!Listed(chosen[i])])
  BY <1>1
<1>3. \A i \in DOMAIN chosen : chosen[i] \in Bin!Slots
  BY SelectionsAre
<1>4. /\ trashCall'[c].op = "restore" /\ trashCall[c] = Bin!Idle
      /\ trashCall'[c].todo = [i \in DOMAIN chosen |-> Bin!Listed(chosen[i])]
  BY <1>2 DEF TrashInv, TrashTypes, Bin!Begin
<1>5. \A s \in Bin!Slots : ~PutOf(c, s)
  BY <1>4, IdleFrame DEF PutOf
<1>6. RestoreTrue(c)'
  BY <1>1, <1>3, <1>4, <1>5 DEF RestoreTrue, NotesAt, OfPlace, Bin!Listed
<1> QED
  BY <1>1, <1>4, <1>6, BeginNotes

\* Undo begins: what it found is of the places it looked for.
LEMMA RestoreOriginsNotes ==
  ASSUME TrashInv, NEW c \in Callers, NotesAt(c), Bin!RestoreOrigins(c) PROVE NotesAt(c)'
<1>0. DataOK
  BY InvHasData
<1>1. UNCHANGED <<places, files, info, madeAt, faults>>
  BY DEF Bin!RestoreOrigins
<1>2. PICK chosen \in Bin!Selections({p \in Places : undo[p] # {} /\ Bin!LastListed(p) # {}}) :
        Bin!Begin(c, "restore", "check",
          [i \in DOMAIN chosen |-> [slot |-> CHOOSE s \in Bin!LastListed(chosen[i]) : TRUE,
                                    origin |-> {chosen[i]}]])
  BY DEF Bin!RestoreOrigins
<1>3. \A i \in DOMAIN chosen : chosen[i] \in Places /\ Bin!LastListed(chosen[i]) # {}
  BY SelectionsAre
<1>4. /\ trashCall'[c].op = "restore" /\ trashCall[c] = Bin!Idle
      /\ trashCall'[c].todo =
          [i \in DOMAIN chosen |-> [slot |-> CHOOSE s \in Bin!LastListed(chosen[i]) : TRUE,
                                    origin |-> {chosen[i]}]]
  BY <1>2 DEF TrashInv, TrashTypes, Bin!Begin
<1>5. \A s \in Bin!Slots : ~PutOf(c, s)
  BY <1>4, IdleFrame DEF PutOf
<1>6. ASSUME NEW p \in Places, Bin!LastListed(p) # {}
      PROVE  OfPlace(files[CHOOSE s \in Bin!LastListed(p) : TRUE], {p})
  <2>1. PICK s : s = CHOOSE x \in Bin!LastListed(p) : TRUE
    OBVIOUS
  <2>2. s \in Bin!Slots /\ p \in info[s]
    BY <1>0, <1>6, <2>1, LastListedIs
  <2>3. OfPlace(files[s], {p})
    BY <1>5, <2>2, OfPlaceFacts DEF NotesAt
  <2> QED
    BY <2>1, <2>3
<1>7. RestoreTrue(c)'
  <2>1. ASSUME NEW i \in DOMAIN chosen
        PROVE  OfPlace(files[trashCall'[c].todo[i].slot], trashCall'[c].todo[i].origin)
    <3>1. PICK p : p = chosen[i] /\ p \in Places /\ Bin!LastListed(p) # {}
      BY <1>3
    <3>2. trashCall'[c].todo[i] =
            [slot |-> CHOOSE s \in Bin!LastListed(p) : TRUE, origin |-> {p}]
      BY <1>4, <3>1
    <3>3. /\ trashCall'[c].todo[i].slot = CHOOSE s \in Bin!LastListed(p) : TRUE
          /\ trashCall'[c].todo[i].origin = {p}
      BY <3>2
    <3> QED
      BY <1>6, <3>1, <3>3
  <2>2. DOMAIN trashCall'[c].todo = DOMAIN chosen
    BY <1>4
  <2> QED
    BY <1>1, <2>1, <2>2 DEF RestoreTrue, OfPlace
<1> QED
  BY <1>1, <1>4, <1>7, BeginNotes

\* A removal, or emptying, begins.
LEMMA RemoveNotes ==
  ASSUME TrashInv, NEW c \in Callers, NotesAt(c), Bin!Remove(c) \/ Bin!Empty(c) PROVE NotesAt(c)'
<1>1. /\ UNCHANGED <<places, files, info, madeAt, faults>>
      /\ \/ \E td : Bin!Begin(c, "remove", "drop", td)
         \/ \E td : Bin!Begin(c, "empty", "files", td)
  BY DEF Bin!Remove, Bin!Empty
<1>2. trashCall'[c].op \in {"remove", "empty"} /\ trashCall[c] = Bin!Idle
  BY <1>1 DEF TrashInv, TrashTypes, Bin!Begin
<1>3. RestoreTrue(c)'
  BY <1>2 DEF RestoreTrue
<1> QED
  BY <1>1, <1>2, <1>3, BeginNotes

-----------------------------------------------------------------------------
\* The name given has no file: without a failure it has no note either.
LEMMA PutNameNotes ==
  ASSUME TrashInv, NEW c \in Callers, NotesAt(c), CallStep(c), Bin!PutName(c) PROVE NotesAt(c)'
<1>0. trashCall[c].op = "put" /\ trashCall[c].step = "name" /\ TrashTypes /\ Alone(c)
      /\ UNCHANGED <<places, files, info, madeAt, faults>>
  BY InvHasData, Busy DEF Bin!PutName, Bin!At
<1>1. \A s \in Bin!Slots : ~Due(c, s) /\ ~PutOf(c, s)
  BY <1>0 DEF Due, PutOf
<1>2. CASE Bin!GiveUp(c)
  <2>1. trashCall'[c] = Bin!Idle
    BY <1>0, <1>2, GivesUp
  <2>2. PutTrue(c)' /\ RestoreTrue(c)' /\ \A s \in Bin!Slots : ~PutOf(c, s)'
    BY <2>1, IdleFrame DEF PutTrue, RestoreTrue, PutOf, Bin!At
  <2> QED
    BY <1>0, <1>1, <2>2, NotesOnlyCalls
<1>3. CASE /\ Bin!FreeNames # {}
           /\ trashCall' = [trashCall EXCEPT ![c].step = "move",
                                            ![c].todo[1].slot = Bin!UniqueTrashName]
  <2>1. /\ trashCall'[c].op = "put" /\ trashCall'[c].step = "move"
        /\ trashCall'[c].todo = [trashCall[c].todo EXCEPT ![1].slot = Bin!UniqueTrashName]
    BY <1>0, <1>3 DEF TrashTypes, Frames
  <2>2. PICK td : td = trashCall[c].todo /\ td \in Seq(Bin!Item) /\ td # <<>>
    BY <1>0, Busy DEF Frames
  <2>3. PICK s : s = Bin!UniqueTrashName /\ s \in Bin!Slots /\ files[s] = {}
    BY <1>3, NameIsFree
  <2>4. Head([td EXCEPT ![1].slot = s]).slot = s
    <3>1. 1 \in DOMAIN td /\ td[1] \in Bin!Item
      BY <2>2
    <3> DEFINE td2 == [td EXCEPT ![1] = [td[1] EXCEPT !.slot = s]]
    <3>2. td2 = [td EXCEPT ![1].slot = s]
      BY <3>1
    <3>3. td2[1] = [td[1] EXCEPT !.slot = s] /\ td2 \in Seq(Bin!Item) /\ td2 # <<>>
      BY <2>2, <2>3, <3>1 DEF Bin!Item
    <3>4. td2[1].slot = s
      BY <3>1, <3>3 DEF Bin!Item
    <3> HIDE DEF td2
    <3>5. Head(td2) = td2[1]
      BY <3>3
    <3> QED
      BY <3>2, <3>4, <3>5
  <2>5. Bin!Cur(c)'.slot = s
    BY <2>1, <2>2, <2>3, <2>4 DEF Bin!Cur
  <2>6. PutTrue(c)' /\ RestoreTrue(c)'
    BY <2>1 DEF PutTrue, RestoreTrue, Bin!At
  <2>7. \A r \in Bin!Slots : PutOf(c, r)' => r = s
    BY <2>5 DEF PutOf
  <2>8. faults = 0 => info[s] = {}
    BY <1>1, <2>3 DEF NotesAt
  <2> QED
    BY <1>0, <1>1, <2>6, <2>7, <2>8, NotesOnlyCalls
<1> QED
  BY <1>2, <1>3 DEF Bin!PutName

\* What lies at a place is of the place.
LEMMA AtHome ==
  ASSUME ThingsAtHome, NEW p \in Places, NEW o, \A q \in o : q = p
  PROVE  OfPlace(places[p], o)
BY DEF ThingsAtHome, OfPlace

\* The file under the name given is of the place it left.
LEMMA PutMoveNotes ==
  ASSUME TrashInv, NEW c \in Callers, NotesAt(c), CallStep(c), Bin!PutMove(c) PROVE NotesAt(c)'
<1>0. TrashTypes /\ DataOK /\ trashCall[c].op = "put" /\ trashCall[c].step = "move" /\ Alone(c)
  BY InvHasData, Busy DEF Bin!PutMove, Bin!At
<1> DEFINE s == Bin!Cur(c).slot
           o == Bin!Cur(c).origin
<1>1. /\ s \in Bin!Slots /\ files[s] = {} /\ o \subseteq Places /\ \A p, q \in o : p = q
  BY <1>0, Busy DEF PutSafe, Bin!At
<1>2. UNCHANGED <<info, madeAt, faults>>
  BY DEF Bin!PutMove
<1>3. PICK p \in o :
       \/ places[p] = {} /\ Bin!GiveUp(c) /\ UNCHANGED <<places, files>>
       \/ /\ places[p] # {} /\ files' = [files EXCEPT ![s] = places[p]]
          /\ places' = [places EXCEPT ![p] = {}] /\ Bin!GoTo(c, "info")
       \/ /\ places[p] # {} /\ files' = [files EXCEPT ![s] = Bin!Torn(places[p])]
          /\ Bin!GoTo(c, "copy") /\ UNCHANGED places
  BY DEF Bin!PutMove
<1>4. p \in Places /\ Made(places[p]) /\ OfPlace(places[p], o)
  BY <1>0, <1>1, <1>3, MadeSets, AtHome DEF NotesAt
<1>5. \A r \in Bin!Slots : ~Due(c, r) /\ (PutOf(c, r) <=> r = s)
  BY <1>0 DEF Due, PutOf
<1>6. CASE places[p] = {} /\ Bin!GiveUp(c) /\ UNCHANGED <<places, files>>
  <2>1. trashCall'[c] = Bin!Idle
    BY <1>0, <1>6, GivesUp
  <2>2. PutTrue(c)' /\ RestoreTrue(c)' /\ \A r \in Bin!Slots : ~PutOf(c, r)'
    BY <2>1, IdleFrame DEF PutTrue, RestoreTrue, PutOf, Bin!At
  <2> QED
    BY <1>1, <1>2, <1>5, <1>6, <2>2, OfPlaceFacts, NotesOnlyCalls
<1>7. CASE /\ places[p] # {} /\ files' = [files EXCEPT ![s] = places[p]]
           /\ places' = [places EXCEPT ![p] = {}] /\ Bin!GoTo(c, "info")
  <2>1. /\ trashCall'[c].op = "put" /\ trashCall'[c].step = "info" /\ Bin!Cur(c)' = Bin!Cur(c)
    BY <1>0, <1>7, SameItem
  <2>2. files'[s] = places[p] /\ \A r \in Bin!Slots : r # s => files'[r] = files[r]
    BY <1>0, <1>1, <1>7 DEF DataOK
  <2>3. OfPlace(files[s], o)' /\ files'[s] # {}
    BY <1>2, <1>4, <1>7, <2>1, <2>2 DEF OfPlace
  <2>4. PutTrue(c)' /\ RestoreTrue(c)'
    BY <2>1, <2>3 DEF PutTrue, RestoreTrue, Bin!At
  <2>5. \A r \in Bin!Slots : PutOf(c, r)' <=> r = s
    BY <2>1 DEF PutOf
  <2>6. ThingsAtHome'
    BY <1>0, <1>2, <1>4, <1>7, OfPlaceFacts, HomeAfter DEF DataOK, NotesAt, OfPlace
  <2>7. \A r \in Bin!Slots : (PutOf(c, r) \/ OfPlace(files[r], info[r]))'
    BY <1>2, <1>5, <2>2, <2>5 DEF NotesAt, OfPlace
  <2> QED
    BY <1>2, <1>5, <2>2, <2>3, <2>4, <2>5, <2>6, <2>7 DEF NotesAt
<1>8. CASE /\ places[p] # {} /\ files' = [files EXCEPT ![s] = Bin!Torn(places[p])]
           /\ Bin!GoTo(c, "copy") /\ UNCHANGED places
  <2>1. /\ trashCall'[c].op = "put" /\ trashCall'[c].step = "copy" /\ Bin!Cur(c)' = Bin!Cur(c)
    BY <1>0, <1>8, SameItem
  <2>2. files'[s] = Bin!Torn(places[p]) /\ \A r \in Bin!Slots : r # s => files'[r] = files[r]
    BY <1>0, <1>1, <1>8 DEF DataOK
  <2>3. ComesOf(Bin!Torn(places[p]), places[p])
        /\ (Bin!Torn(places[p]) = {} <=> places[p] = {})
    BY <1>4, TornComesOf
  <2>4. OfPlace(files[s], o)' /\ files'[s] # {}
    BY <1>2, <1>4, <1>8, <2>1, <2>2, <2>3 DEF OfPlace, ComesOf
  <2>5. \A q \in o : places'[q] # {}
    BY <1>1, <1>3, <1>8
  <2>6. PutTrue(c)' /\ RestoreTrue(c)'
    BY <2>1, <2>4, <2>5 DEF PutTrue, RestoreTrue, Bin!At
  <2>7. \A r \in Bin!Slots : PutOf(c, r)' <=> r = s
    BY <2>1 DEF PutOf
  <2>8. ThingsAtHome'
    BY <1>2, <1>8 DEF NotesAt, ThingsAtHome, OfPlace
  <2>9. \A r \in Bin!Slots : (PutOf(c, r) \/ OfPlace(files[r], info[r]))'
    BY <1>2, <1>5, <2>2, <2>7 DEF NotesAt, OfPlace
  <2> QED
    BY <1>2, <1>5, <2>2, <2>4, <2>6, <2>7, <2>8, <2>9 DEF NotesAt
<1> QED
  BY <1>3, <1>6, <1>7, <1>8

\* So is its copy.
LEMMA PutCopiedNotes ==
  ASSUME TrashInv, NEW c \in Callers, NotesAt(c), CallStep(c), Bin!PutCopied(c) PROVE NotesAt(c)'
<1>0. TrashTypes /\ DataOK /\ trashCall[c].op = "put" /\ trashCall[c].step = "copy"
  BY InvHasData DEF Bin!PutCopied, Bin!At
<1> DEFINE s == Bin!Cur(c).slot
           o == Bin!Cur(c).origin
<1>1. s \in Bin!Slots /\ o \subseteq Places /\ \A p, q \in o : p = q
  BY <1>0, Busy
<1>2. UNCHANGED <<places, info, madeAt, faults>> /\ Bin!GoTo(c, "delete")
  BY DEF Bin!PutCopied
<1>3. PICK p \in o : files' = [files EXCEPT ![s] = places[p]]
  BY DEF Bin!PutCopied
<1>4. p \in Places /\ OfPlace(places[p], o) /\ places[p] # {}
  BY <1>0, <1>1, <1>3, AtHome DEF NotesAt, PutTrue, Bin!At
<1>5. \A r \in Bin!Slots : ~Due(c, r) /\ (PutOf(c, r) <=> r = s)
  BY <1>0 DEF Due, PutOf
<1>6. trashCall'[c].op = "put" /\ trashCall'[c].step = "delete" /\ Bin!Cur(c)' = Bin!Cur(c)
  BY <1>0, <1>2, SameItem
<1>7. files'[s] = places[p] /\ \A r \in Bin!Slots : r # s => files'[r] = files[r]
  BY <1>0, <1>1, <1>3 DEF DataOK
<1>8. OfPlace(files[s], o)' /\ files'[s] # {}
  BY <1>2, <1>4, <1>6, <1>7 DEF OfPlace
<1>9. PutTrue(c)' /\ RestoreTrue(c)'
  BY <1>6, <1>8 DEF PutTrue, RestoreTrue, Bin!At
<1>10. \A r \in Bin!Slots : PutOf(c, r)' <=> r = s
  BY <1>6 DEF PutOf
<1>11. ThingsAtHome'
  BY <1>2 DEF NotesAt, ThingsAtHome, OfPlace
<1>12. \A r \in Bin!Slots : (PutOf(c, r) \/ OfPlace(files[r], info[r]))'
  BY <1>2, <1>5, <1>7, <1>10 DEF NotesAt, OfPlace
<1> QED
  BY <1>2, <1>5, <1>7, <1>8, <1>9, <1>10, <1>11, <1>12 DEF NotesAt

\* The original goes, the copy stays.
LEMMA PutDeletedNotes ==
  ASSUME TrashInv, NEW c \in Callers, NotesAt(c), CallStep(c), Bin!PutDeleted(c) PROVE NotesAt(c)'
<1>0. TrashTypes /\ DataOK /\ trashCall[c].op = "put" /\ trashCall[c].step = "delete"
  BY InvHasData DEF Bin!PutDeleted, Bin!At
<1>1. Bin!Cur(c).origin \subseteq Places
  BY <1>0, Busy
<1>2. UNCHANGED <<files, info, madeAt, faults>> /\ Bin!GoTo(c, "info")
  BY DEF Bin!PutDeleted
<1>3. PICK p \in Bin!Cur(c).origin : places' = [places EXCEPT ![p] = {}]
  BY DEF Bin!PutDeleted
<1>4. trashCall'[c].op = "put" /\ trashCall'[c].step = "info" /\ Bin!Cur(c)' = Bin!Cur(c)
  BY <1>0, <1>2, SameItem
<1>5. PutTrue(c)' /\ RestoreTrue(c)'
  BY <1>0, <1>2, <1>4 DEF NotesAt, PutTrue, RestoreTrue, Bin!At, OfPlace
<1>6. \A r \in Bin!Slots : (PutOf(c, r)' <=> PutOf(c, r)) /\ ~Due(c, r)
  BY <1>0, <1>4 DEF PutOf, Due
<1>7. ThingsAtHome'
  BY <1>0, <1>1, <1>2, <1>3, HomeAfter DEF DataOK, NotesAt, OfPlace
<1>8. \A r \in Bin!Slots : (PutOf(c, r) \/ OfPlace(files[r], info[r]))'
  BY <1>2, <1>6 DEF NotesAt, OfPlace
<1> QED
  BY <1>2, <1>5, <1>6, <1>7, <1>8 DEF NotesAt

\* A call that moves nothing says nothing of the notes.
LEMMA PlainNotes ==
  ASSUME NEW c \in Callers, trashCall'[c].op = "put" => trashCall'[c].step = "name",
         trashCall'[c].op # "restore"
  PROVE  PutTrue(c)' /\ RestoreTrue(c)' /\ \A s \in Bin!Slots : ~PutOf(c, s)'
BY DEF PutTrue, RestoreTrue, PutOf, Bin!At

\* The note written names the place the file left.
LEMMA WriteTrashInfoNotes ==
  ASSUME TrashInv, NEW c \in Callers, NotesAt(c), CallStep(c), Bin!WriteTrashInfo(c)
  PROVE  NotesAt(c)'
<1>0. TrashTypes /\ DataOK /\ trashCall[c].op = "put" /\ trashCall[c].step = "info"
  BY InvHasData DEF Bin!WriteTrashInfo, Bin!At
<1> DEFINE s == Bin!Cur(c).slot
           o == Bin!Cur(c).origin
<1>1. s \in Bin!Slots /\ files[s] # {} /\ OfPlace(files[s], o)
  BY <1>0, Busy DEF NotesAt, PutTrue
<1>2. UNCHANGED <<places, files, madeAt, faults>> /\ Bin!Advance(c, "name")
      /\ info' = [info EXCEPT ![s] = o]
  BY DEF Bin!WriteTrashInfo
<1>3. \/ trashCall'[c] = Bin!Idle
      \/ trashCall'[c].op = "put" /\ trashCall'[c].step = "name"
  BY <1>0, <1>2, NextItem
<1>4. PutTrue(c)' /\ RestoreTrue(c)' /\ \A r \in Bin!Slots : ~PutOf(c, r)'
  BY <1>3, IdleFrame, PlainNotes
<1>5. \A r \in Bin!Slots : ~Due(c, r) /\ (PutOf(c, r) <=> r = s)
  BY <1>0 DEF Due, PutOf
<1>6. info'[s] = o /\ \A r \in Bin!Slots : r # s => info'[r] = info[r]
  BY <1>0, <1>1, <1>2 DEF DataOK
<1>7. \A r \in Bin!Slots : OfPlace(files[r], info[r])'
  BY <1>1, <1>2, <1>5, <1>6 DEF NotesAt, OfPlace
<1>8. ThingsAtHome'
  BY <1>2 DEF NotesAt, ThingsAtHome, OfPlace
<1> QED
  BY <1>1, <1>2, <1>4, <1>5, <1>6, <1>7, <1>8 DEF NotesAt

\* With one fault at most, a fault is the first.
LEMMA FirstFault ==
  ASSUME MaxFaults <= 1, DataOK, faults < MaxFaults, faults' = faults + 1
  PROVE  faults = 0 /\ faults' # 0
BY BinAssumption DEF DataOK

\* A delete fails: the one fault there is, so that no note was stray before.
LEMMA PutFailsNotes ==
  ASSUME MaxFaults <= 1, TrashInv, NEW c \in Callers, NotesAt(c), CallStep(c), Bin!PutFails(c)
  PROVE  NotesAt(c)'
<1>0. TrashTypes /\ DataOK /\ trashCall[c].op = "put" /\ Alone(c)
  BY InvHasData, Busy DEF Bin!PutFails
<1> DEFINE s == Bin!Cur(c).slot
<1>1. s \in Bin!Slots
  BY <1>0, Busy
<1>2. UNCHANGED <<places, madeAt>> /\ Bin!GiveUp(c) /\ faults < MaxFaults /\ faults' = faults + 1
  BY DEF Bin!PutFails
<1>3. faults = 0 /\ faults' # 0
  BY <1>0, <1>2, FirstFault
<1>4. trashCall'[c] = Bin!Idle
  BY <1>0, <1>2, GivesUp
<1>5. PutTrue(c)' /\ RestoreTrue(c)'
  BY <1>4, IdleFrame, PlainNotes
<1>6. \A r \in Bin!Slots : PutOf(c, r) => r = s /\ info[s] = {}
  BY <1>3 DEF PutOf, NotesAt
<1>7. files' = files \/ files' = [files EXCEPT ![s] = {}]
  BY DEF Bin!PutFails
<1>8. info' = info \/ info' = [info EXCEPT ![s] = {}]
  BY DEF Bin!PutFails
<1>9. ASSUME NEW r \in Bin!Slots PROVE OfPlace(files[r], info[r])'
  <2>1. files'[r] = files[r] \/ files'[r] = {}
    BY <1>0, <1>1, <1>7 DEF DataOK
  <2>2. info'[r] = info[r] \/ info'[r] = {}
    BY <1>0, <1>1, <1>8 DEF DataOK
  <2>3. OfPlace(files[r], info[r])
    BY <1>6, OfPlaceFacts DEF NotesAt
  <2> QED
    BY <1>2, <2>1, <2>2, <2>3 DEF OfPlace
<1>10. ThingsAtHome'
  BY <1>2 DEF NotesAt, ThingsAtHome, OfPlace
<1> QED
  BY <1>3, <1>5, <1>9, <1>10 DEF NotesAt

\* Files that stay shrink by nothing.
LEMMA SameFilesShrink == ASSUME UNCHANGED files PROVE FilesShrink
BY DEF FilesShrink, ComesOf

\* The next of what is restored.
LEMMA RestoreNextTrue ==
  ASSUME TrashInv, NEW c \in Callers, NotesAt(c), FilesShrink, madeAt' = madeAt,
         trashCall[c].op = "restore", Bin!Advance(c, "check")
  PROVE  /\ RestoreTrue(c)' /\ PutTrue(c)' /\ \A s \in Bin!Slots : ~PutOf(c, s)'
<1>1. \/ trashCall'[c] = Bin!Idle
      \/ /\ trashCall'[c].op = trashCall[c].op /\ trashCall'[c].step = "check"
         /\ \A i \in DOMAIN trashCall'[c].todo :
              i + 1 \in DOMAIN trashCall[c].todo
              /\ trashCall'[c].todo[i] = trashCall[c].todo[i + 1]
  BY NextItem
<1>2. trashCall'[c].op # "put"
  BY <1>1, IdleFrame
<1>3. PutTrue(c)' /\ \A s \in Bin!Slots : ~PutOf(c, s)'
  BY <1>2 DEF PutTrue, PutOf, Bin!At
<1>4. CASE trashCall'[c] = Bin!Idle
  BY <1>3, <1>4, IdleFrame DEF RestoreTrue
<1>5. CASE \A i \in DOMAIN trashCall'[c].todo : \E j \in DOMAIN trashCall[c].todo :
             trashCall'[c].todo[i] = trashCall[c].todo[j]
  BY <1>3, <1>5, RestoreGoesOn
<1> QED
  BY <1>1, <1>4, <1>5

\* The same of it goes on.
LEMMA RestoreSameTrue ==
  ASSUME TrashInv, NEW c \in Callers, NotesAt(c), FilesShrink, madeAt' = madeAt,
         trashCall[c].op \in {"restore", "remove"}, trashCall'[c].op = trashCall[c].op,
         trashCall'[c].todo = trashCall[c].todo
  PROVE  /\ RestoreTrue(c)' /\ PutTrue(c)' /\ \A s \in Bin!Slots : ~PutOf(c, s)'
<1>1. PutTrue(c)' /\ \A s \in Bin!Slots : ~PutOf(c, s)'
  BY DEF PutTrue, PutOf, Bin!At
<1>2. CASE trashCall[c].op = "remove"
  BY <1>1, <1>2 DEF RestoreTrue
<1>3. CASE trashCall[c].op = "restore"
  <2>1. \A i \in DOMAIN trashCall'[c].todo : \E j \in DOMAIN trashCall[c].todo :
          trashCall'[c].todo[i] = trashCall[c].todo[j]
    OBVIOUS
  <2> QED
    BY <1>1, <1>3, <2>1, RestoreGoesOn
<1> QED
  BY <1>2, <1>3

\* Restore looks whether the place is free.
LEMMA RestoreCheckNotes ==
  ASSUME TrashInv, NEW c \in Callers, NotesAt(c), CallStep(c), Bin!RestoreCheck(c)
  PROVE  NotesAt(c)'
<1>0. trashCall[c].op = "restore" /\ trashCall[c].step = "check" /\ FilesShrink
      /\ UNCHANGED <<places, files, info, madeAt, faults>>
  BY SameFilesShrink DEF Bin!RestoreCheck, Bin!At
<1>1. \A s \in Bin!Slots : ~Due(c, s) /\ ~PutOf(c, s)
  BY <1>0 DEF Due, PutOf
<1>2. PutTrue(c)' /\ RestoreTrue(c)' /\ \A s \in Bin!Slots : ~PutOf(c, s)'
  <2>1. CASE Bin!GoTo(c, "move")
    <3>1. trashCall'[c].op = trashCall[c].op /\ trashCall'[c].todo = trashCall[c].todo
      BY <1>0, <2>1, SameItem
    <3> QED
      BY <1>0, <3>1, RestoreSameTrue
  <2>2. CASE Bin!Advance(c, "check")
    BY <1>0, <2>2, RestoreNextTrue
  <2> QED
    BY <2>1, <2>2 DEF Bin!RestoreCheck
<1> QED
  BY <1>0, <1>1, <1>2, NotesOnlyCalls

\* The file goes back to the place it was made at.
LEMMA RestoreMoveNotes ==
  ASSUME TrashInv, NEW c \in Callers, NotesAt(c), CallStep(c), Bin!RestoreMove(c)
  PROVE  NotesAt(c)'
<1>0. TrashTypes /\ DataOK /\ trashCall[c].op = "restore" /\ trashCall[c].step = "move"
  BY InvHasData DEF Bin!RestoreMove, Bin!At
<1> DEFINE s == Bin!Cur(c).slot
           o == Bin!Cur(c).origin
<1>1. s \in Bin!Slots /\ o \subseteq Places
  BY <1>0, Busy
<1>2. UNCHANGED <<info, madeAt, faults>>
  BY DEF Bin!RestoreMove
<1>3. PICK p \in o :
       \/ Bin!Advance(c, "check") /\ UNCHANGED <<places, files>>
       \/ /\ places' = [places EXCEPT ![p] = files[s]]
          /\ files' = [files EXCEPT ![s] = {}] /\ Bin!GoTo(c, "meta")
       \/ /\ places' = [places EXCEPT ![p] = Bin!Torn(files[s])]
          /\ Bin!GoTo(c, "copy") /\ UNCHANGED files
  BY DEF Bin!RestoreMove
<1>4. p \in Places /\ Made(files[s]) /\ OfPlace(files[s], {p})
  BY <1>0, <1>1, <1>3, MadeSets, RestoredIsOfOrigin, OfPlaceFacts
<1>5. \A r \in Bin!Slots : ~Due(c, r) /\ ~PutOf(c, r)
  BY <1>0 DEF Due, PutOf
<1>6. CASE Bin!Advance(c, "check") /\ UNCHANGED <<places, files>>
  <2>1. PutTrue(c)' /\ RestoreTrue(c)' /\ \A r \in Bin!Slots : ~PutOf(c, r)'
    BY <1>0, <1>2, <1>6, SameFilesShrink, RestoreNextTrue
  <2> QED
    BY <1>2, <1>5, <1>6, <2>1, NotesOnlyCalls
<1>7. CASE /\ places' = [places EXCEPT ![p] = files[s]]
           /\ files' = [files EXCEPT ![s] = {}] /\ Bin!GoTo(c, "meta")
  <2>1. /\ trashCall'[c].op = trashCall[c].op /\ trashCall'[c].step = "meta"
        /\ trashCall'[c].todo = trashCall[c].todo /\ Bin!Cur(c)' = Bin!Cur(c)
    BY <1>0, <1>7, SameItem
  <2>2. files'[s] = {} /\ \A r \in Bin!Slots : r # s => files'[r] = files[r]
    BY <1>0, <1>1, <1>7 DEF DataOK
  <2>3. FilesShrink
    BY <2>2 DEF FilesShrink, ComesOf
  <2>4. PutTrue(c)' /\ RestoreTrue(c)' /\ \A r \in Bin!Slots : ~PutOf(c, r)'
    BY <1>0, <1>2, <2>1, <2>3, RestoreSameTrue
  <2>5. \A r \in Bin!Slots : Due(c, r)' <=> r = s
    BY <1>0, <2>1 DEF Due
  <2>6. ThingsAtHome'
    <3>1. places'[p] = files[s] /\ \A r \in Places : r # p => places'[r] = places[r]
      BY <1>0, <1>4, <1>7 DEF DataOK
    <3>2. OfPlace(places[p], {p})'
      BY <1>2, <1>4, <3>1 DEF OfPlace
    <3> QED
      BY <1>2, <1>4, <3>1, <3>2, HomeAfter DEF NotesAt
  <2>7. \A r \in Bin!Slots : OfPlace(files[r], info[r])'
    BY <1>2, <1>5, <2>2 DEF NotesAt, OfPlace
  <2> QED
    BY <1>2, <1>5, <2>2, <2>4, <2>5, <2>6, <2>7 DEF NotesAt
<1>8. CASE /\ places' = [places EXCEPT ![p] = Bin!Torn(files[s])]
           /\ Bin!GoTo(c, "copy") /\ UNCHANGED files
  <2>1. /\ trashCall'[c].op = trashCall[c].op /\ trashCall'[c].step = "copy"
        /\ trashCall'[c].todo = trashCall[c].todo
    BY <1>0, <1>8, SameItem
  <2>2. PutTrue(c)' /\ RestoreTrue(c)' /\ \A r \in Bin!Slots : ~PutOf(c, r)'
    BY <1>0, <1>2, <1>8, <2>1, SameFilesShrink, RestoreSameTrue
  <2>3. ThingsAtHome'
    <3>1. places'[p] = Bin!Torn(files[s]) /\ \A r \in Places : r # p => places'[r] = places[r]
      BY <1>0, <1>4, <1>8 DEF DataOK
    <3>2. ComesOf(Bin!Torn(files[s]), files[s])
      BY <1>4, TornComesOf
    <3>3. OfPlace(places[p], {p})'
      BY <1>2, <1>4, <3>1, <3>2 DEF OfPlace, ComesOf
    <3> QED
      BY <1>2, <1>4, <3>1, <3>3, HomeAfter DEF NotesAt
  <2>4. \A r \in Bin!Slots : OfPlace(files[r], info[r])'
    BY <1>2, <1>5, <1>8 DEF NotesAt, OfPlace
  <2> QED
    BY <1>2, <1>5, <1>8, <2>2, <2>3, <2>4 DEF NotesAt
<1> QED
  BY <1>3, <1>6, <1>7, <1>8

\* So does its copy.
LEMMA RestoreCopiedNotes ==
  ASSUME TrashInv, NEW c \in Callers, NotesAt(c), CallStep(c), Bin!RestoreCopied(c)
  PROVE  NotesAt(c)'
<1>0. DataOK /\ trashCall[c].op = "restore" /\ trashCall[c].step = "copy"
  BY InvHasData DEF Bin!RestoreCopied, Bin!At
<1> DEFINE s == Bin!Cur(c).slot
<1>1. s \in Bin!Slots /\ Bin!Cur(c).origin \subseteq Places
  BY <1>0, Busy
<1>2. UNCHANGED <<files, info, madeAt, faults>> /\ Bin!GoTo(c, "drop")
  BY DEF Bin!RestoreCopied
<1>3. PICK p \in Bin!Cur(c).origin : places' = [places EXCEPT ![p] = files[s]]
  BY DEF Bin!RestoreCopied
<1>4. p \in Places /\ OfPlace(files[s], {p})
  BY <1>0, <1>1, <1>3, RestoredIsOfOrigin, OfPlaceFacts
<1>5. \A r \in Bin!Slots : ~Due(c, r) /\ ~PutOf(c, r)
  BY <1>0 DEF Due, PutOf
<1>6. trashCall'[c].op = trashCall[c].op /\ trashCall'[c].todo = trashCall[c].todo
  BY <1>0, <1>2, SameItem
<1>7. PutTrue(c)' /\ RestoreTrue(c)' /\ \A r \in Bin!Slots : ~PutOf(c, r)'
  BY <1>0, <1>2, <1>6, SameFilesShrink, RestoreSameTrue
<1>8. ThingsAtHome'
  <2>1. places'[p] = files[s] /\ \A r \in Places : r # p => places'[r] = places[r]
    BY <1>0, <1>3, <1>4 DEF DataOK
  <2>2. OfPlace(places[p], {p})'
    BY <1>2, <1>4, <2>1 DEF OfPlace
  <2> QED
    BY <1>2, <1>4, <2>1, <2>2, HomeAfter DEF NotesAt
<1>9. \A r \in Bin!Slots : OfPlace(files[r], info[r])'
  BY <1>2, <1>5 DEF NotesAt, OfPlace
<1> QED
  BY <1>2, <1>5, <1>7, <1>8, <1>9 DEF NotesAt

\* Places that stay hold what was made there.
LEMMA HomeStays == ASSUME ThingsAtHome, UNCHANGED <<places, madeAt>> PROVE ThingsAtHome'
BY DEF ThingsAtHome, OfPlace

\* The file in the trash goes before its note.
LEMMA DroppedNotes ==
  ASSUME TrashInv, NEW c \in Callers, NotesAt(c), CallStep(c), Bin!Dropped(c)
  PROVE  NotesAt(c)'
<1>0. DataOK /\ trashCall[c].op \in {"restore", "remove"} /\ trashCall[c].step = "drop"
  BY InvHasData, DropsOnly DEF Bin!Dropped
<1> DEFINE s == Bin!Cur(c).slot
<1>1. s \in Bin!Slots
  BY <1>0, Busy
<1>2. UNCHANGED <<places, info, madeAt, faults>> /\ Bin!GoTo(c, "meta")
      /\ files' = [files EXCEPT ![s] = {}]
  BY DEF Bin!Dropped
<1>3. \A r \in Bin!Slots : ~Due(c, r) /\ ~PutOf(c, r)
  BY <1>0 DEF Due, PutOf
<1>4. /\ trashCall'[c].op = trashCall[c].op /\ trashCall'[c].step = "meta"
      /\ trashCall'[c].todo = trashCall[c].todo /\ Bin!Cur(c)' = Bin!Cur(c)
  BY <1>0, <1>2, SameItem
<1>5. files'[s] = {} /\ \A r \in Bin!Slots : r # s => files'[r] = files[r]
  BY <1>0, <1>1, <1>2 DEF DataOK
<1>6. FilesShrink
  BY <1>5 DEF FilesShrink, ComesOf
<1>7. PutTrue(c)' /\ RestoreTrue(c)' /\ \A r \in Bin!Slots : ~PutOf(c, r)'
  BY <1>0, <1>2, <1>4, <1>6, RestoreSameTrue
<1>8. \A r \in Bin!Slots : Due(c, r)' <=> r = s
  BY <1>0, <1>4 DEF Due
<1>9. \A r \in Bin!Slots : OfPlace(files[r], info[r])'
  BY <1>2, <1>3, <1>5 DEF NotesAt, OfPlace
<1>10. ThingsAtHome'
  BY <1>2, HomeStays DEF NotesAt
<1> QED
  BY <1>2, <1>3, <1>5, <1>7, <1>8, <1>9, <1>10 DEF NotesAt

\* The note goes last.
LEMMA RemoveMetaNotes ==
  ASSUME TrashInv, NEW c \in Callers, NotesAt(c), CallStep(c), Bin!RemoveMeta(c)
  PROVE  NotesAt(c)'
<1>0. DataOK /\ trashCall[c].op \in {"restore", "remove"} /\ trashCall[c].step = "meta"
  BY InvHasData, MetaOnly DEF Bin!RemoveMeta
<1> DEFINE s == Bin!Cur(c).slot
<1>1. s \in Bin!Slots
  BY <1>0, Busy
<1>2. UNCHANGED <<places, files, madeAt, faults>> /\ info' = [info EXCEPT ![s] = {}]
      /\ Bin!Advance(c, IF trashCall[c].op = "restore" THEN "check" ELSE "drop")
  BY DEF Bin!RemoveMeta
<1>3. \A r \in Bin!Slots : (Due(c, r) => r = s) /\ ~PutOf(c, r)
  BY <1>0 DEF Due, PutOf
<1>4. PutTrue(c)' /\ RestoreTrue(c)' /\ \A r \in Bin!Slots : ~PutOf(c, r)'
  <2>1. CASE trashCall[c].op = "restore"
    <3>1. Bin!Advance(c, "check")
      BY <1>2, <2>1
    <3> QED
      BY <1>2, <2>1, <3>1, SameFilesShrink, RestoreNextTrue
  <2>2. CASE trashCall[c].op = "remove"
    <3>1. Bin!Advance(c, "drop")
      BY <1>2, <2>2
    <3>2. trashCall'[c] = Bin!Idle \/ trashCall'[c].op = "remove"
      BY <2>2, <3>1, NextItem
    <3> QED
      BY <3>2, IdleFrame, PlainNotes
  <2> QED
    BY <1>0, <2>1, <2>2
<1>5. info'[s] = {} /\ \A r \in Bin!Slots : r # s => info'[r] = info[r]
  BY <1>0, <1>1, <1>2 DEF DataOK
<1>6. \A r \in Bin!Slots : OfPlace(files[r], info[r])'
  BY <1>2, <1>3, <1>5 DEF NotesAt, OfPlace
<1>7. ThingsAtHome'
  BY <1>2, HomeStays DEF NotesAt
<1> QED
  BY <1>2, <1>3, <1>4, <1>5, <1>6, <1>7 DEF NotesAt

\* A restore fails.
LEMMA RestoreFailsNotes ==
  ASSUME MaxFaults <= 1, TrashInv, NEW c \in Callers, NotesAt(c), CallStep(c), Bin!RestoreFails(c)
  PROVE  NotesAt(c)'
<1>0. DataOK /\ trashCall[c].op = "restore" /\ Bin!Advance(c, "check")
      /\ faults < MaxFaults /\ faults' = faults + 1 /\ UNCHANGED <<places, files, info, madeAt>>
  BY InvHasData DEF Bin!RestoreFails
<1>1. faults' # 0
  BY <1>0, FirstFault
<1>2. PutTrue(c)' /\ RestoreTrue(c)' /\ \A r \in Bin!Slots : ~PutOf(c, r)'
  BY <1>0, SameFilesShrink, RestoreNextTrue
<1>3. \A r \in Bin!Slots : ~PutOf(c, r)
  BY <1>0 DEF PutOf
<1> QED
  BY <1>0, <1>1, <1>2, <1>3, NotesOnlyCalls

\* A removal fails.
LEMMA RemoveFailsNotes ==
  ASSUME MaxFaults <= 1, TrashInv, NEW c \in Callers, NotesAt(c), CallStep(c), Bin!RemoveFails(c)
  PROVE  NotesAt(c)'
<1>0. DataOK /\ trashCall[c].op = "remove" /\ (Bin!GoTo(c, "meta") \/ Bin!Advance(c, "drop"))
      /\ faults < MaxFaults /\ faults' = faults + 1 /\ UNCHANGED <<places, files, info, madeAt>>
  BY InvHasData DEF Bin!RemoveFails
<1>1. faults' # 0
  BY <1>0, FirstFault
<1>2. trashCall'[c] = Bin!Idle \/ trashCall'[c].op = "remove"
  <2>1. CASE Bin!GoTo(c, "meta")
    BY <1>0, <2>1, SameItem
  <2>2. CASE Bin!Advance(c, "drop")
    BY <1>0, <2>2, NextItem
  <2> QED
    BY <1>0, <2>1, <2>2
<1>3. PutTrue(c)' /\ RestoreTrue(c)' /\ \A r \in Bin!Slots : ~PutOf(c, r)'
  BY <1>2, IdleFrame, PlainNotes
<1>4. \A r \in Bin!Slots : ~PutOf(c, r)
  BY <1>0 DEF PutOf
<1> QED
  BY <1>0, <1>1, <1>3, <1>4, NotesOnlyCalls

\* A step of an emptying.
LEMMA EmptyNotes ==
  ASSUME NEW c \in Callers, NotesAt(c), trashCall[c].op = "empty", FilesShrink,
         UNCHANGED <<places, madeAt>>,
         \A s \in Bin!Slots : info'[s] \in {info[s], {}},
         trashCall'[c].op \in {"none", "empty"},
         faults' = 0 => trashCall'[c].op = "empty" \/ \A s \in Bin!Slots : info'[s] = {}
  PROVE  NotesAt(c)'
<1>1. PutTrue(c)' /\ RestoreTrue(c)' /\ \A s \in Bin!Slots : ~PutOf(c, s)'
  BY PlainNotes
<1>2. ASSUME NEW s \in Bin!Slots PROVE OfPlace(files[s], info[s])'
  <2>1. OfPlace(files[s], info[s])
    BY DEF NotesAt, PutOf
  <2>2. PICK o : o = info'[s] /\ OfPlace(files[s], o)
    BY <2>1, OfPlaceFacts
  <2>3. OfPlace(files[s], o)'
    BY <2>2, FilesKeepPlace
  <2> QED
    BY <2>2, <2>3
<1>3. faults' = 0 => \A s \in Bin!Slots : info'[s] # {} => Due(c, s)'
  BY DEF Due
<1>4. ThingsAtHome'
  BY HomeStays DEF NotesAt
<1> QED
  BY <1>1, <1>2, <1>3, <1>4 DEF NotesAt

\* Emptying removes the files, then the notes, or fails.
LEMMA EmptyStepsNotes ==
  ASSUME MaxFaults <= 1, TrashInv, NEW c \in Callers, NotesAt(c), CallStep(c),
         Bin!EmptyFiles(c) \/ Bin!EmptyInfos(c) \/ Bin!EmptyFails(c)
  PROVE  NotesAt(c)'
<1>0. trashCall[c].op = "empty"
  BY DEF Bin!EmptyFiles, Bin!EmptyInfos, Bin!EmptyFails, Bin!At
<1>1. /\ Alone(c) /\ TrashTypes /\ DataOK /\ trashCall[c] \in Frames
  BY <1>0, EmptyIsAlone
<1>2. CASE Bin!EmptyFiles(c)
  <2>1. UNCHANGED <<places, info, madeAt, faults>> /\ files' = [s \in Bin!Slots |-> {}]
        /\ trashCall' = [trashCall EXCEPT ![c].step = "infos"]
    BY <1>2 DEF Bin!EmptyFiles, Bin!GoTo
  <2>2. trashCall'[c].op = "empty"
    BY <1>0, <1>1, <2>1 DEF TrashTypes, Frames
  <2>3. FilesShrink
    BY <2>1 DEF FilesShrink, ComesOf
  <2> QED
    BY <1>0, <2>1, <2>2, <2>3, EmptyNotes
<1>3. CASE Bin!EmptyInfos(c)
  <2>1. UNCHANGED <<places, files, madeAt, faults>> /\ info' = [s \in Bin!Slots |-> {}]
        /\ Bin!GiveUp(c)
    BY <1>3 DEF Bin!EmptyInfos
  <2>2. trashCall'[c].op = "none"
    BY <1>1, <2>1, GivesUp, IdleFrame
  <2> QED
    BY <1>0, <2>1, <2>2, SameFilesShrink, EmptyNotes
<1>4. CASE Bin!EmptyFails(c)
  <2>1. UNCHANGED <<places, files, info, madeAt>> /\ faults < MaxFaults /\ faults' = faults + 1
        /\ Bin!GiveUp(c)
    BY <1>4 DEF Bin!EmptyFails
  <2>2. trashCall'[c].op = "none"
    BY <1>1, <2>1, GivesUp, IdleFrame
  <2>3. faults' # 0
    BY <1>1, <2>1, FirstFault
  <2> QED
    BY <1>0, <2>1, <2>2, <2>3, SameFilesShrink, EmptyNotes
<1> QED
  BY <1>2, <1>3, <1>4

\* A step has gone part of the way.
LEMMA PartlyNotes ==
  ASSUME TrashInv, NEW c \in Callers, NotesAt(c), CallStep(c), Bin!Partly(c)
  PROVE  NotesAt(c)'
<1>0. DataOK /\ UNCHANGED <<trashCall, madeAt, faults>>
  BY InvHasData DEF Bin!Partly
<1>1. CASE /\ Bin!At(c, "put", "delete")
           /\ \E p \in Bin!Cur(c).origin : places' = [places EXCEPT ![p] = Bin!Torn(@)]
           /\ UNCHANGED <<files, info>>
  <2>1. PICK p \in Bin!Cur(c).origin : places' = [places EXCEPT ![p] = Bin!Torn(places[p])]
    BY <1>1
  <2>2. p \in Places /\ trashCall[c].op = "put" /\ trashCall[c].step = "delete"
    BY <1>1, Busy DEF Bin!At
  <2>3. places'[p] = Bin!Torn(places[p]) /\ \A r \in Places : r # p => places'[r] = places[r]
    BY <1>0, <2>1, <2>2 DEF DataOK
  <2>4. ComesOf(Bin!Torn(places[p]), places[p]) /\ OfPlace(places[p], {p})
    BY <1>0, <2>2, MadeSets, TornComesOf, AtHome DEF NotesAt
  <2>5. OfPlace(places[p], {p})'
    BY <1>0, <2>3, <2>4 DEF OfPlace, ComesOf
  <2>6. ThingsAtHome'
    BY <1>0, <2>2, <2>3, <2>5, HomeAfter DEF NotesAt
  <2>7. Bin!Cur(c)' = Bin!Cur(c)
    BY <1>0 DEF Bin!Cur
  <2>8. PutTrue(c)' /\ RestoreTrue(c)'
    BY <1>0, <1>1, <2>2, <2>7 DEF NotesAt, PutTrue, RestoreTrue, Bin!At, OfPlace
  <2>9. \A s \in Bin!Slots : (PutOf(c, s)' <=> PutOf(c, s)) /\ (Due(c, s)' <=> Due(c, s))
    BY <1>0, <2>7 DEF PutOf, Due
  <2>10. \A s \in Bin!Slots : (PutOf(c, s) \/ OfPlace(files[s], info[s]))'
    BY <1>0, <1>1, <2>9 DEF NotesAt, OfPlace
  <2> QED
    BY <1>0, <1>1, <2>6, <2>8, <2>9, <2>10 DEF NotesAt
<1>2. CASE /\ trashCall[c].step = "drop"
           /\ files' = [files EXCEPT ![Bin!Cur(c).slot] = Bin!Torn(@)]
           /\ UNCHANGED <<places, info>>
  <2> DEFINE s == Bin!Cur(c).slot
  <2>1. trashCall[c].op \in {"restore", "remove"} /\ s \in Bin!Slots
    BY <1>2, DropsOnly, Busy
  <2>2. files'[s] = Bin!Torn(files[s]) /\ \A r \in Bin!Slots : r # s => files'[r] = files[r]
    BY <1>0, <1>2, <2>1 DEF DataOK
  <2>3. ComesOf(Bin!Torn(files[s]), files[s]) /\ (Bin!Torn(files[s]) = {} <=> files[s] = {})
    BY <1>0, <2>1, MadeSets, TornComesOf
  <2>4. FilesShrink
    BY <2>2, <2>3 DEF FilesShrink, ComesOf
  <2>5. PutTrue(c)' /\ RestoreTrue(c)' /\ \A r \in Bin!Slots : ~PutOf(c, r)'
    BY <1>0, <2>1, <2>4, RestoreSameTrue
  <2>6. \A r \in Bin!Slots : ~PutOf(c, r) /\ ~Due(c, r)
    BY <1>2, <2>1 DEF PutOf, Due
  <2>7. ASSUME NEW r \in Bin!Slots PROVE OfPlace(files[r], info[r])'
    <3>1. PICK o : o = info[r] /\ OfPlace(files[r], o)
      BY <2>6 DEF NotesAt
    <3>2. OfPlace(files[r], o)'
      BY <1>0, <2>4, <3>1, FilesKeepPlace
    <3> QED
      BY <1>2, <3>1, <3>2
  <2>8. \A r \in Bin!Slots : files'[r] = {} => files[r] = {}
    BY <2>2, <2>3
  <2>9. ThingsAtHome'
    BY <1>0, <1>2, HomeStays DEF NotesAt
  <2> QED
    BY <1>0, <1>2, <2>5, <2>6, <2>7, <2>8, <2>9 DEF NotesAt
<1>3. CASE /\ trashCall[c].op = "empty" /\ UNCHANGED places
           /\ \/ \E s \in Bin!Slots : files' = [files EXCEPT ![s] = {}] /\ UNCHANGED info
              \/ \E s \in Bin!Slots : info' = [info EXCEPT ![s] = {}] /\ UNCHANGED files
  <2>1. \A s \in Bin!Slots : files'[s] \in {files[s], {}} /\ info'[s] \in {info[s], {}}
    BY <1>0, <1>3 DEF DataOK
  <2>2. FilesShrink
    BY <2>1 DEF FilesShrink, ComesOf
  <2> QED
    BY <1>0, <1>3, <2>1, <2>2, EmptyNotes
<1> QED
  BY <1>1, <1>2, <1>3 DEF Bin!Partly, Bin!At

\* The application dies: the notes it leaves stray are of the one fault there is.
LEMMA CrashNotes ==
  ASSUME MaxFaults <= 1, NotesInv, Bin!Crash PROVE NotesInv'
<1>0. DataOK /\ TrashInv /\ TrashInv' /\ OneCall
  BY InvHasData, CrashStep DEF NotesInv
<1>1. /\ UNCHANGED <<places, files, info, madeAt>>
      /\ trashCall' = [c \in Callers |-> Bin!Idle] /\ faults < MaxFaults /\ faults' = faults + 1
  BY DEF Bin!Crash
<1>2. PICK c \in Callers : trashCall[c] # Bin!Idle
  BY DEF Bin!Crash
<1>3. faults = 0 /\ faults' # 0
  BY <1>0, <1>1, FirstFault
<1>4. Alone(c) /\ NotesAt(c)
  BY <1>0, <1>2, NotesFor DEF OneCall
<1>5. trashCall'[c] = Bin!Idle /\ CallStep(c)
  BY <1>1, IdleFrame DEF CallStep, OneCall, Alone
<1>6. PutTrue(c)' /\ RestoreTrue(c)'
  BY <1>5, IdleFrame, PlainNotes
<1>7. \A s \in Bin!Slots : OfPlace(files[s], info[s])
  BY <1>3, <1>4, OfPlaceFacts DEF NotesAt
<1>8. \A s \in Bin!Slots : OfPlace(files[s], info[s])'
  BY <1>1, <1>7 DEF OfPlace
<1>9. ThingsAtHome'
  BY <1>1, HomeStays DEF NotesInv
<1>10. NotesAt(c)'
  BY <1>3, <1>6, <1>8, <1>9 DEF NotesAt
<1> QED
  BY <1>0, <1>5, <1>10, NotesBack

\* A file is made.
LEMMA MakeNotes ==
  ASSUME NotesInv, NEW p \in Places, Bin!Make(p) PROVE NotesInv'
<1>0. DataOK /\ TrashInv'
  BY InvHasData, MakeStep DEF NotesInv
<1>1. /\ UNCHANGED <<files, info, trashCall, faults>> /\ madeAt' = Append(madeAt, p)
      /\ places' = [places EXCEPT ![p] = {[file |-> Len(madeAt'), whole |-> TRUE]}]
      /\ \A c \in Callers : trashCall[c] = Bin!Idle
  BY DEF Bin!Make, Bin!Quiet
<1>2. /\ Len(madeAt) \in Nat /\ Len(madeAt') = Len(madeAt) + 1 /\ madeAt'[Len(madeAt')] = p
      /\ \A k \in 1 .. Len(madeAt) : madeAt'[k] = madeAt[k]
  BY <1>0, <1>1 DEF DataOK
<1>3. \A t \in Bin!Content : t.file <= Len(madeAt) => t.file \in 1 .. Len(madeAt)
  BY <1>2, BinAssumption DEF Bin!Content
<1>4. ASSUME NEW X, Made(X), NEW o, OfPlace(X, o)
      PROVE  \A t \in X : o \subseteq {madeAt'[t.file]}
  BY <1>2, <1>3, <1>4 DEF Made, OfPlace
<1>5. \A c \in Callers : PutTrue(c)' /\ RestoreTrue(c)' /\ \A s \in Bin!Slots : ~PutOf(c, s) /\ ~Due(c, s)
  BY <1>1, IdleFrame DEF PutTrue, RestoreTrue, PutOf, Due, Bin!At
<1>6. ASSUME NEW s \in Bin!Slots PROVE OfPlace(files[s], info[s])'
  <2>1. Made(files[s]) /\ OfPlace(files[s], info[s])
    BY <1>0, <1>5, MadeSets DEF NotesInv, NotesSay
  <2> QED
    BY <1>1, <1>4, <2>1 DEF OfPlace
<1>7. ASSUME NEW r \in Places PROVE OfPlace(places[r], {r})'
  <2>1. CASE r = p
    <3>1. places'[r] = {[file |-> Len(madeAt'), whole |-> TRUE]}
      BY <1>0, <1>1, <2>1 DEF DataOK
    <3> QED
      BY <1>2, <2>1, <3>1 DEF OfPlace
  <2>2. CASE r # p
    <3>1. places'[r] = places[r]
      BY <1>0, <1>1, <2>2 DEF DataOK
    <3>2. Made(places[r]) /\ OfPlace(places[r], {r})
      BY <1>0, MadeSets DEF NotesInv, ThingsAtHome
    <3> QED
      BY <1>4, <3>1, <3>2 DEF OfPlace
  <2> QED
    BY <2>1, <2>2
<1>8. faults' = 0 => NoStrayNotes'
  <2>1. faults = 0 => \A s \in Bin!Slots : files[s] = {} => info[s] = {}
    BY <1>5 DEF NotesInv, NoStrayNotes
  <2>2. \A c \in Callers : \A s \in Bin!Slots : ~PutOf(c, s)'
    BY <1>1, IdleFrame DEF PutOf
  <2> QED
    BY <1>1, <2>1, <2>2 DEF NoStrayNotes
<1> QED
  BY <1>0, <1>5, <1>6, <1>7, <1>8 DEF NotesInv, ThingsAtHome, NotesSay

\* The initial states satisfy NotesInv.
LEMMA InitNotesInv == Bin!Init => NotesInv
<1> SUFFICES ASSUME Bin!Init PROVE NotesInv
  OBVIOUS
<1>1. /\ places = [p \in Places |-> {}] /\ files = [s \in Bin!Slots |-> {}]
      /\ info = [s \in Bin!Slots |-> {}] /\ trashCall = [c \in Callers |-> Bin!Idle]
  BY DEF Bin!Init
<1>2. \A c \in Callers : PutTrue(c) /\ RestoreTrue(c) /\ \A s \in Bin!Slots : ~PutOf(c, s)
  BY <1>1, IdleFrame DEF PutTrue, RestoreTrue, PutOf, Bin!At
<1>3. ThingsAtHome /\ NotesSay /\ NoStrayNotes
  BY <1>1, <1>2 DEF ThingsAtHome, NotesSay, NoStrayNotes, OfPlace
<1> QED
  BY <1>2, <1>3, InitTrashInv DEF NotesInv

\* Who takes a step is the only one.
LEMMA StepsAlone ==
  ASSUME TrashInv, NEW c \in Callers, Bin!Step(c)
  PROVE  Alone(c)
<1>1. CASE trashCall[c].op # "none"
  BY <1>1, BusyIsAlone DEF TrashInv
<1>2. CASE trashCall[c].op = "none"
  <2>1. trashCall[c].step = "idle"
    BY <1>2 DEF TrashInv, Sound, FrameShape
  <2>2. Bin!Put(c) \/ Bin!Restore(c) \/ Bin!RestoreOrigins(c) \/ Bin!Remove(c) \/ Bin!Empty(c)
    BY <1>2, <2>1 DEF Bin!Step, Bin!At, Bin!PutName, Bin!PutMove, Bin!PutCopied, Bin!PutDeleted,
       Bin!WriteTrashInfo, Bin!PutFails, Bin!RestoreCheck, Bin!RestoreMove, Bin!RestoreCopied,
       Bin!Dropped, Bin!RemoveMeta, Bin!RestoreFails, Bin!RemoveFails, Bin!EmptyFiles,
       Bin!EmptyInfos, Bin!EmptyFails, Bin!Partly
  <2>3. Bin!Quiet
    BY <2>2 DEF Bin!Put, Bin!Restore, Bin!RestoreOrigins, Bin!Remove, Bin!Empty, Bin!Begin
  <2> QED
    BY <2>3 DEF Bin!Quiet, Alone
<1> QED
  BY <1>1, <1>2

\* Every step of the trash keeps NotesInv, while at most one thing goes wrong.
LEMMA StepNotesInv == ASSUME MaxFaults <= 1, NotesInv, [Bin!Next]_ofBin PROVE NotesInv'
<1>0. TrashInv
  BY DEF NotesInv
<1>1. ASSUME NEW c \in Callers, Bin!Step(c) PROVE NotesInv'
  <2>1. TrashInv' /\ CallStep(c)
    BY <1>0, <1>1, PutStep, PutNameStep, PutMoveStep, PutCopiedStep, PutDeletedStep,
       WriteTrashInfoStep, PutFailsStep, RestoreStep, RestoreOriginsStep, RestoreCheckStep,
       RestoreMoveStep, RestoreCopiedStep, DroppedStep, RemoveMetaStep, RestoreFailsStep,
       RemoveStep, RemoveFailsStep, EmptyStep, EmptyFilesStep, EmptyInfosStep, EmptyFailsStep,
       PartlyStep DEF Bin!Step
  <2>2. NotesAt(c)
    BY <1>0, <1>1, StepsAlone, NotesFor
  <2>3. NotesAt(c)'
    BY <1>0, <1>1, <2>1, <2>2, PutNotes, PutNameNotes, PutMoveNotes, PutCopiedNotes,
       PutDeletedNotes, WriteTrashInfoNotes, PutFailsNotes, RestoreNotes, RestoreOriginsNotes,
       RestoreCheckNotes, RestoreMoveNotes, RestoreCopiedNotes, DroppedNotes, RemoveMetaNotes,
       RestoreFailsNotes, RemoveNotes, RemoveFailsNotes, EmptyStepsNotes, PartlyNotes
       DEF Bin!Step
  <2> QED
    BY <2>1, <2>3, NotesBack
<1>2. ASSUME UNCHANGED ofBin PROVE NotesInv'
  <2>1. UNCHANGED <<places, files, info, trashCall, madeAt, purged, broken, undo, faults>>
    BY <1>2 DEF ofBin
  <2>2. TrashInv'
    BY <1>0, <1>2, StepTrashInv
  <2>3. \A c \in Callers : PutTrue(c)' /\ RestoreTrue(c)'
    BY <2>1 DEF NotesInv, PutTrue, RestoreTrue, Bin!At, Bin!Cur, OfPlace
  <2>4. \A c \in Callers : \A s \in Bin!Slots : (PutOf(c, s)' <=> PutOf(c, s)) /\ (Due(c, s)' <=> Due(c, s))
    BY <2>1 DEF PutOf, Due, Bin!Cur
  <2>5. ThingsAtHome' /\ NotesSay' /\ (faults' = 0 => NoStrayNotes')
    BY <2>1, <2>4 DEF NotesInv, ThingsAtHome, NotesSay, NoStrayNotes, OfPlace
  <2> QED
    BY <2>2, <2>3, <2>5 DEF NotesInv
<1> QED
  BY <1>1, <1>2, CrashNotes, MakeNotes DEF Bin!Next

\* NotesInv is enough.
LEMMA NotesInvSays == NotesInv => TrashKeepsWhatItTook
<1> SUFFICES ASSUME NotesInv PROVE Bin!NotesAreTrue
  BY DEF NotesInv, TrashInv, TrashKeepsWhatItTook
<1>1. \A p \in Places : \A t \in places[p] : madeAt[t.file] = p
  BY DEF NotesInv, ThingsAtHome, OfPlace
<1>2. \A s \in Bin!Slots : \A t \in files[s] :
       \/ info[s] \subseteq {madeAt[t.file]}
       \/ \E c \in Callers : trashCall[c].op = "put" /\ Bin!Cur(c).slot = s
  BY DEF NotesInv, NotesSay, OfPlace, PutOf
<1> QED
  BY <1>1, <1>2 DEF Bin!NotesAreTrue

\* A step of the tools is a step of the trash, or leaves it alone.
LEMMA TrashSteps == [ToolsNext]_toolsVars => [Bin!Next]_ofBin
BY DEF ToolsNext, toolsVars, ofBin

\* What every step of the trash keeps holds in every behaviour of the tools.
LEMMA TrashAlways == ToolsSpec => []TrashInv
<1>1. ToolsInit => TrashInv
  BY InitTrashInv DEF ToolsInit
<1>2. TrashInv /\ [ToolsNext]_toolsVars => TrashInv'
  BY TrashSteps, StepTrashInv
<1> QED
  BY <1>1, <1>2, PTL DEF ToolsSpec

\* In every behaviour of the trash, however many steps fail or die, a file that
\* was deleted, restored or undone and not removed for good is whole in the trash
\* or at a place (trash_xdg.go:38, trash.go:404, CopyThenRemove).
THEOREM TrashLosesNothing == ToolsSpec => []Bin!NothingTrashedIsLost
<1>1. TrashInv => Bin!NothingTrashedIsLost
  BY DEF TrashInv
<1> QED
  BY <1>1, TrashAlways, PTL

\* And its note names no place but the one it was taken from, so that a restore
\* brings it back there, as long as at most one step fails or dies: uniqueTrashName
\* (trash_xdg.go:53) looks at files/ alone, so a second fault can leave a file
\* beside the note a first one left behind.
THEOREM TrashKept == ASSUME MaxFaults <= 1 PROVE ToolsSpec => []TrashKeepsWhatItTook
<1>1. ToolsInit => NotesInv
  BY InitNotesInv DEF ToolsInit
<1>2. NotesInv /\ [ToolsNext]_toolsVars => NotesInv'
  BY TrashSteps, StepNotesInv
<1> QED
  BY <1>1, <1>2, NotesInvSays, PTL DEF ToolsSpec

-----------------------------------------------------------------------------
\* The calls that will spawn a shell, or have.
Spawning(c) == c.op \in {"spawn", "spawned"}
\* A call of the terminal, by its fields.
IsShellCall(c) == c = [op |-> c.op, view |-> c.view, cwd |-> c.cwd, seq |-> c.seq, shell |-> c.shell]
\* A read loop, by its fields.
IsLoop(l) == l = [op |-> l.op, shell |-> l.shell]

\* A Start spawns for a number of its own, and while it is the last one the pane has no shell;
\* a read loop that is done is of a shell that has ended.
SeqsDiffer == \A c, d \in shellCalls : Spawning(c) /\ Spawning(d) /\ c.seq = d.seq => c = d
\* A Start that was counted last finds the pane without a shell.
LastHasNone ==
  \A c \in shellCalls : Spawning(c) => /\ c.seq \in Nat /\ c.seq <= startSeq
                                       /\ (c.seq = startSeq => session = {})
\* What every step of the terminal keeps.
ShellsInv ==
  /\ startSeq \in Nat /\ dirs \in Seq(Folders)
  /\ folder \in Folders
  /\ \A c \in shellCalls : IsShellCall(c) /\ c.cwd \in Folders
  /\ \A l \in loops : IsLoop(l) /\ (l.op = "exit" => l.shell \in ended)
  /\ SeqsDiffer /\ LastHasNone
  /\ Shells!NoShellIsLost

\* A step of the tools is a step of the terminal, or leaves it alone.
LEMMA ShellsSteps == [ToolsNext]_toolsVars => [Shells!Next]_ofShells
BY DEF ToolsNext, toolsVars, ofShells, ofBin, ofFinder, ofMap, ofSearch, ofTexts, ofPrompts, Shells!vars, Shells!window, Shells!shells

\* The initial states satisfy ShellsInv.
LEMMA ShellsStart == ToolsInit => ShellsInv
<1> SUFFICES ASSUME ToolsInit PROVE ShellsInv
  OBVIOUS
<1>1. /\ folder \in Folders /\ shellCalls = {} /\ session = {} /\ startSeq = 0 /\ dirs = <<>>
      /\ ended = {} /\ loops = {}
  BY DEF ToolsInit, Shells!Init
<1>2. DOMAIN dirs = {}
  BY <1>1
<1> QED
  BY <1>1, <1>2 DEF ShellsInv, SeqsDiffer, LastHasNone, Shells!NoShellIsLost

\* The view: its calls spawn nothing.
LEMMA ShellsOfTheView ==
  ASSUME ShellsInv,
         \/ Shells!ShowTerminal \/ Shells!HideTerminal \/ Shells!ExitTold
         \/ \E f \in Folders : Shells!FolderChanges(f)
         \/ \E c \in shellCalls : Shells!Answered(c)
  PROVE ShellsInv'
<1>1. /\ \A c \in shellCalls' : c \in shellCalls \/ (IsShellCall(c) /\ c.cwd \in Folders /\ ~Spawning(c))
      /\ \A c \in shellCalls : c.op = "spawned" => c \in shellCalls'
  <2>1. CASE Shells!ShowTerminal
    BY <2>1 DEF Shells!ShowTerminal, Shells!Call, IsShellCall, Spawning, ShellsInv
  <2>2. CASE Shells!HideTerminal
    BY <2>2 DEF Shells!HideTerminal, Shells!Call, IsShellCall, Spawning, ShellsInv
  <2>3. CASE Shells!ExitTold
    BY <2>3 DEF Shells!ExitTold
  <2>4. ASSUME NEW f \in Folders, Shells!FolderChanges(f) PROVE <1>1
    <3>1. PICK d : d = Shells!Call("setCwd", view, f)
      OBVIOUS
    <3>2. IsShellCall(d) /\ d.cwd \in Folders /\ ~Spawning(d)
      BY <3>1 DEF Shells!Call, IsShellCall, Spawning
    <3>3. shellCalls' = shellCalls \cup {d} \/ shellCalls' = shellCalls
      BY <2>4, <3>1 DEF Shells!FolderChanges
    <3> QED
      BY <3>2, <3>3
  <2>5. CASE \E c \in shellCalls : Shells!Answered(c)
    BY <2>5 DEF Shells!Answered
  <2> QED
    BY <2>1, <2>2, <2>3, <2>4, <2>5
<1>2. /\ UNCHANGED <<session, startSeq, dirs, ended, loops>>
      /\ folder' \in Folders
  BY DEF Shells!ShowTerminal, Shells!HideTerminal, Shells!ExitTold, Shells!FolderChanges,
         Shells!Answered, Shells!shells, Shells!window, ShellsInv
<1>3. SeqsDiffer' /\ LastHasNone'
  BY <1>1, <1>2 DEF ShellsInv, SeqsDiffer, LastHasNone, Spawning
<1>4. Shells!NoShellIsLost'
  BY <1>1, <1>2 DEF ShellsInv, Shells!NoShellIsLost
<1>5. \A c \in shellCalls' : IsShellCall(c) /\ c.cwd \in Folders
  BY <1>1 DEF ShellsInv
<1> QED
  BY <1>2, <1>3, <1>4, <1>5 DEF ShellsInv

\* A Start that finds no shell is the last one from now on.
LEMMA ShellsOfStart ==
  ASSUME ShellsInv, NEW c \in shellCalls, Shells!Start(c) PROVE ShellsInv'
<1>1. UNCHANGED <<folder, session, dirs, ended, loops>>
  BY DEF Shells!Start, Shells!shells
<1>2. c.op = "start" /\ IsShellCall(c) /\ c.cwd \in Folders /\ startSeq \in Nat
  BY DEF Shells!Start, ShellsInv
<1>3. CASE session # {}
  <2>1. PICK d : d = [c EXCEPT !.op = "cd"] /\ shellCalls' = (shellCalls \ {c}) \cup {d}
    BY <1>3 DEF Shells!Start, Shells!Becomes
  <2>2. IsShellCall(d) /\ d.op = "cd" /\ d.cwd = c.cwd
    BY <1>2, <2>1 DEF IsShellCall
  <2>3. startSeq' = startSeq
    BY <1>3 DEF Shells!Start
  <2>4. SeqsDiffer' /\ LastHasNone'
    BY <1>1, <2>1, <2>2, <2>3 DEF ShellsInv, SeqsDiffer, LastHasNone, Spawning
  <2>5. Shells!NoShellIsLost'
    BY <1>1, <1>2, <2>1 DEF ShellsInv, Shells!NoShellIsLost
  <2> QED
    BY <1>1, <1>2, <2>1, <2>2, <2>3, <2>4, <2>5 DEF ShellsInv
<1>4. CASE session = {}
  <2>1. PICK d : d = [c EXCEPT !.op = "spawn", !.seq = startSeq + 1]
                 /\ shellCalls' = (shellCalls \ {c}) \cup {d}
    BY <1>4 DEF Shells!Start, Shells!Becomes
  <2>2. IsShellCall(d) /\ d.op = "spawn" /\ d.cwd = c.cwd /\ d.seq = startSeq + 1
    BY <1>2, <2>1 DEF IsShellCall
  <2>3. startSeq' = startSeq + 1
    BY <1>4 DEF Shells!Start
  <2>4. \A e \in shellCalls : Spawning(e) => e.seq \in Nat /\ e.seq <= startSeq
    BY DEF ShellsInv, LastHasNone
  <2>10. \A e \in shellCalls : Spawning(e) => e.seq # d.seq
    BY <1>2, <2>2, <2>4
  <2>5. SeqsDiffer'
    BY <2>1, <2>10 DEF ShellsInv, SeqsDiffer
  <2>6. LastHasNone'
    <3>1. d.seq \in Nat /\ d.seq <= startSeq'
      BY <1>2, <2>2, <2>3
    <3>2. \A e \in shellCalls : Spawning(e) => e.seq \in Nat /\ e.seq <= startSeq'
      BY <1>2, <2>3, <2>4
    <3> QED
      BY <1>1, <1>4, <2>1, <3>1, <3>2 DEF LastHasNone
  <2>7. Shells!NoShellIsLost'
    BY <1>1, <1>2, <2>1 DEF ShellsInv, Shells!NoShellIsLost
  <2>8. startSeq' \in Nat
    BY <1>2, <2>3
  <2>9. \A e \in shellCalls' : IsShellCall(e) /\ e.cwd \in Folders
    BY <1>2, <2>1, <2>2 DEF ShellsInv
  <2> QED
    BY <1>1, <2>5, <2>6, <2>7, <2>8, <2>9 DEF ShellsInv
<1> QED
  BY <1>3, <1>4

\* A shell that was spawned is that of its call.
LEMMA ShellsOfSpawned ==
  ASSUME ShellsInv, NEW c \in shellCalls, Shells!Spawned(c) PROVE ShellsInv'
<1>1. UNCHANGED <<folder, session, startSeq, ended, loops>>
  BY DEF Shells!Spawned
<1>2. c.op = "spawn" /\ IsShellCall(c) /\ c.cwd \in Folders /\ dirs \in Seq(Folders)
  BY DEF Shells!Spawned, ShellsInv
<1>3. /\ dirs' = Append(dirs, c.cwd) /\ dirs' \in Seq(Folders) /\ Len(dirs') = Len(dirs) + 1
      /\ DOMAIN dirs = 1..Len(dirs) /\ DOMAIN dirs' = 1..(Len(dirs) + 1) /\ Len(dirs) \in Nat
  BY <1>2, AppendProperties, LenProperties DEF Shells!Spawned
<1>4. PICK d : d = [c EXCEPT !.op = "spawned", !.shell = Len(dirs')]
               /\ shellCalls' = (shellCalls \ {c}) \cup {d}
  BY DEF Shells!Spawned, Shells!Becomes
<1>5. /\ IsShellCall(d) /\ d.op = "spawned" /\ d.cwd = c.cwd /\ d.seq = c.seq
      /\ d.shell = Len(dirs) + 1
  BY <1>2, <1>3, <1>4 DEF IsShellCall
<1>6. Spawning(c) /\ Spawning(d)
  BY <1>2, <1>5 DEF Spawning
<1>7. SeqsDiffer'
  BY <1>4, <1>5, <1>6 DEF ShellsInv, SeqsDiffer
<1>8. LastHasNone'
  BY <1>1, <1>4, <1>5, <1>6 DEF ShellsInv, LastHasNone
<1>9. Shells!NoShellIsLost'
  <2> SUFFICES ASSUME NEW s \in DOMAIN dirs'
               PROVE \/ s \in ended \cup session
                     \/ \E e \in shellCalls' : e.op = "spawned" /\ e.shell = s
    BY <1>1 DEF Shells!NoShellIsLost
  <2>1. CASE s = Len(dirs) + 1
    BY <1>4, <1>5, <2>1
  <2>2. CASE s \in DOMAIN dirs
    BY <1>2, <1>4, <2>2 DEF ShellsInv, Shells!NoShellIsLost
  <2> QED
    BY <1>3, <2>1, <2>2
<1>10. \A e \in shellCalls' : IsShellCall(e) /\ e.cwd \in Folders
  BY <1>2, <1>4, <1>5 DEF ShellsInv
<1> QED
  BY <1>1, <1>3, <1>7, <1>8, <1>9, <1>10 DEF ShellsInv

\* A shell is the pane's while its Start is the last one, and then it replaces none; or it is
\* closed.
LEMMA ShellsOfStarted ==
  ASSUME ShellsInv, NEW c \in shellCalls, Shells!Started(c) PROVE ShellsInv'
<1>1. UNCHANGED <<folder, startSeq, dirs>>
  BY DEF Shells!Started
<1>2. c.op = "spawned" /\ IsShellCall(c) /\ c.cwd \in Folders /\ Spawning(c)
  BY DEF Shells!Started, ShellsInv, Spawning
<1>3. PICK d : /\ d = [c EXCEPT !.op = "ok"] \/ d = [c EXCEPT !.op = "failed"]
               /\ shellCalls' = (shellCalls \ {c}) \cup {d}
  BY DEF Shells!Started, Shells!Becomes
<1>4. IsShellCall(d) /\ ~Spawning(d) /\ d.cwd = c.cwd
  BY <1>2, <1>3 DEF IsShellCall, Spawning
<1>5. \A e \in shellCalls' : IsShellCall(e) /\ e.cwd \in Folders
  BY <1>2, <1>3, <1>4 DEF ShellsInv
<1>6. SeqsDiffer'
  BY <1>3, <1>4 DEF ShellsInv, SeqsDiffer
<1>7. CASE startSeq = c.seq
  <2>1. /\ session' = {c.shell} /\ ended' = ended
        /\ loops' = loops \cup {[op |-> "read", shell |-> c.shell]}
    BY <1>7 DEF Shells!Started
  <2>2. session = {}
    BY <1>2, <1>7 DEF ShellsInv, LastHasNone
  <2>3. \A e \in shellCalls : Spawning(e) /\ e.seq = startSeq => e = c
    BY <1>2, <1>7 DEF ShellsInv, SeqsDiffer
  <2>4. LastHasNone'
    BY <1>1, <1>3, <1>4, <2>3 DEF ShellsInv, LastHasNone
  <2>5. Shells!NoShellIsLost'
    BY <1>1, <1>3, <2>1, <2>2 DEF ShellsInv, Shells!NoShellIsLost
  <2>6. \A l \in loops' : IsLoop(l) /\ (l.op = "exit" => l.shell \in ended')
    BY <2>1 DEF ShellsInv, IsLoop
  <2> QED
    BY <1>1, <1>5, <1>6, <2>4, <2>5, <2>6 DEF ShellsInv
<1>8. CASE startSeq # c.seq
  <2>1. session' = session /\ ended' = ended \cup {c.shell} /\ loops' = loops
    BY <1>8 DEF Shells!Started
  <2>2. LastHasNone'
    BY <1>1, <1>3, <1>4, <2>1 DEF ShellsInv, LastHasNone
  <2>3. Shells!NoShellIsLost'
    BY <1>1, <1>3, <2>1 DEF ShellsInv, Shells!NoShellIsLost
  <2>4. \A l \in loops' : IsLoop(l) /\ (l.op = "exit" => l.shell \in ended')
    BY <2>1 DEF ShellsInv
  <2> QED
    BY <1>1, <1>5, <1>6, <2>2, <2>3, <2>4 DEF ShellsInv
<1> QED
  BY <1>7, <1>8

\* The other calls: a failed spawn, a folder to go to, a Stop.
LEMMA ShellsOfCalls ==
  ASSUME ShellsInv, NEW c \in shellCalls, Shells!SpawnFails(c) \/ Shells!SetCwd(c) \/ Shells!Stop(c)
  PROVE ShellsInv'
<1>1. c.op # "spawned" /\ IsShellCall(c) /\ c.cwd \in Folders
  BY DEF Shells!SpawnFails, Shells!SetCwd, Shells!Stop, ShellsInv
<1>2. PICK new : /\ \A d \in new : IsShellCall(d) /\ d.cwd \in Folders /\ ~Spawning(d)
                 /\ shellCalls' = (shellCalls \ {c}) \cup new
  <2>1. CASE Shells!SpawnFails(c)
    <3>1. PICK d : d = [c EXCEPT !.op = "failed"] /\ shellCalls' = (shellCalls \ {c}) \cup {d}
      BY <2>1 DEF Shells!SpawnFails, Shells!Becomes
    <3>2. IsShellCall(d) /\ d.cwd \in Folders /\ ~Spawning(d)
      BY <1>1, <3>1 DEF IsShellCall, Spawning
    <3> QED
      BY <3>1, <3>2
  <2>2. CASE Shells!SetCwd(c)
    <3>1. PICK d : /\ d = [c EXCEPT !.op = "ok"] \/ d = [c EXCEPT !.op = "failed"]
                   /\ shellCalls' = (shellCalls \ {c}) \cup {e \in {d} : c.op = "cd"}
      BY <2>2 DEF Shells!SetCwd
    <3>2. IsShellCall(d) /\ d.cwd \in Folders /\ ~Spawning(d)
      BY <1>1, <3>1 DEF IsShellCall, Spawning
    <3> QED
      BY <3>1, <3>2
  <2>3. CASE Shells!Stop(c)
    BY <2>3 DEF Shells!Stop
  <2> QED
    BY <2>1, <2>2, <2>3
<1>3. \A d \in shellCalls' : IsShellCall(d) /\ d.cwd \in Folders
  BY <1>2 DEF ShellsInv
<1>4. SeqsDiffer'
  BY <1>2 DEF ShellsInv, SeqsDiffer
<1>5. /\ folder' = folder /\ loops' = loops
      /\ session' \subseteq session /\ ended \cup session \subseteq ended' \cup session'
      /\ ended \subseteq ended'
      /\ startSeq' \in Nat /\ startSeq <= startSeq'
  BY DEF Shells!SpawnFails, Shells!SetCwd, Shells!Stop, Shells!shells, ShellsInv
<1>6. dirs' \in Seq(Folders) /\ DOMAIN dirs' = DOMAIN dirs
  <2>1. dirs \in Seq(Folders)
    BY DEF ShellsInv
  <2>2. CASE UNCHANGED dirs
    BY <2>1, <2>2
  <2>3. CASE Shells!SetCwd(c)
    <3>1. PICK w : dirs' = [s \in DOMAIN dirs |-> IF w /\ s \in session THEN c.cwd ELSE dirs[s]]
      BY <2>3 DEF Shells!SetCwd
    <3>2. Len(dirs) \in Nat /\ DOMAIN dirs = 1..Len(dirs) /\ \A s \in DOMAIN dirs : dirs[s] \in Folders
      BY <2>1, LenProperties
    <3>3. dirs' \in [1..Len(dirs) -> Folders]
      BY <1>1, <3>1, <3>2
    <3> QED
      BY <3>1, <3>2, <3>3, IsASeq
  <2> QED
    BY <2>2, <2>3 DEF Shells!SpawnFails, Shells!Stop, Shells!shells
<1>7. LastHasNone'
  <2> SUFFICES ASSUME NEW d \in shellCalls', Spawning(d)
               PROVE d.seq \in Nat /\ d.seq <= startSeq' /\ (d.seq = startSeq' => session' = {})
    BY DEF LastHasNone
  <2>1. d \in shellCalls
    BY <1>2
  <2>2. d.seq \in Nat /\ d.seq <= startSeq /\ (d.seq = startSeq => session = {}) /\ startSeq \in Nat
    BY <2>1 DEF ShellsInv, LastHasNone
  <2> QED
    BY <1>5, <2>2
<1>8. Shells!NoShellIsLost'
  <2> SUFFICES ASSUME NEW s \in DOMAIN dirs, s \notin ended' \cup session'
               PROVE \E d \in shellCalls' : d.op = "spawned" /\ d.shell = s
    BY <1>6 DEF Shells!NoShellIsLost
  <2>1. PICK d \in shellCalls : d.op = "spawned" /\ d.shell = s
    BY <1>5 DEF ShellsInv, Shells!NoShellIsLost
  <2> QED
    BY <1>1, <1>2, <2>1
<1> QED
  BY <1>3, <1>4, <1>5, <1>6, <1>7, <1>8 DEF ShellsInv

\* What becomes of the shells: the pane gives up only one that has ended.
LEMMA ShellsOfLoops ==
  ASSUME ShellsInv,
         \/ \E s \in DOMAIN dirs : Shells!ShellExits(s)
         \/ \E l \in loops : Shells!TellExit(l) \/ Shells!LoopEnds(l)
  PROVE ShellsInv'
<1>1. /\ UNCHANGED <<folder, shellCalls, startSeq, dirs>>
      /\ session' \subseteq session /\ ended \subseteq ended'
  BY DEF Shells!ShellExits, Shells!TellExit, Shells!LoopEnds, Shells!shells
<1>2. /\ \A l \in loops' : IsLoop(l) /\ (l.op = "exit" => l.shell \in ended')
      /\ ended \cup session \subseteq ended' \cup session'
  <2>1. CASE \E s \in DOMAIN dirs : Shells!ShellExits(s)
    BY <2>1 DEF Shells!ShellExits, ShellsInv
  <2>2. ASSUME NEW l \in loops, Shells!TellExit(l) PROVE <1>2
    <3>1. PICK k : k = [l EXCEPT !.op = "exit"] /\ loops' = (loops \ {l}) \cup {k}
      BY <2>2 DEF Shells!TellExit
    <3>2. IsLoop(k) /\ k.shell \in ended
      BY <2>2, <3>1 DEF ShellsInv, IsLoop, Shells!TellExit
    <3> QED
      BY <2>2, <3>1, <3>2 DEF ShellsInv, Shells!TellExit, Shells!shells
  <2>3. ASSUME NEW l \in loops, Shells!LoopEnds(l) PROVE <1>2
    BY <2>3 DEF Shells!LoopEnds, Shells!shells, ShellsInv
  <2> QED
    BY <2>1, <2>2, <2>3
<1>3. SeqsDiffer' /\ LastHasNone'
  BY <1>1 DEF ShellsInv, SeqsDiffer, LastHasNone
<1>4. Shells!NoShellIsLost'
  BY <1>1, <1>2 DEF ShellsInv, Shells!NoShellIsLost
<1> QED
  BY <1>1, <1>2, <1>3, <1>4 DEF ShellsInv

\* Every step of the terminal keeps ShellsInv.
LEMMA ShellsStep == ShellsInv /\ [Shells!Next]_ofShells => ShellsInv'
<1>1. CASE UNCHANGED ofShells
  BY <1>1 DEF ofShells, ShellsInv, SeqsDiffer, LastHasNone, Shells!NoShellIsLost
<1>2. CASE Shells!Next
  BY <1>2, ShellsOfTheView, ShellsOfStart, ShellsOfSpawned, ShellsOfStarted, ShellsOfCalls,
     ShellsOfLoops DEF Shells!Next
<1> QED
  BY <1>1, <1>2

\* ShellsInv holds in every behaviour of the tools.
LEMMA ShellsAlways == ToolsSpec => []ShellsInv
<1>1. ToolsInit => ShellsInv
  BY ShellsStart
<1>2. ShellsInv /\ [ToolsNext]_toolsVars => ShellsInv'
  BY ShellsStep, ShellsSteps
<1> QED
  BY <1>1, <1>2, PTL DEF ToolsSpec

-----------------------------------------------------------------------------
\* The window of the map, by its fields.
IsMapDialog(d) ==
  d = [open |-> d.open, root |-> d.root, jobId |-> d.jobId, crumbs |-> d.crumbs,
       scanning |-> d.scanning, failed |-> d.failed, zoom |-> d.zoom]
\* A call of the map: the generation it was made in, its folder and its job.
IsAsk(c) ==
  /\ c = [op |-> c.op, mine |-> c.mine, root |-> c.root, job |-> c.job]
  /\ c.op \in {"newJob", "usage"} /\ c.mine \in 1..generation /\ c.root \in MapFolders
  /\ c.job \in Int
\* The results on their way.
Usages == [job : Int, root : MapFolders, deep : SUBSET MapFolders]
\* The types of the map.
MapTypes ==
  /\ generation \in Nat /\ IsMapDialog(diskMap) /\ \A c \in usageAsked : IsAsk(c)
  /\ diskMap.root \subseteq MapFolders /\ \A i, j \in diskMap.jobId : i = j
  /\ usages \in Seq(Usages)

\* A job is asked for once in a generation, and is that of one scan or one result.
JobsDiffer ==
  /\ \A c, d \in usageAsked : c.mine = d.mine => c = d
  /\ \A c, d \in usageAsked : c.op = "usage" /\ d.op = "usage" /\ c.job = d.job => c = d
  /\ \A i, j \in DOMAIN usages : usages[i].job = usages[j].job => i = j
  /\ \A c \in usageAsked, i \in DOMAIN usages : c.op = "usage" => c.job # usages[i].job

\* The call of this generation waits for its job, or is that of the job shown.
ThisOneIsShown ==
  \A c \in usageAsked : c.mine = generation =>
    IF c.op = "newJob"
    THEN diskMap.open /\ diskMap.scanning /\ diskMap.jobId = {} /\ diskMap.root = {c.root}
    ELSE diskMap.jobId = {c.job}

\* The scan shown is of the folder shown, and so is its result.
ShownIsOfRoot ==
  /\ \A c \in usageAsked : c.op = "usage" /\ c.job \in diskMap.jobId => diskMap.root = {c.root}
  /\ \A i \in DOMAIN usages : usages[i].job \in diskMap.jobId =>
       \A f \in diskMap.root : Real[f] = usages[i].root
  /\ \A i \in DOMAIN usages : Real[usages[i].root] = usages[i].root

\* A scan, or a result, of a job that was not told to stop is waited for.
NotStoppedIsShown ==
  /\ \A c \in usageAsked : c.op = "usage" /\ c.job \notin usageStopped =>
       diskMap.open /\ diskMap.scanning /\ diskMap.jobId = {c.job}
  /\ \A i \in DOMAIN usages : usages[i].job \notin usageStopped =>
       diskMap.scanning /\ diskMap.jobId = {usages[i].job}

\* What every step of the map keeps of the calls and the results on their way.
MapIsTrue == MapTypes /\ JobsDiffer /\ ThisOneIsShown /\ ShownIsOfRoot /\ NotStoppedIsShown
\* What every step of the map keeps.
MapInv == MapIsTrue /\ Map!UsageIsOfItsFolder

\* A step of the tools is a step of the map, or leaves it alone.
LEMMA MapSteps == [ToolsNext]_toolsVars => [Map!Next]_ofMap
BY DEF ToolsNext, toolsVars, ofShells, ofBin, ofFinder, ofMap, ofSearch, ofTexts, ofPrompts, Map!vars

\* The initial states satisfy MapInv.
LEMMA MapStart == ToolsInit => MapInv
<1> SUFFICES ASSUME ToolsInit PROVE MapInv
  OBVIOUS
<1>1. diskMap = Map!Closed /\ cache = <<>> /\ generation = 0 /\ usageAsked = {} /\ usages = <<>>
  BY DEF ToolsInit, Map!Init
<1>2. DOMAIN usages = {} /\ DOMAIN cache = {} /\ usages \in Seq(Usages)
  BY <1>1
<1>3. IsMapDialog(diskMap) /\ diskMap.root = {} /\ diskMap.jobId = {}
  BY <1>1 DEF IsMapDialog, Map!Closed
<1> QED
  BY <1>1, <1>2, <1>3 DEF MapInv, MapIsTrue, MapTypes, JobsDiffer, ThisOneIsShown, ShownIsOfRoot,
     NotStoppedIsShown, Map!UsageIsOfItsFolder

\* Closed, or moved on to another folder, the dialog gives up the scan it waited for.
LEMMA MapMovesOn ==
  ASSUME MapIsTrue, NEW D, NEW new,
         generation' = generation + 1, usageStopped' = usageStopped \cup Map!InFlight,
         diskMap' = D, IsMapDialog(D), D.root \subseteq MapFolders, D.jobId = {},
         usageAsked' = usageAsked \cup new,
         \A c \in new : /\ c = [op |-> "newJob", mine |-> generation', root |-> c.root, job |-> 0]
                        /\ c.root \in MapFolders /\ D.root = {c.root} /\ D.open /\ D.scanning,
         UNCHANGED usages
  PROVE MapIsTrue'
<1>1. generation \in Nat /\ generation' \in Nat
  BY DEF MapIsTrue, MapTypes
<1>2. \A c \in usageAsked : c.mine \in 1..generation /\ c.mine # generation'
  BY <1>1 DEF MapIsTrue, MapTypes, IsAsk
<1>3. \A c \in new : c.op = "newJob" /\ c.mine = generation'
  OBVIOUS
<1>4. \A c, d \in new : c = d
  OBVIOUS
<1>5. MapTypes'
  <2>1. \A c \in usageAsked : IsAsk(c)'
    BY <1>1 DEF MapIsTrue, MapTypes, IsAsk
  <2>2. \A c \in new : IsAsk(c)'
    BY <1>1, <1>3 DEF IsAsk
  <2> QED
    BY <1>1, <2>1, <2>2 DEF MapIsTrue, MapTypes, IsMapDialog
<1>6. JobsDiffer'
  BY <1>2, <1>3, <1>4 DEF MapIsTrue, JobsDiffer
<1>7. ThisOneIsShown'
  BY <1>2, <1>3 DEF ThisOneIsShown
<1>8. ShownIsOfRoot'
  BY <1>3 DEF MapIsTrue, ShownIsOfRoot
<1>9. NotStoppedIsShown'
  <2>1. \A c \in usageAsked : c.op = "usage" => c.job \in usageStopped'
    BY DEF MapIsTrue, NotStoppedIsShown, Map!InFlight
  <2>2. \A i \in DOMAIN usages : usages[i].job \in usageStopped'
    BY DEF MapIsTrue, NotStoppedIsShown, Map!InFlight
  <2> QED
    BY <1>3, <2>1, <2>2 DEF NotStoppedIsShown
<1> QED
  BY <1>5, <1>6, <1>7, <1>8, <1>9 DEF MapIsTrue

\* A scan begins (runScan): what was asked before is stopped.
LEMMA MapBegin ==
  ASSUME MapIsTrue, NEW f \in MapFolders, NEW crumbs, Map!Begin(f, crumbs), UNCHANGED usages
  PROVE MapIsTrue'
<1>1. PICK k : k = Map!Closed
  OBVIOUS
<1>2. PICK D : D = [k EXCEPT !.open = TRUE, !.root = {f}, !.crumbs = crumbs, !.scanning = TRUE]
  OBVIOUS
<1>3. PICK c : c = [op |-> "newJob", mine |-> generation', root |-> f, job |-> 0]
  OBVIOUS
<1>4. /\ generation' = generation + 1 /\ usageStopped' = usageStopped \cup Map!InFlight
      /\ diskMap' = D /\ usageAsked' = usageAsked \cup {c}
  BY <1>1, <1>2, <1>3 DEF Map!Begin
<1>5. IsMapDialog(k) /\ k.jobId = {}
  BY <1>1 DEF Map!Closed, IsMapDialog
<1>6. IsMapDialog(D) /\ D.root = {f} /\ D.jobId = {} /\ D.open = TRUE /\ D.scanning = TRUE
  BY <1>2, <1>5 DEF IsMapDialog
<1>7. c = [op |-> "newJob", mine |-> generation', root |-> c.root, job |-> 0] /\ c.root = f
  BY <1>3
<1> QED
  BY <1>4, <1>6, <1>7, MapMovesOn

\* The window closes.
LEMMA MapClose ==
  ASSUME MapInv, Map!CloseDialog PROVE MapInv'
<1>1. IsMapDialog(Map!Closed) /\ Map!Closed.root = {} /\ Map!Closed.jobId = {}
  BY DEF Map!Closed, IsMapDialog
<1>2. /\ generation' = generation + 1 /\ usageStopped' = usageStopped \cup Map!InFlight
      /\ diskMap' = Map!Closed /\ usageAsked' = usageAsked \cup {} /\ UNCHANGED usages
      /\ cache' = <<>>
  BY DEF Map!CloseDialog
<1>3. MapIsTrue'
  BY <1>1, <1>2, MapMovesOn DEF MapInv
<1>4. DOMAIN cache' = {}
  BY <1>2
<1> QED
  BY <1>3, <1>4 DEF MapInv, Map!UsageIsOfItsFolder

\* The window opens, on what is cached of the folder or with a scan.
LEMMA MapOpen ==
  ASSUME MapInv, NEW f \in MapFolders, Map!OpenDialog(f) PROVE MapInv'
<1>1. MapIsTrue'
  BY MapBegin DEF Map!OpenDialog, MapInv
<1>2. cache' = <<>>
  BY DEF Map!OpenDialog
<1>3. DOMAIN cache' = {}
  BY <1>2
<1> QED
  BY <1>1, <1>3 DEF MapInv, Map!UsageIsOfItsFolder

\* Zooming asks for nothing.
LEMMA MapZoom ==
  ASSUME MapInv, NEW zoom, Map!SetZoom(zoom) PROVE MapInv'
<1>1. diskMap' = [diskMap EXCEPT !.zoom = zoom] /\ UNCHANGED <<cache, generation, usageAsked, usageStopped, usages>>
  BY DEF Map!SetZoom
<1>2. /\ IsMapDialog(diskMap') /\ diskMap'.open = diskMap.open /\ diskMap'.root = diskMap.root
      /\ diskMap'.jobId = diskMap.jobId /\ diskMap'.scanning = diskMap.scanning
  BY <1>1 DEF MapInv, MapIsTrue, MapTypes, IsMapDialog
<1>3. MapTypes'
  BY <1>1, <1>2 DEF MapInv, MapIsTrue, MapTypes, IsAsk, IsMapDialog
<1>4. JobsDiffer' /\ ThisOneIsShown' /\ ShownIsOfRoot' /\ NotStoppedIsShown'
  BY <1>1, <1>2 DEF MapInv, MapIsTrue, JobsDiffer, ThisOneIsShown, ShownIsOfRoot, NotStoppedIsShown
<1> QED
  BY <1>1, <1>3, <1>4 DEF MapInv, MapIsTrue, Map!UsageIsOfItsFolder

\* Drilling into a folder that is not in the tree scans it.
LEMMA MapDrill ==
  ASSUME MapInv, NEW f \in MapFolders, Map!Drill(f) PROVE MapInv'
<1>1. PICK crumbs : crumbs = Map!Remember(diskMap.crumbs, f)
  OBVIOUS
<1>2. CASE f \notin DOMAIN cache
  <2>1. Map!Begin(f, crumbs) /\ UNCHANGED <<cache, usages>>
    BY <1>1, <1>2 DEF Map!Drill
  <2>2. MapIsTrue'
    BY <2>1, MapBegin DEF MapInv
  <2> QED
    BY <2>1, <2>2 DEF MapInv, Map!UsageIsOfItsFolder
<1>3. CASE f \in DOMAIN cache
  <2>1. PICK k : k = Map!Closed
    OBVIOUS
  <2>2. PICK D : D = [k EXCEPT !.open = TRUE, !.root = {f}, !.crumbs = crumbs]
    OBVIOUS
  <2>3. /\ generation' = generation + 1 /\ usageStopped' = usageStopped \cup Map!InFlight
        /\ diskMap' = D /\ usageAsked' = usageAsked \cup {} /\ UNCHANGED <<cache, usages>>
    BY <1>1, <1>3, <2>1, <2>2 DEF Map!Drill
  <2>4. IsMapDialog(D) /\ D.root = {f} /\ D.jobId = {}
    <3>1. IsMapDialog(k) /\ k.jobId = {}
      BY <2>1 DEF Map!Closed, IsMapDialog
    <3> QED
      BY <2>2, <3>1 DEF IsMapDialog
  <2>5. MapIsTrue'
    BY <2>3, <2>4, MapMovesOn DEF MapInv
  <2> QED
    BY <2>3, <2>5 DEF MapInv, Map!UsageIsOfItsFolder
<1> QED
  BY <1>2, <1>3

\* A job begins: that of this generation is shown, any other is stopped at once.
LEMMA MapJobId ==
  ASSUME MapInv, NEW c \in usageAsked, NEW jj \in 1..MaxScans, Map!JobId(c, jj) PROVE MapInv'
<1>1. /\ c.op = "newJob" /\ jj \notin usageStopped /\ \A d \in usageAsked : d.job # jj
      /\ UNCHANGED <<cache, generation, usages>>
  BY DEF Map!JobId
<1>2. IsAsk(c)
  BY DEF MapInv, MapIsTrue, MapTypes
<1>3. CASE c.mine # generation \/ ~diskMap.open
  <2>1. /\ usageStopped' = usageStopped \cup {jj} /\ usageAsked' = usageAsked \ {c}
        /\ UNCHANGED diskMap
    BY <1>3 DEF Map!JobId
  <2>2. MapTypes'
    BY <1>1, <2>1 DEF MapInv, MapIsTrue, MapTypes, IsAsk, IsMapDialog
  <2>3. JobsDiffer' /\ ThisOneIsShown' /\ ShownIsOfRoot' /\ NotStoppedIsShown'
    BY <1>1, <2>1 DEF MapInv, MapIsTrue, JobsDiffer, ThisOneIsShown, ShownIsOfRoot, NotStoppedIsShown
  <2> QED
    BY <1>1, <2>2, <2>3 DEF MapInv, MapIsTrue, Map!UsageIsOfItsFolder
<1>4. CASE c.mine = generation /\ diskMap.open
  <2>1. PICK d : d = [c EXCEPT !.op = "usage", !.job = jj] /\ usageAsked' = (usageAsked \ {c}) \cup {d}
    BY <1>4 DEF Map!JobId
  <2>2. diskMap' = [diskMap EXCEPT !.jobId = {jj}] /\ usageStopped' = usageStopped
    BY <1>4 DEF Map!JobId
  <2>3. /\ diskMap'.open = diskMap.open /\ diskMap'.root = diskMap.root
        /\ diskMap'.jobId = {jj} /\ diskMap'.scanning = diskMap.scanning /\ IsMapDialog(diskMap')
    BY <2>2 DEF MapInv, MapIsTrue, MapTypes, IsMapDialog
  <2>4. IsAsk(d) /\ d.op = "usage" /\ d.job = jj /\ d.mine = c.mine /\ d.root = c.root
    <3>1. jj \in Int
      BY ToolsAssumption DEF Map!TreemapAssumption
    <3> QED
      BY <1>2, <2>1, <3>1 DEF IsAsk
  <2>5. diskMap.open /\ diskMap.scanning /\ diskMap.jobId = {} /\ diskMap.root = {c.root}
    BY <1>1, <1>4 DEF MapInv, MapIsTrue, ThisOneIsShown
  <2>6. /\ \A e \in usageAsked : e.op = "usage" => e.job \in usageStopped
        /\ \A i \in DOMAIN usages : usages[i].job \in usageStopped /\ usages[i].job # jj
    BY <1>1, <2>5 DEF MapInv, MapIsTrue, NotStoppedIsShown
  <2>7. \A e \in usageAsked : e.mine = generation => e = c
    BY <1>4 DEF MapInv, MapIsTrue, JobsDiffer
  <2>8. MapTypes'
    BY <1>1, <2>1, <2>3, <2>4 DEF MapInv, MapIsTrue, MapTypes, IsAsk, IsMapDialog
  <2>9. JobsDiffer'
    <3>4. \A e \in usageAsked \ {c} : e.mine # d.mine /\ e.job # d.job
      BY <1>1, <1>4, <2>4, <2>7
    <3>5. JobsDiffer
      BY DEF MapInv, MapIsTrue
    <3>1. \A e, k \in usageAsked' : e.mine = k.mine => e = k
      BY <2>1, <3>4, <3>5 DEF JobsDiffer
    <3>2. \A e, k \in usageAsked' : e.op = "usage" /\ k.op = "usage" /\ e.job = k.job => e = k
      BY <2>1, <3>4, <3>5 DEF JobsDiffer
    <3>3. \A e \in usageAsked', i \in DOMAIN usages : e.op = "usage" => e.job # usages[i].job
      BY <2>1, <2>4, <2>6 DEF MapInv, MapIsTrue, JobsDiffer
    <3> QED
      BY <1>1, <3>1, <3>2, <3>3 DEF MapInv, MapIsTrue, JobsDiffer
  <2>10. ThisOneIsShown'
    BY <1>1, <2>1, <2>3, <2>4, <2>7 DEF ThisOneIsShown
  <2>11. ShownIsOfRoot'
    BY <1>1, <2>1, <2>3, <2>4, <2>5, <2>6 DEF MapInv, MapIsTrue, ShownIsOfRoot
  <2>12. NotStoppedIsShown'
    BY <1>1, <2>1, <2>2, <2>3, <2>4, <2>5, <2>6 DEF NotStoppedIsShown
  <2> QED
    BY <1>1, <2>8, <2>9, <2>10, <2>11, <2>12 DEF MapInv, MapIsTrue, Map!UsageIsOfItsFolder
<1> QED
  BY <1>3, <1>4

\* Without an answer the scan of this generation is given up.
LEMMA MapCallFails ==
  ASSUME MapInv, NEW c \in usageAsked, Map!CallFails(c) PROVE MapInv'
<1>1. usageAsked' = usageAsked \ {c} /\ UNCHANGED <<cache, generation, usageStopped, usages>>
  BY DEF Map!CallFails
<1>2. JobsDiffer'
  BY <1>1 DEF MapInv, MapIsTrue, JobsDiffer
<1>3. CASE c.mine # generation
  <2>1. diskMap' = diskMap
    BY <1>3 DEF Map!CallFails
  <2>2. MapTypes'
    BY <1>1, <2>1 DEF MapInv, MapIsTrue, MapTypes, IsAsk, IsMapDialog
  <2>3. ThisOneIsShown' /\ ShownIsOfRoot' /\ NotStoppedIsShown'
    BY <1>1, <2>1 DEF MapInv, MapIsTrue, ThisOneIsShown, ShownIsOfRoot, NotStoppedIsShown
  <2> QED
    BY <1>1, <1>2, <2>2, <2>3 DEF MapInv, MapIsTrue, Map!UsageIsOfItsFolder
<1>4. CASE c.mine = generation
  <2>1. diskMap' = [diskMap EXCEPT !.scanning = FALSE, !.failed = TRUE]
    BY <1>4 DEF Map!CallFails
  <2>2. /\ diskMap'.open = diskMap.open /\ diskMap'.root = diskMap.root
        /\ diskMap'.jobId = diskMap.jobId /\ IsMapDialog(diskMap')
    BY <2>1 DEF MapInv, MapIsTrue, MapTypes, IsMapDialog
  <2>3. \A e \in usageAsked : e.mine = generation => e = c
    BY <1>4 DEF MapInv, MapIsTrue, JobsDiffer
  <2>4. \/ c.op = "newJob" /\ diskMap.jobId = {}
        \/ c.op = "usage" /\ diskMap.jobId = {c.job}
    BY <1>4 DEF MapInv, MapIsTrue, MapTypes, IsAsk, ThisOneIsShown
  <2>5. \A e \in usageAsked' : e.op = "usage" => e.job \in usageStopped
    BY <1>1, <2>4 DEF MapInv, MapIsTrue, JobsDiffer, NotStoppedIsShown
  <2>6. \A i \in DOMAIN usages : usages[i].job \in usageStopped
    BY <2>4 DEF MapInv, MapIsTrue, JobsDiffer, NotStoppedIsShown
  <2>7. MapTypes'
    BY <1>1, <2>2 DEF MapInv, MapIsTrue, MapTypes, IsAsk, IsMapDialog
  <2>8. ThisOneIsShown' /\ ShownIsOfRoot' /\ NotStoppedIsShown'
    BY <1>1, <2>2, <2>3, <2>5, <2>6 DEF MapInv, MapIsTrue, ThisOneIsShown, ShownIsOfRoot, NotStoppedIsShown
  <2> QED
    BY <1>1, <1>2, <2>7, <2>8 DEF MapInv, MapIsTrue, Map!UsageIsOfItsFolder
<1> QED
  BY <1>3, <1>4

\* A result is told of the folder its scan was of.
LEMMA MapScanned ==
  ASSUME MapInv, NEW c \in usageAsked, NEW deep \in SUBSET Under[Real[c.root]],
         Map!Scanned(c, deep)
  PROVE MapInv'
<1>1. /\ c.op = "usage" /\ usageAsked' = usageAsked \ {c}
      /\ UNCHANGED <<diskMap, cache, generation, usageStopped>>
  BY DEF Map!Scanned
<1>2. PICK e : e = [job |-> c.job, root |-> Real[c.root], deep |-> deep] /\ usages' = Append(usages, e)
  BY DEF Map!Scanned
<1>3. e \in Usages /\ e.job = c.job /\ e.root = Real[c.root] /\ Real[e.root] = e.root
  BY <1>2, ToolsAssumption DEF MapInv, MapIsTrue, MapTypes, IsAsk, Usages, Map!TreemapAssumption
<1>4. PICK n \in Nat : /\ n = Len(usages) /\ DOMAIN usages = 1..n /\ DOMAIN usages' = 1..(n + 1)
                       /\ usages' \in Seq(Usages) /\ usages'[n + 1] = e
                       /\ \A i \in 1..n : usages'[i] = usages[i]
  BY <1>2, <1>3, AppendProperties, LenProperties DEF MapInv, MapIsTrue, MapTypes
<1>5. \A i \in DOMAIN usages' : i \in 1..n \/ i = n + 1
  BY <1>4
<1>6. MapTypes'
  BY <1>1, <1>4 DEF MapInv, MapIsTrue, MapTypes, IsAsk, IsMapDialog
<1>7. JobsDiffer'
  <2>1. \A i \in 1..n : usages[i].job # c.job
    BY <1>1, <1>4 DEF MapInv, MapIsTrue, JobsDiffer
  <2>2. \A i, j \in DOMAIN usages' : usages'[i].job = usages'[j].job => i = j
    BY <1>3, <1>4, <1>5, <2>1 DEF MapInv, MapIsTrue, JobsDiffer
  <2>3. \A d \in usageAsked' : d.op = "usage" => d.job # c.job
    BY <1>1 DEF MapInv, MapIsTrue, JobsDiffer
  <2>4. \A d \in usageAsked', i \in DOMAIN usages' : d.op = "usage" => d.job # usages'[i].job
    BY <1>1, <1>3, <1>4, <1>5, <2>3 DEF MapInv, MapIsTrue, JobsDiffer
  <2> QED
    BY <1>1, <2>2, <2>4 DEF MapInv, MapIsTrue, JobsDiffer
<1>8. ThisOneIsShown'
  BY <1>1 DEF MapInv, MapIsTrue, ThisOneIsShown
<1>9. ShownIsOfRoot'
  BY <1>1, <1>3, <1>4, <1>5 DEF MapInv, MapIsTrue, ShownIsOfRoot
<1>10. NotStoppedIsShown'
  BY <1>1, <1>3, <1>4, <1>5 DEF MapInv, MapIsTrue, NotStoppedIsShown
<1> QED
  BY <1>1, <1>6, <1>7, <1>8, <1>9, <1>10 DEF MapInv, MapIsTrue, Map!UsageIsOfItsFolder

\* The result of the scan shown ends it; any other is passed over.
LEMMA MapApplyDone ==
  ASSUME MapInv, Map!ApplyDone PROVE MapInv'
<1>1. UNCHANGED <<generation, usageAsked, usageStopped>> /\ usages # <<>> /\ usages' = Tail(usages)
  BY DEF Map!ApplyDone
<1>2. usages \in Seq(Usages)
  BY DEF MapInv, MapIsTrue, MapTypes
<1>3. PICK n \in Nat : n = Len(usages) /\ DOMAIN usages = 1..n
  BY <1>2, LenProperties
<1>4. n # 0
  BY <1>1, <1>2, <1>3, EmptySeq
<1>5. /\ usages' \in Seq(Usages) /\ DOMAIN usages' = 1..(n - 1)
      /\ \A i \in 1..(n - 1) : usages'[i] = usages[i + 1]
  BY <1>1, <1>2, <1>3, <1>4, HeadTailProperties, LenProperties
<1>6. PICK done : done = Head(usages)
  OBVIOUS
<1>7. done = usages[1] /\ done.root \in MapFolders /\ 1 \in DOMAIN usages
  <2>1. done = usages[1] /\ done \in Usages
    BY <1>1, <1>2, <1>6, HeadTailProperties
  <2> QED
    BY <1>3, <1>4, <2>1 DEF Usages
<1>8. \A i \in DOMAIN usages' : i + 1 \in DOMAIN usages /\ i + 1 # 1 /\ usages'[i] = usages[i + 1]
  BY <1>3, <1>5
<1>9. JobsDiffer'
  <2>1. \A i, j \in DOMAIN usages' : usages'[i].job = usages'[j].job => i = j
    <3> SUFFICES ASSUME NEW i \in DOMAIN usages', NEW j \in DOMAIN usages',
                        usages'[i].job = usages'[j].job PROVE i = j
      OBVIOUS
    <3>1. i + 1 = j + 1
      BY <1>8 DEF MapInv, MapIsTrue, JobsDiffer
    <3> QED
      BY <1>5, <3>1
  <2>2. \A c \in usageAsked, i \in DOMAIN usages' : c.op = "usage" => c.job # usages'[i].job
    BY <1>8 DEF MapInv, MapIsTrue, JobsDiffer
  <2> QED
    BY <1>1, <2>1, <2>2 DEF MapInv, MapIsTrue, JobsDiffer
<1>10. CASE done.job \notin diskMap.jobId
  <2>1. UNCHANGED <<diskMap, cache>>
    BY <1>6, <1>10 DEF Map!ApplyDone
  <2>2. MapTypes'
    BY <1>1, <1>5, <2>1 DEF MapInv, MapIsTrue, MapTypes, IsAsk, IsMapDialog
  <2>3. ThisOneIsShown'
    BY <1>1, <2>1 DEF MapInv, MapIsTrue, ThisOneIsShown
  <2>4. ShownIsOfRoot'
    BY <1>1, <1>8, <2>1 DEF MapInv, MapIsTrue, ShownIsOfRoot
  <2>5. NotStoppedIsShown'
    BY <1>1, <1>8, <2>1 DEF MapInv, MapIsTrue, NotStoppedIsShown
  <2> QED
    BY <1>9, <2>1, <2>2, <2>3, <2>4, <2>5 DEF MapInv, MapIsTrue, Map!UsageIsOfItsFolder
<1>11. CASE done.job \in diskMap.jobId
  <2>1. PICK crumbs : diskMap' = [diskMap EXCEPT !.root = {done.root}, !.scanning = FALSE, !.crumbs = crumbs]
    BY <1>6, <1>11 DEF Map!ApplyDone
  <2>2. cache' = [f \in DOMAIN cache \cup {done.root} \cup diskMap.root |->
                    IF f = done.root \/ f \in diskMap.root THEN done ELSE cache[f]]
    BY <1>6, <1>11 DEF Map!ApplyDone
  <2>3. /\ diskMap'.open = diskMap.open /\ diskMap'.root = {done.root}
        /\ diskMap'.jobId = diskMap.jobId /\ IsMapDialog(diskMap')
    BY <2>1 DEF MapInv, MapIsTrue, MapTypes, IsMapDialog
  <2>4. \A k \in diskMap.jobId : k = done.job
    BY <1>11 DEF MapInv, MapIsTrue, MapTypes
  <2>5. \A c \in usageAsked : c.op = "usage" => c.job \notin diskMap.jobId
    BY <1>7, <2>4 DEF MapInv, MapIsTrue, JobsDiffer
  <2>6. \A i \in DOMAIN usages' : usages'[i].job \notin diskMap.jobId
    BY <1>7, <1>8, <2>4 DEF MapInv, MapIsTrue, JobsDiffer
  <2>7. MapTypes'
    BY <1>1, <1>5, <1>7, <2>3 DEF MapInv, MapIsTrue, MapTypes, IsAsk
  <2>8. ThisOneIsShown'
    BY <1>1, <1>11, <2>3 DEF MapInv, MapIsTrue, ThisOneIsShown
  <2>9. ShownIsOfRoot'
    <3>1. \A i \in DOMAIN usages' : Real[usages'[i].root] = usages'[i].root
      BY <1>8 DEF MapInv, MapIsTrue, ShownIsOfRoot
    <3> QED
      BY <1>1, <2>3, <2>5, <2>6, <3>1 DEF ShownIsOfRoot
  <2>10. NotStoppedIsShown'
    <3>1. \A c \in usageAsked : c.op = "usage" => c.job \in usageStopped
      BY <2>5 DEF MapInv, MapIsTrue, NotStoppedIsShown
    <3>2. \A i \in DOMAIN usages' : usages'[i].job \in usageStopped
      BY <1>8, <2>6 DEF MapInv, MapIsTrue, NotStoppedIsShown
    <3> QED
      BY <1>1, <3>1, <3>2 DEF NotStoppedIsShown
  <2>11. Map!UsageIsOfItsFolder'
    <3>1. Real[done.root] = done.root /\ \A f \in diskMap.root : Real[f] = done.root
      BY <1>7, <1>11 DEF MapInv, MapIsTrue, ShownIsOfRoot
    <3> QED
      BY <2>2, <3>1 DEF MapInv, Map!UsageIsOfItsFolder
  <2> QED
    BY <1>9, <2>7, <2>8, <2>9, <2>10, <2>11 DEF MapInv, MapIsTrue
<1> QED
  BY <1>10, <1>11

\* Cancel stops the scan.
LEMMA MapCancel ==
  ASSUME MapInv, Map!Cancel PROVE MapInv'
<1>1. /\ UNCHANGED <<diskMap, cache, generation, usageAsked, usages>>
      /\ usageStopped \subseteq usageStopped'
  BY DEF Map!Cancel
<1>2. MapTypes'
  BY <1>1 DEF MapInv, MapIsTrue, MapTypes, IsAsk, IsMapDialog
<1>3. JobsDiffer' /\ ThisOneIsShown' /\ ShownIsOfRoot' /\ NotStoppedIsShown'
  BY <1>1 DEF MapInv, MapIsTrue, JobsDiffer, ThisOneIsShown, ShownIsOfRoot, NotStoppedIsShown
<1> QED
  BY <1>1, <1>2, <1>3 DEF MapInv, MapIsTrue, Map!UsageIsOfItsFolder

\* Every step of the map keeps MapInv.
LEMMA MapStep == MapInv /\ [Map!Next]_ofMap => MapInv'
<1> SUFFICES ASSUME MapInv, [Map!Next]_ofMap PROVE MapInv'
  OBVIOUS
<1>1. CASE UNCHANGED ofMap
  <2>1. UNCHANGED <<diskMap, cache, generation, usageAsked, usageStopped, usages>>
    BY <1>1 DEF ofMap
  <2>2. MapTypes'
    BY <2>1 DEF MapInv, MapIsTrue, MapTypes, IsAsk, IsMapDialog
  <2>3. JobsDiffer' /\ ThisOneIsShown' /\ ShownIsOfRoot' /\ NotStoppedIsShown'
    BY <2>1 DEF MapInv, MapIsTrue, JobsDiffer, ThisOneIsShown, ShownIsOfRoot, NotStoppedIsShown
  <2> QED
    BY <2>1, <2>2, <2>3 DEF MapInv, MapIsTrue, Map!UsageIsOfItsFolder
<1>2. ASSUME NEW f \in MapFolders, Map!OpenDir(f) PROVE MapInv'
  BY <1>2, MapZoom, MapDrill DEF Map!OpenDir
<1>3. ASSUME NEW c \in usageAsked, NEW deep \in SUBSET Under[Real[c.root]], Map!Scanned(c, deep)
      PROVE MapInv'
  BY <1>3, MapScanned
<1>4. CASE Map!ZoomChain \/ Map!OpenFile
  BY <1>4, MapZoom, MapClose DEF Map!ZoomChain, Map!OpenFile
<1> QED
  BY <1>1, <1>2, <1>3, <1>4, MapOpen, MapJobId, MapCallFails, MapApplyDone, MapCancel, MapClose
  DEF Map!Next

\* MapInv holds in every behaviour of the tools.
LEMMA MapAlways == ToolsSpec => []MapInv
<1>1. ToolsInit => MapInv
  BY MapStart
<1>2. MapInv /\ [ToolsNext]_toolsVars => MapInv'
  BY MapStep, MapSteps
<1> QED
  BY <1>1, <1>2, PTL DEF ToolsSpec

-----------------------------------------------------------------------------
\* A call of the search, by its fields.
IsSearchCall(c) == c = [op |-> c.op, job |-> c.job, what |-> c.what, row |-> c.row, at |-> c.at]
\* A search of the backend, by its fields.
IsSearch(r) == r = [job |-> r.job, query |-> r.query]

\* A search is on its way under the id that counts, or waits for its id.
OnItsWay ==
  \/ \E c \in searchCalls : c.op = "newJob"
  \/ \E j \in searchId :
       \/ \E c \in searchCalls : c.op = "start" /\ c.job = j
       \/ \E r \in searches : r.job = j
       \/ \E i \in DOMAIN hits : hits[i].job = j /\ hits[i].kind \in {"done", "error"}

\* What is asked for is known; one id counts at a time.
SearchShapes ==
  /\ \A c \in searchCalls : /\ IsSearchCall(c) /\ c.op \in {"prefs", "newJob", "start", "replaceOne", "replaceAll"}
                            /\ (c.op \in {"newJob", "start"} => c.what # {})
  /\ \A i, j \in searchId : i = j
  /\ \E S : hits \in Seq(S)

\* What every step of the search keeps.
SearchInv == SearchShapes /\ (searching => searchOpen /\ OnItsWay)

\* A step of the tools is a step of the search, or leaves it alone.
LEMMA SearchSteps == [ToolsNext]_toolsVars => [Search!Next]_ofSearch
BY DEF ToolsNext, toolsVars, ofShells, ofBin, ofFinder, ofMap, ofSearch, ofTexts, ofPrompts, Search!vars,
       Search!fields, Search!list, Search!backend

\* The initial states satisfy SearchInv.
LEMMA SearchStart == ToolsInit => SearchInv
<1> SUFFICES ASSUME ToolsInit PROVE SearchInv
  OBVIOUS
<1>1. searchCalls = {} /\ searchId = {} /\ hits = <<>> /\ searching = FALSE
  BY DEF ToolsInit, Search!Init
<1> QED
  BY <1>1 DEF SearchInv, SearchShapes

\* What is on its way is a search under way.
LEMMA SearchEnough == SearchInv => Search!SearchingHasAJob
<1> SUFFICES ASSUME SearchInv, searching PROVE Search!SearchingHasAJob
  BY DEF Search!SearchingHasAJob
<1>1. CASE \E c \in searchCalls : c.op = "newJob"
  BY <1>1 DEF Search!SearchingHasAJob
<1>2. ASSUME NEW j \in searchId,
             \/ \E c \in searchCalls : c.op = "start" /\ c.job = j
             \/ \E r \in searches : r.job = j
             \/ \E i \in DOMAIN hits : hits[i].job = j /\ hits[i].kind \in {"done", "error"}
      PROVE Search!SearchingHasAJob
  BY <1>2 DEF Search!SearchingHasAJob
<1> QED
  BY <1>1, <1>2 DEF SearchInv, OnItsWay

\* No call to search is made or answered.
NoSearchAsked ==
  /\ \A c \in searchCalls' : \/ c \in searchCalls
                             \/ IsSearchCall(c) /\ c.op \in {"prefs", "replaceOne", "replaceAll"}
  /\ \A c \in searchCalls : c.op \in {"newJob", "start"} => c \in searchCalls'

\* What leaves the searches alone, but for calls that are none.
LEMMA SearchKept ==
  ASSUME SearchInv, UNCHANGED <<searching, searchId, searches, hits>>,
         NoSearchAsked,
         searchOpen => searchOpen'
  PROVE SearchInv'
<1>1. SearchShapes'
  BY DEF SearchInv, SearchShapes, NoSearchAsked
<1>2. OnItsWay => OnItsWay'
  BY DEF OnItsWay, NoSearchAsked
<1> QED
  BY <1>1, <1>2 DEF SearchInv

\* A field changes: what was typed before is forgotten.
LEMMA SearchFieldsChange ==
  ASSUME SearchInv,
         \/ Search!OpenSearch
         \/ \E c \in searchCalls, p \in SavedFields : Search!PrefsLoaded(c, p)
         \/ \E p : Search!Patch(p)
         \/ \E r \in Roots : Search!RootChanges(r)
         \/ Search!FlushHits \/ Search!DismissDenied \/ (\E i : Search!Hover(i))
         \/ Search!ReplaceOne \/ Search!ReplaceEverywhere
         \/ \E c \in searchCalls : Search!ReplacedOne(c) \/ Search!CallFails(c)
  PROVE SearchInv'
<1>1. UNCHANGED <<searching, searchId, searches, hits>>
  BY DEF Search!OpenSearch, Search!PrefsLoaded, Search!Patch, Search!RootChanges, Search!FlushHits,
         Search!DismissDenied, Search!Hover, Search!ReplaceOne, Search!ReplaceEverywhere,
         Search!ReplacedOne, Search!CallFails, Search!fields, Search!list, Search!backend
<1>2. searchOpen => searchOpen'
  BY DEF Search!OpenSearch, Search!PrefsLoaded, Search!Patch, Search!RootChanges, Search!FlushHits,
         Search!DismissDenied, Search!Hover, Search!ReplaceOne, Search!ReplaceEverywhere,
         Search!ReplacedOne, Search!CallFails, Search!fields
<1>3. NoSearchAsked
  <2>1. ASSUME NEW k, NEW d, k = Search!Call("prefs") \/ k = Search!Call("replaceOne") \/ k = Search!Call("replaceAll"),
               d = k \/ d = [k EXCEPT !.row = index], searchCalls' = searchCalls \cup {d}
        PROVE NoSearchAsked
    <3>1. IsSearchCall(k) /\ k.op \in {"prefs", "replaceOne", "replaceAll"}
      BY <2>1 DEF Search!Call, IsSearchCall
    <3>2. IsSearchCall(d) /\ d.op \in {"prefs", "replaceOne", "replaceAll"}
      BY <2>1, <3>1 DEF IsSearchCall
    <3> QED
      BY <2>1, <3>2 DEF NoSearchAsked
  <2>2. CASE Search!OpenSearch \/ Search!ReplaceOne \/ Search!ReplaceEverywhere
    <3>1. \E k \in {Search!Call("prefs"), Search!Call("replaceOne"), Search!Call("replaceAll")} :
            searchCalls' = searchCalls \cup {k} \/ searchCalls' = searchCalls \cup {[k EXCEPT !.row = index]}
      BY <2>2 DEF Search!OpenSearch, Search!ReplaceOne, Search!ReplaceEverywhere
    <3> QED
      BY <2>1, <3>1
  <2>3. CASE UNCHANGED searchCalls
    BY <2>3 DEF NoSearchAsked
  <2>4. ASSUME NEW c \in searchCalls,
               (\E p \in SavedFields : Search!PrefsLoaded(c, p)) \/ Search!ReplacedOne(c) \/ Search!CallFails(c)
        PROVE NoSearchAsked
    BY <2>4 DEF Search!PrefsLoaded, Search!ReplacedOne, Search!CallFails, NoSearchAsked
  <2>5. \/ UNCHANGED searchCalls \/ Search!OpenSearch \/ Search!ReplaceOne \/ Search!ReplaceEverywhere
        \/ \E c \in searchCalls : \/ \E p \in SavedFields : Search!PrefsLoaded(c, p)
                                  \/ Search!ReplacedOne(c) \/ Search!CallFails(c)
    BY DEF Search!Patch, Search!RootChanges, Search!FlushHits, Search!DismissDenied, Search!Hover
  <2> QED
    BY <2>2, <2>3, <2>4, <2>5
<1> QED
  BY <1>1, <1>2, <1>3, SearchKept

\* A search that is begun waits for its id, or there was nothing to search for.
LEMMA SearchRuns ==
  ASSUME SearchInv, NEW answered \in SUBSET searchCalls, \A c \in answered : c.op = "replaceAll",
         NEW at, Search!RunSearch(answered, at), UNCHANGED <<searchOpen, hits>>
  PROVE SearchInv'
<1>1. CASE /\ UNCHANGED <<searching, searchId, searches>> /\ searchCalls' = searchCalls \ answered
  BY <1>1, SearchKept DEF NoSearchAsked
<1>2. ASSUME NEW k, NEW d, NEW w, k = Search!Call("newJob"),
             d = [k EXCEPT !.job = asked + 1, !.what = {w}],
             searchCalls' = (searchCalls \ answered) \cup {d}, searchId' = {}, searching' = searchOpen
      PROVE SearchInv'
  <2>1. IsSearchCall(k) /\ k.op = "newJob"
    BY <1>2 DEF Search!Call, IsSearchCall
  <2>2. IsSearchCall(d) /\ d.op = "newJob" /\ d.what = {w}
    BY <1>2, <2>1 DEF IsSearchCall
  <2>3. SearchShapes'
    BY <1>2, <2>2 DEF SearchInv, SearchShapes
  <2>4. OnItsWay'
    BY <1>2, <2>2 DEF OnItsWay
  <2> QED
    BY <1>2, <2>3, <2>4 DEF SearchInv
<1>3. \/ /\ UNCHANGED <<searching, searchId, searches>> /\ searchCalls' = searchCalls \ answered
      \/ \E w : /\ searchCalls' = (searchCalls \ answered) \cup {[Search!Call("newJob") EXCEPT !.job = asked + 1, !.what = {w}]}
                /\ searchId' = {} /\ searching' = searchOpen
  BY DEF Search!RunSearch
<1> QED
  BY <1>1, <1>2, <1>3

\* An answer to a search, and what it finds.
LEMMA SearchJobIdKnown ==
  ASSUME SearchInv, NEW c \in searchCalls, Search!JobIdKnown(c) PROVE SearchInv'
<1>1. PICK d : d = [c EXCEPT !.op = "start"] /\ searchCalls' = (searchCalls \ {c}) \cup {d}
  BY DEF Search!JobIdKnown
<1>2. /\ c.op = "newJob" /\ searchId' = {c.job}
      /\ UNCHANGED <<searchOpen, searching, searches, hits>>
  BY DEF Search!JobIdKnown, Search!fields, Search!list, Search!backend
<1>3. IsSearchCall(d) /\ d.op = "start" /\ d.job = c.job /\ d.what # {}
  BY <1>1, <1>2 DEF SearchInv, SearchShapes, IsSearchCall
<1>4. SearchShapes'
  BY <1>1, <1>2, <1>3 DEF SearchInv, SearchShapes
<1>5. OnItsWay'
  BY <1>1, <1>2, <1>3 DEF OnItsWay
<1> QED
  BY <1>2, <1>4, <1>5 DEF SearchInv

\* SearchContent is called: a search runs under the id.
LEMMA SearchStarted ==
  ASSUME SearchInv, NEW c \in searchCalls, Search!Started(c) PROVE SearchInv'
<1>1. /\ c.op = "start" /\ searchCalls' = searchCalls \ {c}
      /\ UNCHANGED <<searchOpen, searching, searchId, hits>>
      /\ searches' = searches \cup {[job |-> c.job, query |-> w.query] : w \in c.what}
  BY DEF Search!Started, Search!fields, Search!list, Search!backend
<1>2. SearchShapes'
  BY <1>1 DEF SearchInv, SearchShapes
<1>3. c.what # {}
  BY <1>1 DEF SearchInv, SearchShapes
<1>4. \E r \in searches' : r.job = c.job
  <2>1. PICK w : w \in c.what
    BY <1>3
  <2>2. [job |-> c.job, query |-> w.query] \in searches'
    BY <1>1, <2>1
  <2> QED
    BY <2>2
<1>5. OnItsWay => OnItsWay'
  BY <1>1, <1>4 DEF OnItsWay
<1> QED
  BY <1>1, <1>2, <1>5 DEF SearchInv

\* A search sends rows, or its last event.
LEMMA SearchSends ==
  ASSUME SearchInv, NEW r \in searches, NEW k, NEW p, Search!Send(r, k, p) PROVE SearchInv'
<1>1. UNCHANGED <<searchOpen, searching, searchId, searchCalls>>
  BY DEF Search!Send, Search!fields, Search!list
<1>2. PICK e : e = [kind |-> k, job |-> r.job, query |-> r.query, path |-> p] /\ hits' = Append(hits, e)
  BY DEF Search!Send
<1>3. PICK S : hits \in Seq(S)
  BY DEF SearchInv, SearchShapes
<1>4. hits \in Seq(S \cup {e})
  <2>1. hits \in [1..Len(hits) -> S \cup {e}] /\ Len(hits) \in Nat
    BY <1>3, LenProperties
  <2> QED
    BY <2>1, IsASeq
<1>5. PICK n \in Nat : /\ n = Len(hits) /\ DOMAIN hits = 1..n /\ hits' \in Seq(S \cup {e})
                       /\ DOMAIN hits' = 1..(n + 1) /\ hits'[n + 1] = e
                       /\ \A i \in 1..n : hits'[i] = hits[i]
  BY <1>2, <1>4, AppendProperties, LenProperties
<1>6. SearchShapes'
  BY <1>1, <1>5 DEF SearchInv, SearchShapes
<1>7. \A i \in DOMAIN hits : i \in DOMAIN hits' /\ hits'[i] = hits[i]
  BY <1>5
<1>8. n + 1 \in DOMAIN hits'
  BY <1>5
<1>9. e.job = r.job /\ e.kind = k
  BY <1>2
<1>10. OnItsWay => OnItsWay'
  <2>1. CASE k \in {"done", "error"}
    <3>1. searches' = searches \ {r}
      BY <2>1 DEF Search!Send
    <3> QED
      BY <1>1, <1>5, <1>7, <1>8, <1>9, <2>1, <3>1 DEF OnItsWay
  <2>2. CASE k \notin {"done", "error"}
    <3>1. searches' = searches
      BY <2>2 DEF Search!Send
    <3> QED
      BY <1>1, <1>7, <3>1 DEF OnItsWay
  <2> QED
    BY <2>1, <2>2
<1> QED
  BY <1>1, <1>6, <1>10 DEF SearchInv

\* The event that ends a search ends the waiting.
LEMMA SearchHandles ==
  ASSUME SearchInv, Search!Handle PROVE SearchInv'
<1>1. /\ UNCHANGED <<searchOpen, searchCalls, searches>> /\ hits # <<>> /\ hits' = Tail(hits)
  BY DEF Search!Handle, Search!fields
<1>2. PICK S : hits \in Seq(S)
  BY DEF SearchInv, SearchShapes
<1>3. PICK n \in Nat : n = Len(hits) /\ DOMAIN hits = 1..n
  BY <1>2, LenProperties
<1>4. n # 0
  BY <1>1, <1>2, <1>3, EmptySeq
<1>5. /\ hits' \in Seq(S) /\ DOMAIN hits' = 1..(n - 1) /\ Head(hits) = hits[1]
      /\ \A i \in 1..(n - 1) : hits'[i] = hits[i + 1]
  BY <1>1, <1>2, <1>3, <1>4, HeadTailProperties, LenProperties
<1>6. PICK e : e = hits[1]
  OBVIOUS
<1>7. PICK ends \in BOOLEAN :
        /\ ends = (searchOpen /\ e.job \in searchId /\ e.kind \in {"done", "error"})
        /\ searching' = (searching /\ ~ends) /\ searchId' = IF ends THEN {} ELSE searchId
  BY <1>5, <1>6 DEF Search!Handle
<1>8. SearchShapes'
  BY <1>1, <1>5, <1>7 DEF SearchInv, SearchShapes
<1>9. ASSUME searching, ~ends PROVE OnItsWay'
  <2>1. searchId' = searchId /\ searchOpen /\ OnItsWay
    BY <1>7, <1>9 DEF SearchInv
  <2>2. \A i \in DOMAIN hits : i = 1 \/ (i - 1 \in DOMAIN hits' /\ hits'[i - 1] = hits[i])
    <3> SUFFICES ASSUME NEW i \in 1..n, i # 1 PROVE i - 1 \in 1..(n - 1) /\ hits'[i - 1] = hits[i]
      BY <1>3, <1>5
    <3>1. i - 1 \in 1..(n - 1) /\ (i - 1) + 1 = i
      OBVIOUS
    <3> QED
      BY <1>5, <3>1
  <2>3. ~(e.job \in searchId /\ e.kind \in {"done", "error"})
    BY <1>7, <1>9, <2>1
  <2> QED
    BY <1>1, <1>6, <2>1, <2>2, <2>3 DEF OnItsWay
<1> QED
  BY <1>1, <1>7, <1>8, <1>9 DEF SearchInv

\* A search that fails, or a dialog that closes, ends the waiting.
LEMMA SearchGivesUp ==
  ASSUME SearchInv, Search!Close \/ \E c \in searchCalls : Search!SearchFails(c) PROVE SearchInv'
<1>1. /\ searching' = FALSE /\ searchId' \subseteq searchId /\ UNCHANGED hits
      /\ searchCalls' \subseteq searchCalls
  BY DEF Search!Close, Search!SearchFails, Search!backend
<1>2. SearchShapes'
  BY <1>1 DEF SearchInv, SearchShapes
<1> QED
  BY <1>1, <1>2 DEF SearchInv

\* Every step of the search keeps SearchInv.
LEMMA SearchStep == SearchInv /\ [Search!Next]_ofSearch => SearchInv'
<1> SUFFICES ASSUME SearchInv, [Search!Next]_ofSearch PROVE SearchInv'
  OBVIOUS
<1>1. CASE UNCHANGED ofSearch
  <2>1. UNCHANGED <<searchOpen, searching, searchId, searches, hits, searchCalls>>
    BY <1>1 DEF ofSearch
  <2> QED
    BY <2>1, SearchKept DEF NoSearchAsked
<1>2. CASE Search!TimerFires \/ Search!PressEnter
  <2>1. PICK at : Search!RunSearch({}, at) /\ UNCHANGED <<searchOpen, hits>>
    BY <1>2 DEF Search!TimerFires, Search!PressEnter, Search!fields
  <2> QED
    BY <2>1, SearchRuns
<1>3. ASSUME NEW c \in searchCalls, Search!Replaced(c) PROVE SearchInv'
  <2>1. c.op = "replaceAll" /\ Search!RunSearch({c}, c.at) /\ UNCHANGED <<searchOpen, hits>>
    BY <1>3 DEF Search!Replaced, Search!fields
  <2> QED
    BY <2>1, SearchRuns
<1>4. ASSUME NEW r \in searches, NEW p, NEW k, Search!Send(r, k, p) PROVE SearchInv'
  BY <1>4, SearchSends
<1>5. CASE \E i \in 1..2 : Search!SelectResult(i)
  BY <1>5, SearchGivesUp DEF Search!SelectResult
<1> QED
  BY <1>1, <1>2, <1>3, <1>4, <1>5, SearchFieldsChange, SearchJobIdKnown, SearchStarted, SearchHandles,
     SearchGivesUp DEF Search!Next

\* SearchInv holds in every behaviour of the tools.
LEMMA SearchAlways == ToolsSpec => []SearchInv
<1>1. ToolsInit => SearchInv
  BY SearchStart
<1>2. SearchInv /\ [ToolsNext]_toolsVars => SearchInv'
  BY SearchStep, SearchSteps
<1> QED
  BY <1>1, <1>2, PTL DEF ToolsSpec

-----------------------------------------------------------------------------
\* What the editor waits for: texts on their way, and those that need a password.
Waited == reads \cup prompt \cup busy
\* A text: the file it is of and its version.
IsText(t) == t = [of |-> t.of, n |-> t.n]
\* The window of the editor, by its fields.
IsDesk(d) == d = [open |-> d.open, mode |-> d.mode, file |-> d.file, dirty |-> d.dirty,
                  since |-> d.since]
\* The types of the editor.
TextsTypes ==
  /\ IsDesk(desk) /\ desk.file \subseteq TextFiles /\ (desk.file # {} => desk.open)
  /\ visits \in Nat /\ desk.since \in Int /\ (desk.open => desk.since <= visits)
  /\ \A r \in Waited : r.file \in TextFiles /\ r.visit \in Int /\ r.visit <= visits
  /\ IsText(content) /\ disk = [f \in TextFiles |-> disk[f]] /\ \A f \in TextFiles : IsText(disk[f])
  /\ \A w \in writes : w.file \in TextFiles /\ IsText(w.text)

\* A visit reads one file, once at a time.
VisitsDiffer ==
  /\ \A r, q \in Waited : r.visit = q.visit => r = q
  /\ reads \cap (prompt \cup busy) = {}

\* While the text of the file in the editor is waited for, it is hidden and unchanged.
WaitedIsHidden ==
  \A r \in Waited : Texts!Live(r) =>
    desk.file = {r.file} /\ ~desk.dirty /\ (loading \/ failed)

\* A text that is shown, or was changed, is that of the file in the editor.
ContentIsOfFile ==
  /\ desk.open /\ ~loading /\ ~failed => desk.file = {content.of}
  /\ desk.dirty => desk.open /\ desk.file = {content.of}

\* What every step of the editor keeps.
TextsInv ==
  TextsTypes /\ VisitsDiffer /\ WaitedIsHidden /\ ContentIsOfFile /\ Texts!TextsStayInTheirFile

\* A step of the tools is a step of the editor, or leaves it alone.
LEMMA TextsSteps == [ToolsNext]_toolsVars => [Texts!Next]_ofTexts
BY DEF ToolsNext, toolsVars, ofShells, ofBin, ofFinder, ofMap, ofSearch, ofTexts, ofPrompts, Texts!vars,
       Texts!view, Texts!question

\* The initial states satisfy TextsInv.
LEMMA TextsStart == ToolsInit => TextsInv
<1> SUFFICES ASSUME ToolsInit PROVE TextsInv
  OBVIOUS
<1>1. /\ desk = Texts!Closed /\ content = Texts!Nothing /\ reads = {} /\ writes = {} /\ prompt = {} /\ busy = {}
      /\ disk = [f \in TextFiles |-> Texts!Original(f)] /\ visits = 0
  BY DEF ToolsInit, Texts!Init
<1>2. IsDesk(desk) /\ desk.file = {} /\ desk.open = FALSE /\ desk.dirty = FALSE /\ desk.since = 0
  BY <1>1 DEF Texts!Closed, IsDesk
<1>3. IsText(content) /\ \A f \in TextFiles : IsText(disk[f]) /\ disk[f].of = f
  BY <1>1 DEF Texts!Nothing, Texts!Original, IsText
<1> QED
  BY <1>1, <1>2, <1>3 DEF TextsInv, TextsTypes, VisitsDiffer, WaitedIsHidden, ContentIsOfFile,
     Texts!TextsStayInTheirFile, Waited

\* What keeps the texts, their reads and their visits, and makes nothing dirty.
LEMMA TextsKept ==
  ASSUME TextsInv, UNCHANGED <<content, loading, failed, disk, visits>>, writes' \subseteq writes,
         Waited' \subseteq Waited, reads' \cap (prompt' \cup busy') = {},
         IsDesk(desk'), desk'.open = desk.open, desk'.file = desk.file, desk'.since = desk.since,
         desk'.dirty => desk.dirty
  PROVE TextsInv'
<1>1. TextsTypes'
  BY DEF TextsInv, TextsTypes
<1>2. VisitsDiffer'
  BY DEF TextsInv, VisitsDiffer
<1>3. WaitedIsHidden'
  BY DEF TextsInv, WaitedIsHidden, Texts!Live
<1>4. ContentIsOfFile' /\ Texts!TextsStayInTheirFile'
  BY DEF TextsInv, ContentIsOfFile, Texts!TextsStayInTheirFile
<1> QED
  BY <1>1, <1>2, <1>3, <1>4 DEF TextsInv

\* The desk, kept but for what is said of it.
LEMMA TextsVisit ==
  ASSUME TextsInv, NEW f \in TextFiles, NEW mode, Texts!Visit(f, mode), UNCHANGED <<writes, prompt, busy, disk>>
  PROVE TextsInv'
<1>1. PICK since : since = IF desk.open THEN desk.since ELSE visits + 1
  OBVIOUS
<1>2. desk' = [open |-> TRUE, mode |-> mode, file |-> {f}, dirty |-> FALSE, since |-> since]
  BY <1>1 DEF Texts!Visit
<1>3. /\ IsDesk(desk') /\ desk'.open = TRUE /\ desk'.file = {f} /\ desk'.dirty = FALSE
      /\ desk'.since = since
  BY <1>2 DEF IsDesk
<1>4. CASE desk.file = {f}
  <2>1. UNCHANGED <<content, loading, failed, reads, visits>>
    BY <1>4 DEF Texts!Visit, Texts!view
  <2>2. desk.open
    BY <1>4 DEF TextsInv, TextsTypes
  <2>3. since = desk.since
    BY <1>1, <2>2
  <2>4. TextsTypes'
    BY <1>3, <1>4, <2>1, <2>2, <2>3 DEF TextsInv, TextsTypes, Waited
  <2>5. VisitsDiffer'
    BY <2>1 DEF TextsInv, VisitsDiffer, Waited
  <2>6. WaitedIsHidden'
    BY <1>3, <1>4, <2>1, <2>2 DEF TextsInv, WaitedIsHidden, Waited, Texts!Live
  <2>7. ContentIsOfFile' /\ Texts!TextsStayInTheirFile'
    BY <1>3, <1>4, <2>1, <2>2 DEF TextsInv, ContentIsOfFile, Texts!TextsStayInTheirFile
  <2> QED
    BY <2>4, <2>5, <2>6, <2>7 DEF TextsInv
<1>5. CASE desk.file # {f}
  <2>1. PICK r : r = [file |-> f, visit |-> visits'] /\ reads' = reads \cup {r}
    BY <1>5 DEF Texts!Visit
  <2>2. /\ visits' = visits + 1 /\ loading' = TRUE
        /\ content' = IF desk.open THEN content ELSE Texts!Nothing
    BY <1>5 DEF Texts!Visit
  <2>3. r.file = f /\ r.visit = visits'
    BY <2>1
  <2>4. visits \in Nat /\ \A q \in Waited : q.file \in TextFiles /\ q.visit \in Int /\ q.visit <= visits
    BY DEF TextsInv, TextsTypes
  <2>5. visits' \in Nat /\ \A q \in Waited : q.visit <= visits' /\ q.visit # visits'
    BY <2>2, <2>4
  <2>6. Waited' = Waited \cup {r}
    BY <2>1 DEF Waited
  <2>7. since \in Int /\ since <= visits'
    BY <1>1, <2>2, <2>4 DEF TextsInv, TextsTypes
  <2>8. IsText(content')
    BY <2>2 DEF TextsInv, TextsTypes, IsText, Texts!Nothing
  <2>9. TextsTypes'
    <3>1. \A q \in Waited' : q.file \in TextFiles /\ q.visit \in Int /\ q.visit <= visits'
      BY <2>3, <2>4, <2>5, <2>6
    <3> QED
      BY <1>3, <2>5, <2>7, <2>8, <3>1 DEF TextsInv, TextsTypes
  <2>10. VisitsDiffer'
    <3>1. r \notin prompt \cup busy
      BY <2>3, <2>5 DEF Waited
    <3> QED
      BY <2>1, <2>3, <2>5, <2>6, <3>1 DEF TextsInv, VisitsDiffer
  <2>11. WaitedIsHidden'
    BY <1>3, <2>2, <2>3, <2>5, <2>6 DEF WaitedIsHidden, Texts!Live
  <2>12. ContentIsOfFile' /\ Texts!TextsStayInTheirFile'
    BY <1>3, <2>2 DEF TextsInv, ContentIsOfFile, Texts!TextsStayInTheirFile
  <2> QED
    BY <2>9, <2>10, <2>11, <2>12 DEF TextsInv
<1> QED
  BY <1>4, <1>5

\* The editor closes.
LEMMA TextsLeave ==
  ASSUME TextsInv, Texts!Leave, UNCHANGED <<writes, prompt, busy, disk>> PROVE TextsInv'
<1>1. desk' = Texts!Closed /\ content' = Texts!Nothing /\ UNCHANGED <<reads, visits>>
  BY DEF Texts!Leave
<1>2. IsDesk(desk') /\ desk'.file = {} /\ desk'.open = FALSE /\ desk'.dirty = FALSE /\ desk'.since = 0
  BY <1>1 DEF Texts!Closed, IsDesk
<1>3. IsText(content')
  BY <1>1 DEF Texts!Nothing, IsText
<1>4. TextsTypes'
  BY <1>1, <1>2, <1>3 DEF TextsInv, TextsTypes, Waited
<1>5. VisitsDiffer'
  BY <1>1 DEF TextsInv, VisitsDiffer, Waited
<1>6. WaitedIsHidden' /\ ContentIsOfFile'
  BY <1>2 DEF WaitedIsHidden, ContentIsOfFile, Texts!Live
<1>7. Texts!TextsStayInTheirFile'
  BY <1>1 DEF TextsInv, Texts!TextsStayInTheirFile
<1> QED
  BY <1>4, <1>5, <1>6, <1>7 DEF TextsInv

\* The editor shows the text another way.
LEMMA TextsMode ==
  ASSUME TextsInv, NEW mode, Texts!SetMode(mode), UNCHANGED <<writes, prompt, busy, disk>> PROVE TextsInv'
<1>1. PICK d : d = (mode = "edit" /\ desk.dirty)
  OBVIOUS
<1>2. desk' = [desk EXCEPT !.mode = mode, !.dirty = d] /\ UNCHANGED <<content, loading, failed, reads, visits>>
  BY <1>1 DEF Texts!SetMode, Texts!view
<1>3. /\ IsDesk(desk') /\ desk'.open = desk.open /\ desk'.file = desk.file /\ desk'.since = desk.since
      /\ desk'.dirty = d
  BY <1>2 DEF TextsInv, TextsTypes, IsDesk
<1>4. d => desk.dirty
  BY <1>1
<1>5. Waited' \subseteq Waited /\ reads' \cap (prompt' \cup busy') = {}
  BY <1>2 DEF TextsInv, VisitsDiffer, Waited
<1>6. desk'.dirty => desk.dirty
  BY <1>3, <1>4
<1> QED
  BY <1>2, <1>3, <1>5, <1>6, TextsKept

\* The gestures over the desk.
LEMMA TextsGestures ==
  ASSUME TextsInv,
         \/ \E f \in TextFiles : Texts!OpenWorkspace(f) \/ Texts!SelectResult(f) \/ Texts!OpenFile(f)
         \/ Texts!RequestClose \/ Texts!ShowDiff \/ Texts!ShowEdit \/ Texts!DiscardAndContinue
         \/ Texts!CancelConfirm \/ Texts!SubmitPassword \/ Texts!ClosePrompt
         \/ \E r \in busy : Texts!PasswordRefused(r)
         \/ \E w \in writes : Texts!SaveFails(w)
  PROVE TextsInv'
<1>1. IsDesk(desk) /\ reads \cap (prompt \cup busy) = {}
  BY DEF TextsInv, TextsTypes, VisitsDiffer
<1>2. ASSUME UNCHANGED <<desk, content, loading, failed, reads, disk, visits>>, writes' \subseteq writes,
             prompt' \cup busy' \subseteq prompt \cup busy
      PROVE TextsInv'
  <2>1. Waited' \subseteq Waited /\ reads' \cap (prompt' \cup busy') = {}
    BY <1>1, <1>2 DEF Waited
  <2> QED
    BY <1>1, <1>2, <2>1, TextsKept
<1>3. \/ \E f \in TextFiles : \E mode : Texts!Visit(f, mode) /\ UNCHANGED <<writes, prompt, busy, disk>>
      \/ Texts!Leave /\ UNCHANGED <<writes, prompt, busy, disk>>
      \/ \E mode : Texts!SetMode(mode) /\ UNCHANGED <<writes, prompt, busy, disk>>
      \/ /\ UNCHANGED <<desk, content, loading, failed, reads, disk, visits>> /\ writes' \subseteq writes
         /\ prompt' \cup busy' \subseteq prompt \cup busy
  <2>1. ASSUME NEW f \in TextFiles, Texts!OpenWorkspace(f) \/ Texts!SelectResult(f) \/ Texts!OpenFile(f)
        PROVE <1>3
    BY <2>1 DEF Texts!OpenWorkspace, Texts!SelectResult, Texts!OpenFile, Texts!Ask, Texts!question, Texts!view
  <2>2. CASE Texts!RequestClose
    BY <2>2 DEF Texts!RequestClose, Texts!Ask, Texts!question, Texts!view
  <2>3. CASE Texts!ShowDiff \/ Texts!ShowEdit
    BY <2>3 DEF Texts!ShowDiff, Texts!ShowEdit, Texts!Ask, Texts!question, Texts!view
  <2>4. CASE Texts!DiscardAndContinue
    BY <2>4 DEF Texts!DiscardAndContinue, Texts!question
  <2>5. CASE Texts!CancelConfirm \/ Texts!SubmitPassword \/ Texts!ClosePrompt
    BY <2>5 DEF Texts!CancelConfirm, Texts!SubmitPassword, Texts!ClosePrompt, Texts!question, Texts!view
  <2>6. CASE \E r \in busy : Texts!PasswordRefused(r)
    BY <2>6 DEF Texts!PasswordRefused, Texts!view
  <2>7. CASE \E w \in writes : Texts!SaveFails(w)
    BY <2>7 DEF Texts!SaveFails, Texts!question, Texts!view
  <2> QED
    BY <2>1, <2>2, <2>3, <2>4, <2>5, <2>6, <2>7
<1> QED
  BY <1>2, <1>3, TextsVisit, TextsLeave, TextsMode

\* A text that is shown is of the file in the editor; nothing else waits for it then.
LEMMA TextsRead ==
  ASSUME TextsInv, NEW r \in reads, Texts!Read(r) \/ Texts!ReadFails(r) PROVE TextsInv'
<1>1. /\ reads' = reads \ {r} /\ UNCHANGED <<writes, busy, disk, visits>> /\ prompt' \subseteq prompt \cup {r}
      /\ r \in Waited /\ r \notin prompt \cup busy
  BY DEF Texts!Read, Texts!ReadFails, Texts!question, Waited, TextsInv, VisitsDiffer
<1>2. /\ Waited' \subseteq Waited /\ reads' \cap (prompt' \cup busy') = {}
  BY <1>1 DEF Waited, TextsInv, VisitsDiffer
<1>3. VisitsDiffer'
  BY <1>2 DEF TextsInv, VisitsDiffer
<1>4. IsDesk(desk) /\ r.file \in TextFiles
  BY <1>1 DEF TextsInv, TextsTypes
<1>5. CASE ~Texts!Live(r)
  <2>1. UNCHANGED <<desk, content, loading, failed>>
    BY <1>5 DEF Texts!Read, Texts!ReadFails, Texts!view
  <2> QED
    BY <1>1, <1>2, <1>4, <2>1, TextsKept
<1>6. CASE Texts!Live(r) /\ Texts!Read(r)
  <2>1. /\ content' = disk[r.file] /\ loading' = FALSE /\ desk' = [desk EXCEPT !.dirty = FALSE]
        /\ prompt' = prompt
    BY <1>6 DEF Texts!Read, Texts!Show, Texts!question
  <2>2. /\ IsDesk(desk') /\ desk'.open = desk.open /\ desk'.file = desk.file /\ desk'.since = desk.since
        /\ desk'.dirty = FALSE
    BY <1>4, <2>1 DEF IsDesk
  <2>3. desk.file = {r.file} /\ disk[r.file].of = r.file /\ IsText(disk[r.file])
    BY <1>1, <1>4, <1>6 DEF TextsInv, TextsTypes, WaitedIsHidden, Texts!TextsStayInTheirFile
  <2>4. \A q \in Waited' : ~Texts!Live(q)'
    <3>1. \A q \in Waited' : q # r
      BY <1>1, <2>1 DEF Waited
    <3> QED
      BY <1>1, <1>2, <1>6, <3>1 DEF TextsInv, VisitsDiffer, Texts!Live
  <2>5. TextsTypes'
    BY <1>1, <1>2, <2>1, <2>2, <2>3 DEF TextsInv, TextsTypes
  <2>6. WaitedIsHidden' /\ ContentIsOfFile'
    BY <2>1, <2>2, <2>3, <2>4 DEF WaitedIsHidden, ContentIsOfFile
  <2>7. Texts!TextsStayInTheirFile'
    BY <1>1 DEF TextsInv, Texts!TextsStayInTheirFile
  <2> QED
    BY <1>3, <2>5, <2>6, <2>7 DEF TextsInv
<1>7. CASE Texts!Live(r) /\ Texts!ReadFails(r)
  <2>1. content' = Texts!Nothing /\ failed' = TRUE /\ UNCHANGED desk
    BY <1>7 DEF Texts!ReadFails, Texts!Show
  <2>2. IsText(content')
    BY <2>1 DEF Texts!Nothing, IsText
  <2>3. TextsTypes'
    BY <1>1, <1>2, <2>1, <2>2 DEF TextsInv, TextsTypes
  <2>4. ~desk.dirty
    BY <1>1, <1>7 DEF TextsInv, WaitedIsHidden
  <2>5. WaitedIsHidden' /\ ContentIsOfFile'
    BY <1>1, <1>2, <2>1, <2>4 DEF TextsInv, WaitedIsHidden, ContentIsOfFile, Texts!Live
  <2>6. Texts!TextsStayInTheirFile'
    BY <1>1 DEF TextsInv, Texts!TextsStayInTheirFile
  <2> QED
    BY <1>3, <2>3, <2>5, <2>6 DEF TextsInv
<1> QED
  BY <1>5, <1>6, <1>7

\* With its password a text is waited for again.
LEMMA TextsPassword ==
  ASSUME TextsInv, NEW r \in busy, Texts!PasswordTaken(r) PROVE TextsInv'
<1>1. /\ UNCHANGED <<desk, content, writes, disk, visits>> /\ r \in Waited
      /\ busy' = busy \ {r} /\ prompt' = {} /\ reads' = reads \cup {r}
  BY DEF Texts!PasswordTaken, Waited
<1>2. Waited' \subseteq Waited
  BY <1>1 DEF Waited
<1>3. TextsTypes'
  BY <1>1, <1>2 DEF TextsInv, TextsTypes
<1>4. VisitsDiffer'
  <2>1. reads' \cap (prompt' \cup busy') = {}
    BY <1>1 DEF TextsInv, VisitsDiffer
  <2> QED
    BY <1>2, <2>1 DEF TextsInv, VisitsDiffer
<1>5. CASE desk.open /\ r.visit >= desk.since
  <2>1. loading' = TRUE
    BY <1>5 DEF Texts!PasswordTaken
  <2> QED
    BY <1>1, <1>2, <1>3, <1>4, <2>1
    DEF TextsInv, WaitedIsHidden, ContentIsOfFile, Texts!Live, Texts!TextsStayInTheirFile
<1>6. CASE ~(desk.open /\ r.visit >= desk.since)
  <2>1. UNCHANGED <<loading, failed>>
    BY <1>6 DEF Texts!PasswordTaken
  <2> QED
    BY <1>1, <1>2, <1>3, <1>4, <2>1
    DEF TextsInv, WaitedIsHidden, ContentIsOfFile, Texts!Live, Texts!TextsStayInTheirFile
<1> QED
  BY <1>5, <1>6

\* Typing changes the text shown.
LEMMA TextsType == ASSUME TextsInv, Texts!Type PROVE TextsInv'
<1>1. /\ desk.open /\ ~loading /\ ~failed /\ UNCHANGED <<loading, failed, reads, writes, prompt, busy, disk, visits>>
      /\ content' = [content EXCEPT !.n = edits'] /\ desk' = [desk EXCEPT !.dirty = TRUE]
  BY DEF Texts!Type, Texts!question
<1>2. /\ IsDesk(desk') /\ desk'.open = desk.open /\ desk'.file = desk.file /\ desk'.since = desk.since
      /\ desk'.dirty = TRUE
  BY <1>1 DEF TextsInv, TextsTypes, IsDesk
<1>3. IsText(content') /\ content'.of = content.of
  BY <1>1 DEF TextsInv, TextsTypes, IsText
<1>4. TextsTypes'
  BY <1>1, <1>2, <1>3 DEF TextsInv, TextsTypes, Waited
<1>5. VisitsDiffer'
  BY <1>1 DEF TextsInv, VisitsDiffer, Waited
<1>6. \A r \in Waited' : ~Texts!Live(r)'
  BY <1>1, <1>2 DEF TextsInv, WaitedIsHidden, Waited, Texts!Live
<1>7. WaitedIsHidden' /\ ContentIsOfFile'
  BY <1>1, <1>2, <1>3, <1>6 DEF TextsInv, WaitedIsHidden, ContentIsOfFile
<1>8. Texts!TextsStayInTheirFile'
  BY <1>1 DEF TextsInv, Texts!TextsStayInTheirFile
<1> QED
  BY <1>4, <1>5, <1>7, <1>8 DEF TextsInv

\* Save sends the text shown for the file open.
LEMMA TextsSave == ASSUME TextsInv, Texts!Save PROVE TextsInv'
<1>1. /\ desk.dirty /\ UNCHANGED <<desk, content, loading, failed, reads, prompt, busy, disk, visits>>
      /\ writes' = writes \cup {[file |-> f, text |-> content] : f \in desk.file}
  BY DEF Texts!Save, Texts!Dirty, Texts!question, Texts!view
<1>2. desk.file = {content.of} /\ content.of \in TextFiles /\ IsText(content)
  BY <1>1 DEF TextsInv, TextsTypes, ContentIsOfFile
<1>3. \A w \in writes' : w \in writes \/ (w.file = content.of /\ w.text = content)
  BY <1>1, <1>2
<1>4. TextsTypes'
  BY <1>1, <1>2, <1>3 DEF TextsInv, TextsTypes, Waited
<1>5. VisitsDiffer' /\ WaitedIsHidden' /\ ContentIsOfFile'
  BY <1>1 DEF TextsInv, VisitsDiffer, WaitedIsHidden, ContentIsOfFile, Waited, Texts!Live
<1>6. Texts!TextsStayInTheirFile'
  BY <1>1, <1>3 DEF TextsInv, Texts!TextsStayInTheirFile
<1> QED
  BY <1>4, <1>5, <1>6 DEF TextsInv

\* A save ends: the file holds the text sent.
LEMMA TextsSaved == ASSUME TextsInv, NEW w \in writes, Texts!Saved(w) PROVE TextsInv'
<1>1. /\ writes' = writes \ {w} /\ disk' = [disk EXCEPT ![w.file] = w.text]
      /\ desk' = [desk EXCEPT !.dirty = FALSE]
      /\ UNCHANGED <<content, loading, failed, reads, prompt, busy, visits>>
  BY DEF Texts!Saved, Texts!question, Texts!view
<1>2. /\ IsDesk(desk') /\ desk'.open = desk.open /\ desk'.file = desk.file /\ desk'.since = desk.since
      /\ desk'.dirty = FALSE
  BY <1>1 DEF TextsInv, TextsTypes, IsDesk
<1>3. w.file \in TextFiles /\ IsText(w.text) /\ w.text.of = w.file
  BY DEF TextsInv, TextsTypes, Texts!TextsStayInTheirFile
<1>4. disk' = [f \in TextFiles |-> IF f = w.file THEN w.text ELSE disk[f]]
  BY <1>1 DEF TextsInv, TextsTypes
<1>5. TextsTypes'
  BY <1>1, <1>2, <1>3, <1>4 DEF TextsInv, TextsTypes, Waited
<1>6. VisitsDiffer' /\ WaitedIsHidden' /\ ContentIsOfFile'
  BY <1>1, <1>2 DEF TextsInv, VisitsDiffer, WaitedIsHidden, ContentIsOfFile, Waited, Texts!Live
<1>7. Texts!TextsStayInTheirFile'
  BY <1>1, <1>3, <1>4 DEF TextsInv, Texts!TextsStayInTheirFile
<1> QED
  BY <1>5, <1>6, <1>7 DEF TextsInv

\* Every step of the editor keeps TextsInv.
LEMMA TextsStep == TextsInv /\ [Texts!Next]_ofTexts => TextsInv'
<1> SUFFICES ASSUME TextsInv, [Texts!Next]_ofTexts PROVE TextsInv'
  OBVIOUS
<1>1. CASE UNCHANGED ofTexts
  <2>1. UNCHANGED <<desk, content, loading, failed, reads, writes, prompt, busy, disk, visits>>
    BY <1>1 DEF ofTexts
  <2>2. Waited' \subseteq Waited /\ reads' \cap (prompt' \cup busy') = {} /\ IsDesk(desk')
    BY <2>1 DEF TextsInv, TextsTypes, VisitsDiffer, Waited, IsDesk
  <2> QED
    BY <2>1, <2>2, TextsKept
<1> QED
  BY <1>1, TextsGestures, TextsRead, TextsPassword, TextsType, TextsSave, TextsSaved DEF Texts!Next

\* TextsInv holds in every behaviour of the tools.
LEMMA TextsAlways == ToolsSpec => []TextsInv
<1>1. ToolsInit => TextsInv
  BY TextsStart
<1>2. TextsInv /\ [ToolsNext]_toolsVars => TextsInv'
  BY TextsStep, TextsSteps
<1> QED
  BY <1>1, <1>2, PTL DEF ToolsSpec

-----------------------------------------------------------------------------
\* What is typed in a prompt is for its vault.
IsPrompt(d) == d = [mode |-> d.mode, path |-> d.path, pane |-> d.pane, typed |-> d.typed,
                    mount |-> d.mount, failed |-> d.failed]
\* A call for a vault or an image, by its fields.
IsVaultCall(c) == c = [op |-> c.op, id |-> c.id, path |-> c.path, pane |-> c.pane,
                       mount |-> c.mount, password |-> c.password]
\* What every step of the prompts keeps.
PromptsInv ==
  /\ IsPrompt(vaultPrompt) /\ vaultPrompt.typed \subseteq {vaultPrompt.path}
  /\ \A c \in vaultCalls : IsVaultCall(c)
  /\ Prompts!VaultPasswordsStayTheirs

\* A step of the tools is a step of the prompts, or leaves them alone.
LEMMA PromptsSteps == [ToolsNext]_toolsVars => [Prompts!Next]_ofPrompts
BY DEF ToolsNext, toolsVars, ofShells, ofBin, ofFinder, ofMap, ofSearch, ofTexts, ofPrompts, Prompts!vars,
       Prompts!prompts, Prompts!backend

\* The initial states satisfy PromptsInv.
LEMMA PromptsStart == ToolsInit => PromptsInv
<1> SUFFICES ASSUME ToolsInit PROVE PromptsInv
  OBVIOUS
<1>1. vaultPrompt = Prompts!NoDialog /\ vaultCalls = {}
  BY DEF ToolsInit, Prompts!Init
<1>2. IsPrompt(vaultPrompt) /\ vaultPrompt.typed = {}
  BY <1>1 DEF Prompts!NoDialog, IsPrompt
<1> QED
  BY <1>1, <1>2 DEF PromptsInv, Prompts!VaultPasswordsStayTheirs

\* What sends no password leaves the prompt as it is, or open for another vault and empty.
LEMMA PromptsKept ==
  ASSUME PromptsInv, IsPrompt(vaultPrompt'), vaultPrompt'.typed \subseteq {vaultPrompt'.path},
         \A c \in vaultCalls' : \/ c \in vaultCalls
                                \/ IsVaultCall(c) /\ c.op \notin {"lock", "unlock", "remove"}
  PROVE PromptsInv'
BY DEF PromptsInv, Prompts!VaultPasswordsStayTheirs

\* A call for a disk image, or a call that goes on, is none of a vault's.
LEMMA PromptsOthers ==
  ASSUME PromptsInv,
         \/ \E i \in Images, p \in Prompts!Panes : Prompts!OpenImage(i, p)
         \/ Prompts!SubmitImage
         \/ \E c \in vaultCalls : Prompts!JobBegins(c) \/ Prompts!NotEncrypted(c)
  PROVE PromptsInv'
<1>1. vaultPrompt' = vaultPrompt
  BY DEF Prompts!OpenImage, Prompts!SubmitImage, Prompts!JobBegins, Prompts!NotEncrypted, Prompts!prompts
<1>2. IsPrompt(vaultPrompt) /\ vaultPrompt.typed \subseteq {vaultPrompt.path}
  BY DEF PromptsInv
<1>3. ASSUME NEW op \in {"isEncrypted", "attach"}, NEW path, NEW pane, NEW password,
             Prompts!Call(op, path, pane, 0, password)
      PROVE \A c \in vaultCalls' : \/ c \in vaultCalls
                                   \/ IsVaultCall(c) /\ c.op \notin {"lock", "unlock", "remove"}
  <2>1. PICK d : /\ d = [op |-> op, id |-> made', path |-> path, pane |-> pane, mount |-> 0,
                         password |-> password]
                 /\ vaultCalls' = vaultCalls \cup {d}
    BY <1>3 DEF Prompts!Call
  <2>2. IsVaultCall(d) /\ d.op = op
    BY <2>1 DEF IsVaultCall
  <2> QED
    BY <2>1, <2>2
<1>4. ASSUME NEW c \in vaultCalls, Prompts!JobBegins(c) \/ Prompts!NotEncrypted(c)
      PROVE \A e \in vaultCalls' : \/ e \in vaultCalls
                                   \/ IsVaultCall(e) /\ e.op \notin {"lock", "unlock", "remove"}
  <2>1. PICK d : /\ d = [c EXCEPT !.op = "job"] \/ d = [c EXCEPT !.op = "attach"]
                 /\ vaultCalls' = (vaultCalls \ {c}) \cup {d}
    BY <1>4 DEF Prompts!JobBegins, Prompts!NotEncrypted
  <2>2. IsVaultCall(c)
    BY DEF PromptsInv
  <2>3. IsVaultCall(d) /\ d.op \in {"job", "attach"}
    BY <2>1, <2>2 DEF IsVaultCall
  <2> QED
    BY <2>1, <2>3
<1>5. \A e \in vaultCalls' : \/ e \in vaultCalls
                             \/ IsVaultCall(e) /\ e.op \notin {"lock", "unlock", "remove"}
  BY <1>3, <1>4 DEF Prompts!OpenImage, Prompts!SubmitImage
<1> QED
  BY <1>1, <1>2, <1>5, PromptsKept

\* A password is sent for the vault of the prompt it was typed in.
LEMMA PromptsSubmit == ASSUME PromptsInv, Prompts!Submit PROVE PromptsInv'
<1>1. PICK d : /\ d = [op |-> vaultPrompt.mode, id |-> made', path |-> vaultPrompt.path,
                       pane |-> vaultPrompt.pane, mount |-> vaultPrompt.mount,
                       password |-> vaultPrompt.typed]
               /\ vaultCalls' = vaultCalls \cup {d}
  BY DEF Prompts!Submit, Prompts!Call
<1>2. IsVaultCall(d) /\ d.path = vaultPrompt.path /\ d.password = vaultPrompt.typed
  BY <1>1 DEF IsVaultCall
<1>3. d.password = {d.path}
  BY <1>2 DEF Prompts!Submit, PromptsInv
<1>4. vaultPrompt' = [vaultPrompt EXCEPT !.failed = FALSE]
  BY DEF Prompts!Submit
<1>5. IsPrompt(vaultPrompt') /\ vaultPrompt'.typed \subseteq {vaultPrompt'.path}
  BY <1>4 DEF PromptsInv, IsPrompt
<1> QED
  BY <1>1, <1>2, <1>3, <1>5 DEF PromptsInv, Prompts!VaultPasswordsStayTheirs

\* What becomes of the prompt: a new one is empty.
LEMMA PromptsShown ==
  ASSUME PromptsInv,
         \/ \E m \in {"lock", "unlock", "remove"}, q \in VaultPaths, p \in Prompts!Panes : Prompts!OpenPrompt(m, q, p)
         \/ Prompts!TypePassword \/ Prompts!ClosePrompt
         \/ \E c \in vaultCalls : Prompts!JobShown(c) \/ Prompts!Unlocked(c) \/ Prompts!PromptFails(c)
  PROVE PromptsInv'
<1>1. vaultCalls' \subseteq vaultCalls
  BY DEF Prompts!OpenPrompt, Prompts!TypePassword, Prompts!ClosePrompt, Prompts!JobShown,
         Prompts!Unlocked, Prompts!PromptFails
<1>2. IsPrompt(vaultPrompt) /\ vaultPrompt.typed \subseteq {vaultPrompt.path}
  BY DEF PromptsInv
<1>3. IsPrompt(vaultPrompt') /\ vaultPrompt'.typed \subseteq {vaultPrompt'.path}
  <2>1. ASSUME NEW m, NEW q, NEW p, Prompts!OpenPrompt(m, q, p) PROVE <1>3
    <3>1. PICK k : k = Prompts!NoDialog
      OBVIOUS
    <3>2. IsPrompt(k) /\ k.typed = {}
      BY <3>1 DEF Prompts!NoDialog, IsPrompt
    <3>3. vaultPrompt' = [k EXCEPT !.mode = m, !.path = q, !.pane = p, !.mount = mounts']
      BY <2>1, <3>1 DEF Prompts!OpenPrompt
    <3> QED
      BY <3>2, <3>3 DEF IsPrompt
  <2>2. CASE Prompts!TypePassword
    BY <1>2, <2>2 DEF Prompts!TypePassword, IsPrompt
  <2>3. CASE vaultPrompt' = Prompts!Shut
    BY <1>2, <2>3 DEF Prompts!Shut, IsPrompt
  <2>4. CASE UNCHANGED vaultPrompt
    BY <1>2, <2>4
  <2>5. CASE vaultPrompt' = [vaultPrompt EXCEPT !.failed = TRUE]
    BY <1>2, <2>5 DEF IsPrompt
  <2> QED
    BY <2>1, <2>2, <2>3, <2>4, <2>5
    DEF Prompts!ClosePrompt, Prompts!JobShown, Prompts!Unlocked, Prompts!PromptFails
<1> QED
  BY <1>1, <1>3, PromptsKept

\* Every step of the prompts keeps PromptsInv.
LEMMA PromptsStep == PromptsInv /\ [Prompts!Next]_ofPrompts => PromptsInv'
<1> SUFFICES ASSUME PromptsInv, [Prompts!Next]_ofPrompts PROVE PromptsInv'
  OBVIOUS
<1>1. CASE UNCHANGED vaultPrompt /\ vaultCalls' \subseteq vaultCalls
  BY <1>1, PromptsKept DEF PromptsInv
<1>2. CASE \/ UNCHANGED ofPrompts
           \/ \E c \in vaultCalls : Prompts!IsEncrypted(c) \/ Prompts!Attached(c) \/ Prompts!NeedsPassword(c) \/ Prompts!CallFails(c)
           \/ (\E id \in vaultJobs : Prompts!JobEnds(id)) \/ Prompts!VaultProgress
           \/ (\E p \in Prompts!Panes : Prompts!CancelJob(p))
           \/ Prompts!TypeImagePassword \/ Prompts!CloseImage
  <2>1. UNCHANGED vaultPrompt /\ vaultCalls' \subseteq vaultCalls
    BY <1>2 DEF ofPrompts, Prompts!IsEncrypted, Prompts!Prompt, Prompts!Attached, Prompts!NeedsPassword,
       Prompts!CallFails, Prompts!JobEnds, Prompts!VaultProgress, Prompts!CancelJob,
       Prompts!TypeImagePassword, Prompts!CloseImage, Prompts!prompts
  <2> QED
    BY <1>1, <2>1
<1> QED
  BY <1>2, PromptsOthers, PromptsSubmit, PromptsShown DEF Prompts!Next

\* PromptsInv holds in every behaviour of the tools.
LEMMA PromptsAlways == ToolsSpec => []PromptsInv
<1>1. ToolsInit => PromptsInv
  BY PromptsStart
<1>2. PromptsInv /\ [ToolsNext]_toolsVars => PromptsInv'
  BY PromptsStep, PromptsSteps
<1> QED
  BY <1>1, <1>2, PTL DEF ToolsSpec

-----------------------------------------------------------------------------
\* What is told of a scan was found by it.
IsFinderCall(c) == c = [op |-> c.op, arg |-> c.arg, mine |-> c.mine]
\* What every step of the finder keeps.
FinderInv ==
  /\ found = [j \in Scans |-> found[j]] /\ scan \in Scans \cup {0}
  /\ \A c \in finderCalls : IsFinderCall(c) /\ (c.op = "start" => c.arg \in Scans)
  /\ \A e \in finds : e.job \in Scans /\ e.hashes \subseteq found[e.job]
  /\ Finder!EstimateIsForThisSetup /\ Finder!GroupsAreOfThisScan

\* A step of the tools is a step of the finder, or leaves it alone.
LEMMA FinderSteps == [ToolsNext]_toolsVars => [Finder!Next]_ofFinder
BY DEF ToolsNext, toolsVars, ofShells, ofBin, ofFinder, ofMap, ofSearch, ofTexts, ofPrompts, Finder!vars,
       Finder!form, Finder!review, Finder!backend

\* The initial states satisfy FinderInv.
LEMMA FinderStart == ToolsInit => FinderInv
<1> SUFFICES ASSUME ToolsInit PROVE FinderInv
  OBVIOUS
<1>1. /\ estimate = {} /\ keep = <<>> /\ finderCalls = {} /\ scan = 0 /\ finds = {}
      /\ found = [j \in Scans |-> {}]
  BY DEF ToolsInit, Finder!Init
<1> QED
  BY <1>1 DEF FinderInv, Finder!EstimateIsForThisSetup, Finder!GroupsAreOfThisScan, Finder!Shown

\* No scan begins without a number: the calls of the views.
FinderCallsKept ==
  \A c \in finderCalls' : IsFinderCall(c) /\ (c.op = "start" => c.arg \in Scans)

\* A gesture adds calls of the finder only.
LEMMA FinderTurn ==
  ASSUME FinderInv, NEW d, NEW p, NEW cs, Finder!Turn(d, p, cs),
         \A c \in cs : IsFinderCall(c) /\ (c.op = "start" => c.arg \in Scans)
  PROVE FinderCallsKept
<1>1. \A c \in Finder!Forget(cs) : IsFinderCall(c) /\ (c.op = "start" => c.arg \in Scans)
  <2> SUFFICES ASSUME NEW e \in cs, NEW k, k = [e EXCEPT !.mine = FALSE]
               PROVE IsFinderCall(k) /\ (k.op = "start" => k.arg \in Scans)
    BY DEF Finder!Forget
  <2>1. IsFinderCall(e)
    OBVIOUS
  <2>2. IsFinderCall(k) /\ k.op = e.op /\ k.arg = e.arg
    BY <2>1 DEF IsFinderCall
  <2> QED
    BY <2>2
<1> QED
  BY <1>1 DEF Finder!Turn, FinderCallsKept

\* A call that begins no scan names none.
LEMMA FinderCall ==
  ASSUME NEW op, op # "start", NEW arg PROVE IsFinderCall(Finder!Call(op, arg)) /\ Finder!Call(op, arg).op # "start"
BY DEF Finder!Call, IsFinderCall

\* The calls of every step.
LEMMA FinderCallsStep == ASSUME FinderInv, Finder!Next PROVE FinderCallsKept
<1> DEFINE Fine(cs) == \A c \in cs : IsFinderCall(c) /\ (c.op = "start" => c.arg \in Scans)
<1>1. Fine(finderCalls)
  BY DEF FinderInv
<1>2. ASSUME NEW d, NEW p, NEW cs \in SUBSET finderCalls, Finder!Turn(d, p, cs) PROVE FinderCallsKept
  BY <1>1, <1>2, FinderTurn
<1>3. ASSUME finderCalls' \subseteq finderCalls PROVE FinderCallsKept
  BY <1>1, <1>3 DEF FinderCallsKept
<1>4. ASSUME NEW op, op # "start", NEW arg, Finder!Send(op, arg) PROVE FinderCallsKept
  <2>1. PICK k : k = Finder!Call(op, arg)
    OBVIOUS
  <2>2. IsFinderCall(k) /\ k.op # "start"
    BY <1>4, <2>1, FinderCall
  <2> QED
    BY <1>1, <1>4, <2>1, <2>2 DEF Finder!Send, FinderCallsKept
<1>5. ASSUME NEW cost, Finder!MountSetup(cost) PROVE FinderCallsKept
  <2>1. PICK k : k = Finder!Call("estimate", cost)
    OBVIOUS
  <2>2. IsFinderCall(k) /\ k.op # "start"
    BY <2>1, FinderCall
  <2>3. \A c \in Finder!Forget(finderCalls) : IsFinderCall(c) /\ (c.op = "start" => c.arg \in Scans)
    <3> SUFFICES ASSUME NEW e \in finderCalls, NEW m, m = [e EXCEPT !.mine = FALSE]
                 PROVE IsFinderCall(m) /\ (m.op = "start" => m.arg \in Scans)
      BY DEF Finder!Forget
    <3>1. IsFinderCall(e) /\ (e.op = "start" => e.arg \in Scans)
      BY <1>1
    <3>2. IsFinderCall(m) /\ m.op = e.op /\ m.arg = e.arg
      BY <3>1 DEF IsFinderCall
    <3> QED
      BY <3>1, <3>2
  <2> QED
    BY <1>5, <2>1, <2>2, <2>3 DEF Finder!MountSetup, FinderCallsKept
<1>6. ASSUME NEW c \in finderCalls, Finder!GotJob(c) PROVE FinderCallsKept
  <2>1. PICK n, k : /\ n \in Scans /\ k = [c EXCEPT !.op = "start", !.arg = n]
                    /\ Finder!Turn(finder, "running", (finderCalls \ {c}) \cup {k})
    BY <1>6 DEF Finder!GotJob
  <2>5. IsFinderCall(c)
    BY <1>1
  <2>6. k = [c EXCEPT !.op = "start", !.arg = n]
    BY <2>1
  <2>2. IsFinderCall(k) /\ k.arg = n
    BY <2>5, <2>6 DEF IsFinderCall
  <2>3. PICK cs : cs = (finderCalls \ {c}) \cup {k} /\ Finder!Turn(finder, "running", cs)
    BY <2>1
  <2>4. Fine(cs)
    BY <1>1, <2>1, <2>2, <2>3
  <2> QED
    BY <2>3, <2>4, FinderTurn
<1> HIDE DEF Fine
<1>7. ASSUME Finder!Gestures PROVE FinderCallsKept
  <2>1. CASE \E cost \in Costs : Finder!OpenSetup(cost)
    BY <1>5, <2>1 DEF Finder!OpenSetup
  <2>2. CASE Finder!BackToSetup
    BY <1>5, <2>2 DEF Finder!BackToSetup
  <2>3. CASE Finder!Resume \/ Finder!CloseDialog \/ Finder!Discard \/ Finder!Merge \/ Finder!CancelMerge
             \/ Finder!CloseDone
    BY <1>2, <2>3 DEF Finder!Resume, Finder!CloseDialog, Finder!Discard, Finder!Merge,
       Finder!CancelMerge, Finder!CloseDone
  <2>4. CASE Finder!AskEstimate \/ Finder!Start \/ Finder!Restart \/ Finder!ConfirmMerge \/ Finder!Undo
    BY <1>4, <2>4 DEF Finder!AskEstimate, Finder!Start, Finder!Restart, Finder!ConfirmMerge, Finder!Undo
  <2>5. CASE \/ \E new \in [cost : Costs, pct : Pcts] : Finder!PatchSetup(new)
             \/ \E h \in Finder!Shown : \E f \in FilesOf[h] : Finder!SetKeep(h, f) \/ Finder!ToggleChecked(h, f)
    BY <1>3, <2>5 DEF Finder!PatchSetup, Finder!SetKeep, Finder!ToggleChecked
  <2>6. CASE Finder!CancelScan
    BY <1>2, <1>3, <2>6 DEF Finder!CancelScan, Finder!FailRunning
  <2> QED
    BY <1>7, <2>1, <2>2, <2>3, <2>4, <2>5, <2>6 DEF Finder!Gestures
<1>8. ASSUME NEW c \in finderCalls,
             \/ Finder!Estimated(c) \/ Finder!EstimateFails(c) \/ Finder!Started(c) \/ Finder!UndoFails(c)
      PROVE FinderCallsKept
  BY <1>3, <1>8 DEF Finder!Estimated, Finder!EstimateFails, Finder!Started, Finder!UndoFails
<1>9. ASSUME NEW c \in finderCalls,
             Finder!StartFails(c) \/ Finder!Merged(c) \/ Finder!MergeFails(c) \/ Finder!Undone(c)
      PROVE FinderCallsKept
  BY <1>2, <1>9 DEF Finder!StartFails, Finder!FailRunning, Finder!Merged, Finder!MergeFails, Finder!Undone
<1>10. ASSUME Finder!Scan PROVE FinderCallsKept
  <2>1. CASE (\E h \in Hashes : Finder!Find(h)) \/ \E fatal \in BOOLEAN : Finder!ScanEnds(fatal)
    BY <1>3, <2>1 DEF Finder!Find, Finder!ScanEnds
  <2>2. CASE \E e \in finds : Finder!Handle(e)
    BY <1>2, <1>3, <2>2 DEF Finder!Handle
  <2> QED
    BY <1>10, <2>1, <2>2 DEF Finder!Scan
<1> QED
  BY <1>6, <1>7, <1>8, <1>9, <1>10 DEF Finder!Next, Finder!Answers

\* What is found, told and shown of a scan stays; a list that is emptied is of any.
LEMMA FinderKept ==
  ASSUME FinderInv, UNCHANGED <<scan, found>>, FinderCallsKept, finds' \subseteq finds,
         Finder!EstimateIsForThisSetup',
         \/ DOMAIN keep' = DOMAIN keep /\ UNCHANGED scanId
         \/ keep' = <<>>
  PROVE FinderInv'
<1>1. Finder!GroupsAreOfThisScan'
  BY DEF FinderInv, Finder!GroupsAreOfThisScan, Finder!Shown
<1> QED
  BY <1>1 DEF FinderInv, FinderCallsKept

\* What is chosen, ticked and pressed.
LEMMA FinderGestures == ASSUME FinderInv, FinderCallsKept, Finder!Gestures PROVE FinderInv'
<1>1. UNCHANGED <<scan, found, finds>>
  BY DEF Finder!Gestures, Finder!OpenSetup, Finder!Resume, Finder!CloseDialog, Finder!PatchSetup,
     Finder!AskEstimate, Finder!Start, Finder!Restart, Finder!CancelScan, Finder!Discard, Finder!SetKeep,
     Finder!ToggleChecked, Finder!BackToSetup, Finder!Merge, Finder!CancelMerge, Finder!ConfirmMerge,
     Finder!Undo, Finder!CloseDone, Finder!backend
<1>2. \/ Finder!Idle
      \/ UNCHANGED <<scanId, setup, estimate>>
      \/ UNCHANGED <<scanId, keep>> /\ \E new : setup' = new /\ estimate' = Finder!StillFor(new)
  BY DEF Finder!Gestures, Finder!OpenSetup, Finder!Resume, Finder!CloseDialog, Finder!PatchSetup,
     Finder!AskEstimate, Finder!Start, Finder!Restart, Finder!CancelScan, Finder!Discard, Finder!SetKeep,
     Finder!ToggleChecked, Finder!BackToSetup, Finder!Merge, Finder!CancelMerge, Finder!ConfirmMerge,
     Finder!Undo, Finder!CloseDone, Finder!form, Finder!review
<1>3. Finder!EstimateIsForThisSetup'
  BY <1>2 DEF FinderInv, Finder!EstimateIsForThisSetup, Finder!Idle, Finder!StillFor
<1>4. Finder!Idle \/ DOMAIN keep' = DOMAIN keep
  <2>1. CASE \E h \in Finder!Shown : \E f \in FilesOf[h] : Finder!SetKeep(h, f)
    BY <2>1 DEF Finder!SetKeep
  <2> QED
    BY <2>1 DEF Finder!Gestures, Finder!OpenSetup, Finder!Resume, Finder!CloseDialog, Finder!PatchSetup,
       Finder!AskEstimate, Finder!Start, Finder!Restart, Finder!CancelScan, Finder!Discard,
       Finder!ToggleChecked, Finder!BackToSetup, Finder!Merge, Finder!CancelMerge, Finder!ConfirmMerge,
       Finder!Undo, Finder!CloseDone, Finder!review
<1>5. \/ DOMAIN keep' = DOMAIN keep /\ UNCHANGED scanId
      \/ keep' = <<>>
  BY <1>2, <1>4 DEF Finder!Idle
<1> QED
  BY <1>1, <1>3, <1>5, FinderKept

\* The answers of the calls, but that of Start.
LEMMA FinderAnswers ==
  ASSUME FinderInv, FinderCallsKept, NEW c \in finderCalls,
         \/ Finder!Estimated(c) \/ Finder!EstimateFails(c) \/ Finder!GotJob(c) \/ Finder!StartFails(c)
         \/ Finder!Merged(c) \/ Finder!MergeFails(c) \/ Finder!Undone(c) \/ Finder!UndoFails(c)
  PROVE FinderInv'
<1>1. UNCHANGED <<scan, found, finds>>
  BY DEF Finder!Estimated, Finder!EstimateFails, Finder!GotJob, Finder!StartFails, Finder!Merged,
     Finder!MergeFails, Finder!Undone, Finder!UndoFails, Finder!backend
<1>2. Finder!EstimateIsForThisSetup'
  BY DEF FinderInv, Finder!EstimateIsForThisSetup, Finder!Estimated, Finder!EstimateFails, Finder!GotJob,
     Finder!StartFails, Finder!Merged, Finder!MergeFails, Finder!Undone, Finder!UndoFails, Finder!Idle,
     Finder!form
<1>3. UNCHANGED <<keep, scanId>> \/ keep' = <<>>
  BY DEF Finder!Estimated, Finder!EstimateFails, Finder!GotJob, Finder!BeginScan, Finder!StartFails,
     Finder!Merged, Finder!MergeFails, Finder!Undone, Finder!UndoFails, Finder!Idle, Finder!review
<1> QED
  BY <1>1, <1>2, <1>3, FinderKept

\* A scan starts, and finds.
LEMMA FinderScan ==
  ASSUME FinderInv, FinderCallsKept,
         \/ \E c \in finderCalls : Finder!Started(c)
         \/ \E h \in Hashes : Finder!Find(h)
         \/ \E fatal \in BOOLEAN : Finder!ScanEnds(fatal)
  PROVE FinderInv'
<1>1. UNCHANGED <<setup, estimate, keep, scanId>>
  BY DEF Finder!Started, Finder!Find, Finder!ScanEnds, Finder!form, Finder!review
<1>2. CASE \E c \in finderCalls : Finder!Started(c)
  BY <1>1, <1>2 DEF FinderInv, FinderCallsKept, Finder!Started, Finder!EstimateIsForThisSetup,
     Finder!GroupsAreOfThisScan, Finder!Shown
<1>3. ASSUME NEW h \in Hashes, Finder!Find(h) PROVE FinderInv'
  <2>1. /\ scan # 0 /\ scan \in Scans /\ UNCHANGED scan
        /\ found' = [found EXCEPT ![scan] = @ \cup {h}]
        /\ finds' = finds \cup {[kind |-> "group", job |-> scan, hashes |-> {h}]}
    BY <1>3 DEF Finder!Find, FinderInv
  <2>2. /\ found' = [j \in Scans |-> found'[j]] /\ h \in found'[scan]
        /\ \A j \in Scans : found[j] \subseteq found'[j]
    BY <2>1 DEF FinderInv
  <2>3. \A e \in finds' : e.job \in Scans /\ e.hashes \subseteq found'[e.job]
    BY <2>1, <2>2 DEF FinderInv
  <2>4. Finder!GroupsAreOfThisScan'
    <3>1. CASE scanId \in Scans
      BY <1>1, <2>2, <3>1 DEF FinderInv, Finder!GroupsAreOfThisScan, Finder!Shown
    <3>2. CASE scanId \notin Scans
      <4>1. found'[scanId] = found[scanId]
        BY <2>1, <3>2
      <4> QED
        BY <1>1, <4>1 DEF FinderInv, Finder!GroupsAreOfThisScan, Finder!Shown
    <3> QED
      BY <3>1, <3>2
  <2> QED
    BY <1>1, <2>1, <2>2, <2>3, <2>4 DEF FinderInv, FinderCallsKept, Finder!EstimateIsForThisSetup
<1>4. ASSUME NEW fatal \in BOOLEAN, Finder!ScanEnds(fatal) PROVE FinderInv'
  <2>1. /\ scan \in Scans /\ scan' = 0 /\ UNCHANGED found
        /\ \A e \in finds' : e \in finds \/ (e.job = scan /\ e.hashes = found[scan])
    BY <1>4 DEF Finder!ScanEnds, FinderInv
  <2> QED
    BY <1>1, <2>1 DEF FinderInv, FinderCallsKept, Finder!EstimateIsForThisSetup,
       Finder!GroupsAreOfThisScan, Finder!Shown
<1> QED
  BY <1>2, <1>3, <1>4

\* Only what is told of the scan shown is added to what is shown.
LEMMA FinderHandles ==
  ASSUME FinderInv, FinderCallsKept, NEW e \in finds, Finder!Handle(e) PROVE FinderInv'
<1>1. UNCHANGED <<setup, estimate, scanId, scan, found>> /\ finds' = finds \ {e}
  BY DEF Finder!Handle, Finder!form
<1>2. Finder!EstimateIsForThisSetup'
  BY <1>1 DEF FinderInv, Finder!EstimateIsForThisSetup
<1>3. CASE UNCHANGED keep
  BY <1>1, <1>2, <1>3, FinderKept
<1>4. CASE Finder!JobMatches(e) /\ Finder!AddGroups(e.hashes)
  <2>1. DOMAIN keep' = DOMAIN keep \cup e.hashes
    BY <1>4 DEF Finder!AddGroups, Finder!Shown
  <2>2. scanId \in Scans /\ scanId # 0 /\ e.hashes \subseteq found[scanId]
    BY <1>4, ToolsAssumption DEF FinderInv, Finder!JobMatches, Finder!DuplicatesAssumption
  <2>3. Finder!GroupsAreOfThisScan'
    BY <1>1, <2>1, <2>2 DEF FinderInv, Finder!GroupsAreOfThisScan, Finder!Shown
  <2> QED
    BY <1>1, <1>2, <2>3 DEF FinderInv, FinderCallsKept
<1> QED
  BY <1>3, <1>4 DEF Finder!Handle

\* Every step of the finder keeps FinderInv.
LEMMA FinderStep == FinderInv /\ [Finder!Next]_ofFinder => FinderInv'
<1> SUFFICES ASSUME FinderInv, [Finder!Next]_ofFinder PROVE FinderInv'
  OBVIOUS
<1>1. CASE UNCHANGED ofFinder
  <2>1. UNCHANGED <<setup, estimate, scanId, keep, finderCalls, scan, found, finds>>
    BY <1>1 DEF ofFinder
  <2> QED
    BY <2>1 DEF FinderInv, Finder!EstimateIsForThisSetup, Finder!GroupsAreOfThisScan, Finder!Shown
<1>2. CASE Finder!Next
  <2>1. FinderCallsKept
    BY <1>2, FinderCallsStep
  <2> QED
    BY <1>2, <2>1, FinderGestures, FinderAnswers, FinderScan, FinderHandles
    DEF Finder!Next, Finder!Answers, Finder!Scan
<1> QED
  BY <1>1, <1>2

\* FinderInv holds in every behaviour of the tools.
LEMMA FinderAlways == ToolsSpec => []FinderInv
<1>1. ToolsInit => FinderInv
  BY FinderStart
<1>2. FinderInv /\ [ToolsNext]_toolsVars => FinderInv'
  BY FinderStep, FinderSteps
<1> QED
  BY <1>1, <1>2, PTL DEF ToolsSpec

-----------------------------------------------------------------------------
\* A scan that was not stopped is the one of the window.
LEMMA MapSeen == MapInv => Map!ScansAreSeen
BY DEF MapInv, MapIsTrue, NotStoppedIsShown, Map!ScansAreSeen

-----------------------------------------------------------------------------
\* What the finder shows is a group of the scan's, with a file that is kept and files that
\* are ticked of its own: the part of its types that depends on what is told.
FinderLists ==
  /\ Finder!Shown \subseteq Hashes /\ DOMAIN checked = Finder!Shown
  /\ \A h \in Finder!Shown : keep[h] \in FilesOf[h] /\ checked[h] \subseteq FilesOf[h]
\* Where the dialog and its scans stand.
FinderPlaces ==
  /\ finder \in BOOLEAN /\ phase \in Finder!Phases
  /\ setup \in [cost : Costs, pct : Pcts]
  /\ scanId \in Scans \cup {0} /\ scan \in Scans \cup {0}
\* What every step of the finder keeps of its types.
FinderTypes ==
  /\ FinderLists /\ FinderPlaces
  /\ \A j \in Scans : found[j] \subseteq Hashes
  /\ \A e \in finds : e.hashes \subseteq Hashes

\* The least of some numbers is one of them.
LEMMA FirstIsOne ==
  ASSUME NEW T, T \subseteq Nat, T # {} PROVE Finder!FirstOf(T) \in T
<1>1. \E f \in T : \A g \in T : f <= g
  BY LeastExists
<1> QED
  BY <1>1 DEF Finder!FirstOf

\* The initial states have the types of the finder.
LEMMA FinderTypesStart == ToolsInit => FinderTypes
<1>1. Finder!FirstOf(Pcts) \in Pcts /\ Blank \in Costs
  BY FirstIsOne, ToolsAssumption DEF Finder!DuplicatesAssumption
<1> SUFFICES ASSUME Finder!Init PROVE FinderTypes
  BY DEF ToolsInit
<1>2. keep = <<>> /\ checked = <<>>
  BY DEF Finder!Init
<1>3. FinderLists
  BY <1>2 DEF FinderLists, Finder!Shown
<1>4. FinderPlaces
  BY <1>1 DEF Finder!Init, FinderPlaces, Finder!Phases
<1>5. finds = {} /\ found = [j \in Scans |-> {}]
  BY DEF Finder!Init
<1> QED
  BY <1>3, <1>4, <1>5 DEF FinderTypes

\* The gestures keep where the dialog stands.
LEMMA FinderPlacesGestures == ASSUME FinderPlaces, Finder!Gestures PROVE FinderPlaces'
<1> USE DEF FinderPlaces, Finder!Phases, Finder!Turn, Finder!backend, Finder!form, Finder!review, Finder!Idle
<1>1. ASSUME NEW cost \in Costs, Finder!OpenSetup(cost) PROVE FinderPlaces'
  BY <1>1 DEF Finder!OpenSetup, Finder!MountSetup
<1>2. CASE Finder!Resume \/ Finder!CloseDialog \/ Finder!AskEstimate \/ Finder!Start \/ Finder!Restart
  BY <1>2 DEF Finder!Resume, Finder!CloseDialog, Finder!AskEstimate, Finder!Start, Finder!Restart
<1>3. ASSUME NEW new \in [cost : Costs, pct : Pcts], Finder!PatchSetup(new) PROVE FinderPlaces'
  BY <1>3 DEF Finder!PatchSetup
<1>4. CASE Finder!CancelScan \/ Finder!Discard
  BY <1>4 DEF Finder!CancelScan, Finder!FailRunning, Finder!Discard
<1>5. ASSUME NEW h, NEW f, Finder!SetKeep(h, f) \/ Finder!ToggleChecked(h, f) PROVE FinderPlaces'
  BY <1>5 DEF Finder!SetKeep, Finder!ToggleChecked
<1>6. CASE Finder!BackToSetup
  BY <1>6 DEF Finder!BackToSetup, Finder!MountSetup
<1>7. CASE Finder!Merge \/ Finder!CancelMerge \/ Finder!ConfirmMerge \/ Finder!Undo \/ Finder!CloseDone
  BY <1>7 DEF Finder!Merge, Finder!CancelMerge, Finder!ConfirmMerge, Finder!Undo, Finder!CloseDone
<1> QED
  BY <1>1, <1>2, <1>3, <1>4, <1>5, <1>6, <1>7 DEF Finder!Gestures

\* So do the answers and the events.
LEMMA FinderPlacesRest ==
  ASSUME FinderInv, FinderPlaces, Finder!Answers \/ Finder!Scan PROVE FinderPlaces'
<1> USE DEF FinderPlaces, Finder!Phases, Finder!Turn, Finder!backend, Finder!form, Finder!review, Finder!Idle
<1>1. ASSUME NEW c \in finderCalls,
             \/ Finder!Estimated(c) \/ Finder!EstimateFails(c) \/ Finder!UndoFails(c)
             \/ Finder!StartFails(c) \/ Finder!Undone(c)
      PROVE FinderPlaces'
  BY <1>1 DEF Finder!Estimated, Finder!EstimateFails, Finder!UndoFails, Finder!StartFails,
     Finder!FailRunning, Finder!Undone
<1>2. ASSUME NEW c \in finderCalls, Finder!GotJob(c) PROVE FinderPlaces'
  BY <1>2 DEF Finder!GotJob, Finder!BeginScan
<1>3. ASSUME NEW c \in finderCalls, Finder!Started(c) PROVE FinderPlaces'
  BY <1>3 DEF Finder!Started, FinderInv
<1>4. ASSUME NEW c \in finderCalls, Finder!Merged(c) \/ Finder!MergeFails(c) PROVE FinderPlaces'
  BY <1>4 DEF Finder!Merged, Finder!MergeFails
<1>5. ASSUME NEW h, Finder!Find(h) PROVE FinderPlaces'
  BY <1>5 DEF Finder!Find
<1>6. ASSUME NEW fatal, Finder!ScanEnds(fatal) PROVE FinderPlaces'
  BY <1>6 DEF Finder!ScanEnds
<1>7. ASSUME NEW e, Finder!Handle(e) PROVE FinderPlaces'
  BY <1>7 DEF Finder!Handle
<1> QED
  BY <1>1, <1>2, <1>3, <1>4, <1>5, <1>6, <1>7 DEF Finder!Answers, Finder!Scan

\* What is shown stays, is emptied, or grows by groups that were found; a file is kept or
\* ticked in a group that is shown.
LEMMA FinderListsStep == ASSUME FinderTypes, Finder!Next PROVE FinderLists'
<1>1. ASSUME UNCHANGED <<keep, checked>> PROVE FinderLists'
  BY <1>1 DEF FinderTypes, FinderLists, Finder!Shown
<1>2. ASSUME keep' = <<>> /\ checked' = <<>> PROVE FinderLists'
  BY <1>2 DEF FinderLists, Finder!Shown
<1>3. ASSUME NEW h \in Finder!Shown, NEW f \in FilesOf[h], Finder!SetKeep(h, f) PROVE FinderLists'
  <2>1. /\ DOMAIN keep' = DOMAIN keep /\ DOMAIN checked' = DOMAIN checked
        /\ keep'[h] = f /\ checked'[h] = Finder!Swapped(h, f)
        /\ \A g \in DOMAIN keep \ {h} : keep'[g] = keep[g] /\ checked'[g] = checked[g]
    BY <1>3 DEF Finder!SetKeep, FinderTypes, FinderLists, Finder!Shown
  <2>2. Finder!Swapped(h, f) \subseteq FilesOf[h]
    BY <1>3 DEF Finder!Swapped, FinderTypes, FinderLists
  <2> QED
    BY <1>3, <2>1, <2>2 DEF FinderTypes, FinderLists, Finder!Shown
<1>4. ASSUME NEW h \in Finder!Shown, NEW f \in FilesOf[h], Finder!ToggleChecked(h, f) PROVE FinderLists'
  <2>1. /\ UNCHANGED keep /\ DOMAIN checked' = DOMAIN checked
        /\ checked'[h] \in {checked[h] \ {f}, checked[h] \cup {f}}
        /\ \A g \in DOMAIN keep \ {h} : checked'[g] = checked[g]
    BY <1>4 DEF Finder!ToggleChecked, FinderTypes, FinderLists, Finder!Shown
  <2> QED
    BY <1>4, <2>1 DEF FinderTypes, FinderLists, Finder!Shown
<1>5. ASSUME NEW e \in finds, Finder!AddGroups(e.hashes) PROVE FinderLists'
  <2>1. ASSUME NEW h \in Hashes
        PROVE Finder!FirstOf(FilesOf[h]) \in FilesOf[h]
    BY FirstIsOne, ToolsAssumption DEF Finder!DuplicatesAssumption
  <2>2. e.hashes \subseteq Hashes
    BY DEF FinderTypes
  <2> QED
    BY <1>5, <2>1, <2>2 DEF Finder!AddGroups, FinderTypes, FinderLists, Finder!Shown
<1>6. CASE Finder!Gestures
  <2>1. \/ UNCHANGED <<keep, checked>>
        \/ keep' = <<>> /\ checked' = <<>>
        \/ \E h \in Finder!Shown : \E f \in FilesOf[h] : Finder!SetKeep(h, f) \/ Finder!ToggleChecked(h, f)
    BY <1>6 DEF Finder!Gestures, Finder!OpenSetup, Finder!Resume, Finder!CloseDialog, Finder!PatchSetup,
       Finder!AskEstimate, Finder!Start, Finder!Restart, Finder!CancelScan, Finder!Discard,
       Finder!BackToSetup, Finder!Merge, Finder!CancelMerge, Finder!ConfirmMerge,
       Finder!Undo, Finder!CloseDone, Finder!review, Finder!Idle
  <2> QED
    BY <1>1, <1>2, <1>3, <1>4, <2>1
<1>7. CASE Finder!Answers
  <2>1. UNCHANGED <<keep, checked>> \/ (keep' = <<>> /\ checked' = <<>>)
    BY <1>7 DEF Finder!Answers, Finder!Estimated, Finder!EstimateFails, Finder!GotJob, Finder!BeginScan,
       Finder!StartFails, Finder!Started, Finder!Merged, Finder!MergeFails, Finder!Undone, Finder!UndoFails,
       Finder!Idle, Finder!review
  <2> QED
    BY <1>1, <1>2, <2>1
<1>8. CASE Finder!Scan
  BY <1>1, <1>5, <1>8 DEF Finder!Scan, Finder!Find, Finder!ScanEnds, Finder!Handle, Finder!review
<1> QED
  BY <1>6, <1>7, <1>8 DEF Finder!Next

\* Every step of the finder keeps its types.
LEMMA FinderTypesStep == FinderInv /\ FinderTypes /\ [Finder!Next]_ofFinder => FinderTypes'
<1> SUFFICES ASSUME FinderInv, FinderTypes, [Finder!Next]_ofFinder PROVE FinderTypes'
  OBVIOUS
<1>1. CASE UNCHANGED ofFinder
  <2>1. UNCHANGED <<finder, phase, setup, scanId, keep, checked, scan, found, finds>>
    BY <1>1 DEF ofFinder
  <2> QED
    BY <2>1 DEF FinderTypes, FinderLists, FinderPlaces, Finder!Shown
<1>2. CASE Finder!Next
  <2>1. FinderLists' /\ FinderPlaces'
    BY <1>2, FinderListsStep, FinderPlacesGestures, FinderPlacesRest DEF FinderTypes, Finder!Next
  <2>2. (\A j \in Scans : found'[j] \subseteq Hashes) /\ (\A e \in finds' : e.hashes \subseteq Hashes)
    <3>1. ASSUME UNCHANGED found, finds' \subseteq finds
          PROVE (\A j \in Scans : found'[j] \subseteq Hashes) /\ (\A e \in finds' : e.hashes \subseteq Hashes)
      BY <3>1 DEF FinderTypes
    <3>2. ASSUME NEW h \in Hashes, Finder!Find(h)
          PROVE (\A j \in Scans : found'[j] \subseteq Hashes) /\ (\A e \in finds' : e.hashes \subseteq Hashes)
      <4>1. /\ found' = [found EXCEPT ![scan] = @ \cup {h}]
            /\ finds' = finds \cup {[kind |-> "group", job |-> scan, hashes |-> {h}]}
        BY <3>2 DEF Finder!Find
      <4> QED
        BY <4>1 DEF FinderTypes, FinderInv
    <3>3. ASSUME NEW fatal \in BOOLEAN, Finder!ScanEnds(fatal)
          PROVE (\A j \in Scans : found'[j] \subseteq Hashes) /\ (\A e \in finds' : e.hashes \subseteq Hashes)
      <4>1. /\ scan \in Scans /\ UNCHANGED found
            /\ \A e \in finds' : e \in finds \/ e.hashes = found[scan]
        BY <3>3 DEF Finder!ScanEnds, FinderInv
      <4> QED
        BY <4>1 DEF FinderTypes
    <3>4. CASE Finder!Gestures
      BY <3>1, <3>4 DEF Finder!Gestures, Finder!OpenSetup, Finder!Resume, Finder!CloseDialog, Finder!PatchSetup,
         Finder!AskEstimate, Finder!Start, Finder!Restart, Finder!CancelScan, Finder!Discard, Finder!SetKeep,
         Finder!ToggleChecked, Finder!BackToSetup, Finder!Merge, Finder!CancelMerge, Finder!ConfirmMerge,
         Finder!Undo, Finder!CloseDone, Finder!backend
    <3>5. CASE Finder!Answers
      BY <3>1, <3>5 DEF Finder!Answers, Finder!Estimated, Finder!EstimateFails, Finder!GotJob,
         Finder!StartFails, Finder!Started, Finder!Merged, Finder!MergeFails, Finder!Undone,
         Finder!UndoFails, Finder!backend
    <3>6. CASE Finder!Scan
      BY <3>1, <3>2, <3>3, <3>6 DEF Finder!Scan, Finder!Handle
    <3> QED
      BY <1>2, <3>4, <3>5, <3>6 DEF Finder!Next
  <2> QED
    BY <2>1, <2>2 DEF FinderTypes
<1> QED
  BY <1>1, <1>2

\* FinderTypes holds in every behaviour of the tools.
LEMMA FinderTypesAlways == ToolsSpec => []FinderTypes
<1>1. ToolsInit => FinderTypes
  BY FinderTypesStart
<1>2. FinderInv /\ FinderTypes /\ [ToolsNext]_toolsVars => FinderTypes'
  BY FinderTypesStep, FinderSteps
<1> QED
  BY <1>1, <1>2, FinderAlways, PTL DEF ToolsSpec

-----------------------------------------------------------------------------
\* What the window of the map may hold.
MapWindow(d) ==
  /\ d.crumbs \in Seq(MapFolders) /\ d.root \cup d.zoom \subseteq MapFolders
  /\ d.jobId \subseteq 1..MaxScans
  /\ d.scanning => d.open
\* What every step of the map keeps of its types, beside MapTypes.
MapWindows == MapWindow(diskMap) /\ generation \in 0..MaxScans /\ usageStopped \subseteq 1..MaxScans

\* The initial states have the types of the map.
LEMMA MapWindowsStart == ToolsInit => MapWindows
<1>1. MaxScans \in Nat
  BY ToolsAssumption DEF Map!TreemapAssumption
<1>2. MapWindow(Map!Closed)
  BY DEF MapWindow, Map!Closed
<1> QED
  BY <1>1, <1>2 DEF ToolsInit, Map!Init, MapWindows

\* The links above the map, with one more folder.
LEMMA Remembered ==
  ASSUME NEW crumbs \in Seq(MapFolders), NEW f \in MapFolders
  PROVE  Map!Remember(crumbs, f) \in Seq(MapFolders)
BY DEF Map!Remember

\* A scan begins, or the window turns to what is known.
LEMMA MapTurns ==
  ASSUME MapWindows, generation < MaxScans, generation' = generation + 1,
         usageStopped' = usageStopped \cup Map!InFlight, MapWindow(diskMap')
  PROVE  MapWindows'
<1>1. Map!InFlight \subseteq 1..MaxScans
  BY DEF Map!InFlight, MapWindows, MapWindow
<1>2. generation' \in 0..MaxScans
  BY ToolsAssumption DEF Map!TreemapAssumption, MapWindows
<1> QED
  BY <1>1, <1>2 DEF MapWindows

\* The window a scan begins in.
LEMMA MapBegins ==
  ASSUME MapWindows, NEW f \in MapFolders, NEW crumbs \in Seq(MapFolders), Map!Begin(f, crumbs)
  PROVE  MapWindows'
<1>1. MapWindow([Map!Closed EXCEPT !.open = TRUE, !.root = {f}, !.crumbs = crumbs, !.scanning = TRUE])
  BY DEF MapWindow, Map!Closed
<1> QED
  BY <1>1, MapTurns DEF Map!Begin

\* The window opens, is drilled into, zoomed and left.
LEMMA MapWindowsGestures ==
  ASSUME MapInv, MapWindows,
         \/ \E f \in MapFolders : Map!OpenDialog(f) \/ Map!OpenDir(f)
         \/ Map!Cancel \/ Map!CloseDialog \/ Map!ZoomChain \/ Map!OpenFile
  PROVE  MapWindows'
<1>1. ASSUME NEW f \in MapFolders, Map!OpenDialog(f) PROVE MapWindows'
  <2>1. <<f>> \in Seq(MapFolders)
    OBVIOUS
  <2> QED
    BY <1>1, <2>1, MapBegins DEF Map!OpenDialog
<1>2. ASSUME NEW zoom \in SUBSET MapFolders, Map!SetZoom(zoom) PROVE MapWindows'
  <2>1. diskMap' = [diskMap EXCEPT !.zoom = zoom] /\ UNCHANGED <<generation, usageStopped>>
    BY <1>2 DEF Map!SetZoom
  <2>2. MapWindow(diskMap')
    BY <2>1 DEF MapWindows, MapWindow, MapInv, MapIsTrue, MapTypes, IsMapDialog
  <2> QED
    BY <2>1, <2>2 DEF MapWindows
<1>3. ASSUME NEW f \in MapFolders, Map!Drill(f) PROVE MapWindows'
  <2>1. Map!Remember(diskMap.crumbs, f) \in Seq(MapFolders)
    BY Remembered DEF MapWindows, MapWindow
  <2>2. PICK crumbs \in Seq(MapFolders) : crumbs = Map!Remember(diskMap.crumbs, f)
    BY <2>1
  <2>3. CASE f \notin DOMAIN cache
    BY <1>3, <2>2, <2>3, MapBegins DEF Map!Drill
  <2>4. CASE f \in DOMAIN cache
    <3>1. MapWindow([Map!Closed EXCEPT !.open = TRUE, !.root = {f}, !.crumbs = crumbs])
      BY DEF MapWindow, Map!Closed
    <3> QED
      BY <1>3, <2>2, <2>4, <3>1, MapTurns DEF Map!Drill
  <2> QED
    BY <2>3, <2>4
<1>4. ASSUME NEW f \in MapFolders, Map!OpenDir(f) PROVE MapWindows'
  BY <1>2, <1>3, <1>4 DEF Map!OpenDir
<1>5. CASE Map!CloseDialog
  <2>1. MapWindow(Map!Closed)
    BY DEF Map!Closed, MapWindow
  <2> QED
    BY <1>5, <2>1, MapTurns DEF Map!CloseDialog
<1>6. CASE Map!Cancel
  BY <1>6 DEF Map!Cancel, MapWindows, MapWindow
<1>7. CASE Map!ZoomChain \/ Map!OpenFile
  BY <1>2, <1>5, <1>7 DEF Map!ZoomChain, Map!OpenFile
<1> QED
  BY <1>1, <1>4, <1>5, <1>6, <1>7

\* Answers and results come.
LEMMA MapWindowsAnswers ==
  ASSUME MapInv, MapWindows,
         \/ \E c \in usageAsked : \/ \E n \in 1..MaxScans : Map!JobId(c, n)
                                  \/ Map!CallFails(c)
                                  \/ \E deep : Map!Scanned(c, deep)
         \/ Map!ApplyDone
  PROVE  MapWindows'
<1> USE DEF MapInv, MapIsTrue, MapTypes, IsMapDialog
<1>1. ASSUME NEW c \in usageAsked, NEW n \in 1..MaxScans, Map!JobId(c, n) PROVE MapWindows'
  <2>1. /\ UNCHANGED generation /\ usageStopped' \in {usageStopped, usageStopped \cup {n}}
        /\ diskMap' = diskMap \/ diskMap' = [diskMap EXCEPT !.jobId = {n}]
    BY <1>1 DEF Map!JobId
  <2>2. MapWindow(diskMap')
    BY <2>1 DEF MapWindows, MapWindow
  <2> QED
    BY <2>1, <2>2 DEF MapWindows
<1>2. ASSUME NEW c \in usageAsked, Map!CallFails(c) PROVE MapWindows'
  <2>1. /\ UNCHANGED <<generation, usageStopped>>
        /\ diskMap' = diskMap \/ diskMap' = [diskMap EXCEPT !.scanning = FALSE, !.failed = TRUE]
    BY <1>2 DEF Map!CallFails
  <2>2. MapWindow(diskMap')
    BY <2>1 DEF MapWindows, MapWindow
  <2> QED
    BY <2>1, <2>2 DEF MapWindows
<1>3. ASSUME NEW c, NEW deep, Map!Scanned(c, deep) PROVE MapWindows'
  BY <1>3 DEF Map!Scanned, MapWindows
<1>4. CASE Map!ApplyDone
  <2>1. UNCHANGED <<generation, usageStopped>>
    BY <1>4 DEF Map!ApplyDone
  <2>2. CASE UNCHANGED diskMap
    BY <2>1, <2>2 DEF MapWindows
  <2>3. CASE ~ UNCHANGED diskMap
    <3>1. PICK f : /\ usages # <<>> /\ f = Head(usages).root
                   /\ diskMap' = [diskMap EXCEPT !.root = {f}, !.scanning = FALSE,
                        !.crumbs = [i \in DOMAIN @ |-> IF @[i] \in diskMap.root THEN f ELSE @[i]]]
      BY <1>4, <2>3 DEF Map!ApplyDone
    <3>2. f \in MapFolders
      <4>1. usages \in Seq(Usages)
        OBVIOUS
      <4>2. Head(usages) \in Usages
        BY <3>1, <4>1, HeadTailProperties
      <4> QED
        BY <3>1, <4>2 DEF Usages
    <3>3. [i \in DOMAIN diskMap.crumbs |-> IF diskMap.crumbs[i] \in diskMap.root THEN f ELSE diskMap.crumbs[i]]
            \in Seq(MapFolders)
      BY <3>2 DEF MapWindows, MapWindow
    <3>4. MapWindow(diskMap')
      BY <3>1, <3>2, <3>3 DEF MapWindows, MapWindow
    <3> QED
      BY <2>1, <3>4 DEF MapWindows
  <2> QED
    BY <2>2, <2>3
<1> QED
  BY <1>1, <1>2, <1>3, <1>4

\* MapWindows holds in every behaviour of the tools.
LEMMA MapWindowsAlways == ToolsSpec => []MapWindows
<1>1. ToolsInit => MapWindows
  BY MapWindowsStart
<1>2. MapInv /\ MapWindows /\ [Map!Next]_ofMap => MapWindows'
  <2> SUFFICES ASSUME MapInv, MapWindows, [Map!Next]_ofMap PROVE MapWindows'
    OBVIOUS
  <2>1. CASE UNCHANGED ofMap
    BY <2>1 DEF ofMap, MapWindows
  <2>2. CASE Map!Next
    BY <2>2, MapWindowsGestures, MapWindowsAnswers DEF Map!Next
  <2> QED
    BY <2>1, <2>2
<1>3. MapInv /\ MapWindows /\ [ToolsNext]_toolsVars => MapWindows'
  BY <1>2, MapSteps
<1> QED
  BY <1>1, <1>3, MapAlways, PTL DEF ToolsSpec

\* So the map has its types.
LEMMA MapTyped == MapInv /\ MapWindows => Map!TypeOK
<1> SUFFICES ASSUME MapWindows PROVE Map!TypeOK
  OBVIOUS
<1>1. Map!ToSet(diskMap.crumbs) \subseteq MapFolders
  BY DEF MapWindows, MapWindow, Map!ToSet
<1> QED
  BY <1>1 DEF MapWindows, MapWindow, Map!TypeOK

-----------------------------------------------------------------------------
\* What every step of the terminal keeps of its types, beside ShellsInv.
ShellCallTyped(c) ==
  c.view \in 1..views /\ c.seq \in 0..startSeq /\ (c.op = "spawned" => c.shell \in DOMAIN dirs)
\* A view that knows of a shell is shown, and the shells are those that were spawned.
ShellsTypes ==
  /\ views \in 0..MaxViews /\ view \in 0..views /\ (started => view # 0)
  /\ session \cup ended \subseteq DOMAIN dirs
  /\ \A c \in shellCalls : ShellCallTyped(c)

\* The initial states have the types of the terminal.
LEMMA ShellsTypesStart == ToolsInit => ShellsTypes
<1>1. MaxViews \in Nat
  BY ToolsAssumption DEF Shells!TerminalAssumption
<1> QED
  BY <1>1 DEF ToolsInit, Shells!Init, ShellsTypes

\* The view.
LEMMA ShellsTypesView ==
  ASSUME ShellsInv, ShellsTypes,
         \/ Shells!ShowTerminal \/ Shells!HideTerminal \/ Shells!ExitTold
         \/ \E f \in Folders : Shells!FolderChanges(f)
         \/ \E c \in shellCalls : Shells!Answered(c)
  PROVE  ShellsTypes'
<1>1. UNCHANGED <<session, startSeq, dirs, ended>>
  BY DEF Shells!ShowTerminal, Shells!HideTerminal, Shells!ExitTold, Shells!FolderChanges,
     Shells!Answered, Shells!shells
<1>2. MaxViews \in Nat
  BY ToolsAssumption DEF Shells!TerminalAssumption
<1>3. ASSUME NEW op, op # "spawned", NEW v \in 1..views', NEW f
      PROVE ShellCallTyped(Shells!Call(op, v, f))'
  BY <1>1, <1>3 DEF ShellCallTyped, Shells!Call, ShellsInv
<1>4. ASSUME views <= views', views' \in Nat
      PROVE \A c \in shellCalls : ShellCallTyped(c)'
  BY <1>1, <1>4 DEF ShellsTypes, ShellCallTyped
<1>5. CASE Shells!ShowTerminal
  <2>1. /\ views' = views + 1 /\ view' = views' /\ started' = FALSE /\ views < MaxViews
        /\ shellCalls' = shellCalls \cup {Shells!Call("start", view', folder)}
    BY <1>5 DEF Shells!ShowTerminal
  <2>2. view' \in 1..views' /\ views <= views' /\ views' \in Nat
    BY <1>2, <2>1 DEF ShellsTypes
  <2>3. \A c \in shellCalls' : ShellCallTyped(c)'
    BY <1>3, <1>4, <2>1, <2>2
  <2> QED
    BY <1>1, <1>2, <2>1, <2>2, <2>3 DEF ShellsTypes
<1>6. CASE Shells!HideTerminal
  <2>1. /\ view # 0 /\ UNCHANGED views /\ view' = 0 /\ started' = FALSE
        /\ shellCalls' = shellCalls \cup {Shells!Call("stop", view, folder)}
    BY <1>6 DEF Shells!HideTerminal
  <2>2. view \in 1..views' /\ views <= views' /\ views' \in Nat
    BY <1>2, <2>1 DEF ShellsTypes
  <2>3. \A c \in shellCalls' : ShellCallTyped(c)'
    BY <1>3, <1>4, <2>1, <2>2
  <2> QED
    BY <1>1, <1>2, <2>1, <2>2, <2>3 DEF ShellsTypes
<1>7. CASE Shells!ExitTold
  <2>1. UNCHANGED <<view, views, shellCalls>> /\ started' = FALSE
    BY <1>7 DEF Shells!ExitTold
  <2> QED
    BY <1>1, <2>1 DEF ShellsTypes, ShellCallTyped
<1>8. ASSUME NEW f \in Folders, Shells!FolderChanges(f) PROVE ShellsTypes'
  <2>1. /\ UNCHANGED <<view, views, started>>
        /\ shellCalls' = IF started THEN shellCalls \cup {Shells!Call("setCwd", view, f)} ELSE shellCalls
    BY <1>8 DEF Shells!FolderChanges, Shells!window
  <2>2. started => view \in 1..views'
    BY <1>2, <2>1 DEF ShellsTypes
  <2>3. views <= views' /\ views' \in Nat
    BY <1>2, <2>1 DEF ShellsTypes
  <2>4. \A c \in shellCalls' : ShellCallTyped(c)'
    BY <1>3, <1>4, <2>1, <2>2, <2>3
  <2> QED
    BY <1>1, <2>1, <2>4 DEF ShellsTypes
<1>9. ASSUME NEW c \in shellCalls, Shells!Answered(c) PROVE ShellsTypes'
  <2>1. /\ UNCHANGED <<view, views>> /\ shellCalls' = shellCalls \ {c}
        /\ started' => started \/ c.view = view
    BY <1>9 DEF Shells!Answered
  <2>2. c.view # 0
    BY DEF ShellsTypes, ShellCallTyped
  <2> QED
    BY <1>1, <2>1, <2>2 DEF ShellsTypes, ShellCallTyped
<1> QED
  BY <1>5, <1>6, <1>7, <1>8, <1>9

\* The calls in the backend.
LEMMA ShellsTypesCalls ==
  ASSUME ShellsInv, ShellsTypes, NEW c \in shellCalls,
         \/ Shells!Start(c) \/ Shells!Spawned(c) \/ Shells!SpawnFails(c) \/ Shells!Started(c)
         \/ Shells!SetCwd(c) \/ Shells!Stop(c)
  PROVE  ShellsTypes'
<1>1. UNCHANGED <<view, views, started>>
  BY DEF Shells!Start, Shells!Spawned, Shells!SpawnFails, Shells!Started, Shells!SetCwd, Shells!Stop,
     Shells!window
<1>2. IsShellCall(c) /\ ShellCallTyped(c) /\ startSeq \in Nat /\ dirs \in Seq(Folders)
  BY DEF ShellsInv, ShellsTypes
<1>3. ASSUME NEW d, shellCalls' \subseteq (shellCalls \ {c}) \cup {d}, ShellCallTyped(d)',
             startSeq <= startSeq', startSeq' \in Nat, DOMAIN dirs \subseteq DOMAIN dirs',
             session' \cup ended' \subseteq DOMAIN dirs'
      PROVE ShellsTypes'
  <2>1. \A e \in shellCalls : ShellCallTyped(e)'
    BY <1>1, <1>2, <1>3 DEF ShellsTypes, ShellCallTyped
  <2> QED
    BY <1>1, <1>3, <2>1 DEF ShellsTypes
<1>4. CASE Shells!Start(c)
  <2>1. UNCHANGED <<session, dirs, ended>>
    BY <1>4 DEF Shells!Start, Shells!shells
  <2>2. CASE session # {}
    <3>1. PICK d : d = [c EXCEPT !.op = "cd"] /\ shellCalls' = (shellCalls \ {c}) \cup {d}
      BY <1>4, <2>2 DEF Shells!Start, Shells!Becomes
    <3>2. UNCHANGED startSeq
      BY <1>4, <2>2 DEF Shells!Start
    <3>3. ShellCallTyped(d)'
      BY <1>1, <1>2, <2>1, <3>1, <3>2 DEF IsShellCall, ShellCallTyped
    <3> QED
      BY <1>2, <1>3, <2>1, <3>1, <3>2, <3>3 DEF ShellsTypes
  <2>3. CASE session = {}
    <3>1. PICK d : /\ d = [c EXCEPT !.op = "spawn", !.seq = startSeq']
                   /\ shellCalls' = (shellCalls \ {c}) \cup {d}
      BY <1>4, <2>3 DEF Shells!Start, Shells!Becomes
    <3>2. startSeq' = startSeq + 1
      BY <1>4, <2>3 DEF Shells!Start
    <3>3. ShellCallTyped(d)'
      BY <1>1, <1>2, <2>1, <3>1, <3>2 DEF IsShellCall, ShellCallTyped
    <3> QED
      BY <1>2, <1>3, <2>1, <3>1, <3>2, <3>3 DEF ShellsTypes
  <2> QED
    BY <2>2, <2>3
<1>5. CASE Shells!Spawned(c)
  <2>1. /\ dirs' = Append(dirs, c.cwd) /\ UNCHANGED <<session, startSeq, ended>>
    BY <1>5 DEF Shells!Spawned
  <2>2. PICK d : /\ d = [c EXCEPT !.op = "spawned", !.shell = Len(dirs')]
                 /\ shellCalls' = (shellCalls \ {c}) \cup {d}
    BY <1>5 DEF Shells!Spawned, Shells!Becomes
  <2>3. c.cwd \in Folders
    BY DEF ShellsInv
  <2>4. DOMAIN dirs \subseteq DOMAIN dirs' /\ Len(dirs') \in DOMAIN dirs'
    BY <1>2, <2>1, <2>3
  <2>5. d.view = c.view /\ d.seq = c.seq /\ d.shell = Len(dirs')
    BY <1>2, <2>2 DEF IsShellCall
  <2>6. ShellCallTyped(d)'
    BY <1>1, <1>2, <2>1, <2>4, <2>5 DEF ShellCallTyped
  <2> QED
    BY <1>2, <1>3, <2>1, <2>2, <2>4, <2>6 DEF ShellsTypes
<1>6. CASE Shells!SpawnFails(c)
  <2>1. PICK d : d = [c EXCEPT !.op = "failed"] /\ shellCalls' = (shellCalls \ {c}) \cup {d}
    BY <1>6 DEF Shells!SpawnFails, Shells!Becomes
  <2>2. UNCHANGED <<session, startSeq, dirs, ended>>
    BY <1>6 DEF Shells!SpawnFails, Shells!shells
  <2>3. ShellCallTyped(d)'
    BY <1>1, <1>2, <2>1, <2>2 DEF IsShellCall, ShellCallTyped
  <2> QED
    BY <1>2, <1>3, <2>1, <2>2, <2>3 DEF ShellsTypes
<1>7. CASE Shells!Started(c)
  <2>1. PICK d : /\ d = [c EXCEPT !.op = "ok"] \/ d = [c EXCEPT !.op = "failed"]
                 /\ shellCalls' = (shellCalls \ {c}) \cup {d}
    BY <1>7 DEF Shells!Started, Shells!Becomes
  <2>2. /\ UNCHANGED <<startSeq, dirs>> /\ c.op = "spawned"
        /\ session' \cup ended' \subseteq session \cup ended \cup {c.shell}
    BY <1>7 DEF Shells!Started
  <2>3. ShellCallTyped(d)'
    BY <1>1, <1>2, <2>1, <2>2 DEF IsShellCall, ShellCallTyped
  <2> QED
    BY <1>2, <1>3, <2>1, <2>2, <2>3 DEF ShellsTypes, ShellCallTyped
<1>8. CASE Shells!SetCwd(c)
  <2>1. PICK d : /\ \E op \in {"ok", "failed"} : d = [c EXCEPT !.op = op]
                 /\ shellCalls' \subseteq (shellCalls \ {c}) \cup {d}
    BY <1>8 DEF Shells!SetCwd
  <2>2. UNCHANGED <<session, startSeq, ended>> /\ DOMAIN dirs' = DOMAIN dirs
    BY <1>8 DEF Shells!SetCwd
  <2>3. ShellCallTyped(d)'
    BY <1>1, <1>2, <2>1, <2>2 DEF IsShellCall, ShellCallTyped
  <2> QED
    BY <1>2, <1>3, <2>1, <2>2, <2>3 DEF ShellsTypes
<1>9. CASE Shells!Stop(c)
  <2>1. /\ shellCalls' = shellCalls \ {c} /\ startSeq' = startSeq + 1 /\ session' = {}
        /\ ended' = ended \cup session /\ UNCHANGED dirs
    BY <1>9 DEF Shells!Stop
  <2>2. ShellCallTyped(c)'
    BY <1>1, <1>2, <2>1 DEF ShellCallTyped
  <2> QED
    BY <1>2, <1>3, <2>1, <2>2 DEF ShellsTypes
<1> QED
  BY <1>4, <1>5, <1>6, <1>7, <1>8, <1>9

\* The shells.
LEMMA ShellsTypesShells ==
  ASSUME ShellsTypes,
         \/ \E s \in DOMAIN dirs : Shells!ShellExits(s)
         \/ \E l \in loops : Shells!TellExit(l) \/ Shells!LoopEnds(l)
  PROVE  ShellsTypes'
<1>1. UNCHANGED <<view, views, started, shellCalls, startSeq, dirs>>
  BY DEF Shells!ShellExits, Shells!TellExit, Shells!LoopEnds, Shells!window, Shells!shells
<1>2. session' \subseteq session /\ ended' \subseteq ended \cup DOMAIN dirs
  BY DEF Shells!ShellExits, Shells!TellExit, Shells!LoopEnds, Shells!shells
<1> QED
  BY <1>1, <1>2 DEF ShellsTypes, ShellCallTyped

\* ShellsTypes holds in every behaviour of the tools.
LEMMA ShellsTypesAlways == ToolsSpec => []ShellsTypes
<1>1. ToolsInit => ShellsTypes
  BY ShellsTypesStart
<1>2. ShellsInv /\ ShellsTypes /\ [Shells!Next]_ofShells => ShellsTypes'
  <2> SUFFICES ASSUME ShellsInv, ShellsTypes, [Shells!Next]_ofShells PROVE ShellsTypes'
    OBVIOUS
  <2>1. CASE UNCHANGED ofShells
    BY <2>1 DEF ofShells, ShellsTypes, ShellCallTyped
  <2>2. CASE Shells!Next
    BY <2>2, ShellsTypesView, ShellsTypesCalls, ShellsTypesShells DEF Shells!Next
  <2> QED
    BY <2>1, <2>2
<1>3. ShellsInv /\ ShellsTypes /\ [ToolsNext]_toolsVars => ShellsTypes'
  BY <1>2, ShellsSteps
<1> QED
  BY <1>1, <1>3, ShellsAlways, PTL DEF ToolsSpec

\* So the terminal has its types.
LEMMA ShellsTyped == ShellsInv /\ ShellsTypes => Shells!TypeOK
<1> SUFFICES ASSUME ShellsInv, ShellsTypes PROVE Shells!TypeOK
  OBVIOUS
<1>1. Shells!ToSet(dirs) \subseteq Folders
  BY DEF ShellsInv, Shells!ToSet
<1> QED
  BY <1>1 DEF ShellsTypes, ShellCallTyped, Shells!TypeOK

-----------------------------------------------------------------------------
\* The window is open exactly on a file, and only then has unsaved text.
OpenWithFile(d) ==
  /\ \/ d.open = TRUE /\ d.file # {}
     \/ d.open = FALSE /\ d.file = {}
  /\ d.dirty => d.open
\* What every step of the editor keeps of its types, beside TextsInv.
TextsPlaces ==
  /\ OpenWithFile(desk)
  /\ \A r \in Waited : r.visit >= 1
  /\ confirm \in {"", "close", "diff"} \cup TextFiles /\ edits \in 0..MaxEdits

\* The initial states have the types of the editor.
LEMMA TextsPlacesStart == ToolsInit => TextsPlaces
<1>1. 0 \in 0..MaxEdits
  BY ToolsAssumption DEF Texts!EditorAssumption
<1>2. OpenWithFile(Texts!Closed)
  BY DEF Texts!Closed, OpenWithFile
<1> SUFFICES ASSUME Texts!Init PROVE TextsPlaces
  BY DEF ToolsInit
<1>3. desk = Texts!Closed /\ Waited = {} /\ confirm = "" /\ edits = 0
  BY DEF Texts!Init, Waited
<1> QED
  BY <1>1, <1>2, <1>3 DEF TextsPlaces

\* Visits are counted from 1.
LEMMA FromOne ==
  ASSUME visits \in Nat, NEW f, NEW n, n = [file |-> f, visit |-> visits + 1]
  PROVE  n.visit >= 1
OBVIOUS

\* The bound on the edits.
LEMMA EditsInBound ==
  ASSUME NEW n \in 0..MaxEdits PROVE n < MaxEdits => n + 1 \in 0..MaxEdits
BY ToolsAssumption DEF Texts!EditorAssumption

\* A visit that was counted is one of the visits.
LEMMA OfTheVisits ==
  ASSUME visits \in Nat, NEW v \in Int, v >= 1, v <= visits PROVE v \in 1..visits
OBVIOUS

\* Another file is opened, or the editor is left, or turns to the differences.
LEMMA TextsMoves ==
  ASSUME TextsInv, TextsPlaces, UNCHANGED <<prompt, busy, edits>>,
         confirm' \in {"", "close", "diff"} \cup TextFiles,
         \/ \E f \in TextFiles : Texts!Visit(f, "edit") \/ Texts!Visit(f, "diff")
         \/ Texts!Leave
         \/ Texts!SetMode("edit") \/ Texts!SetMode("diff")
         \/ UNCHANGED <<desk, reads>>
  PROVE  TextsPlaces'
<1>0. visits \in Nat
  BY DEF TextsInv, TextsTypes
<1>1. ASSUME NEW f \in TextFiles, NEW mode, Texts!Visit(f, mode) PROVE TextsPlaces'
  <2>1. desk'.open = TRUE /\ desk'.file = {f} /\ desk'.dirty = FALSE
    BY <1>1 DEF Texts!Visit
  <2>2. PICK n : n = [file |-> f, visit |-> visits + 1] /\ reads' \subseteq reads \cup {n}
    BY <1>1 DEF Texts!Visit
  <2>3. n.visit >= 1
    BY <1>0, <2>2, FromOne
  <2>4. \A r \in Waited' : r \in Waited \/ r = n
    BY <2>2 DEF Waited
  <2>5. \A r \in Waited' : r.visit >= 1
    BY <2>3, <2>4 DEF TextsPlaces
  <2> QED
    BY <2>1, <2>5 DEF TextsPlaces, OpenWithFile
<1>2. CASE Texts!Leave
  <2>1. desk'.open = FALSE /\ desk'.file = {} /\ desk'.dirty = FALSE /\ UNCHANGED reads
    BY <1>2 DEF Texts!Leave, Texts!Closed
  <2> QED
    BY <2>1 DEF TextsPlaces, Waited, OpenWithFile
<1>3. ASSUME NEW mode, Texts!SetMode(mode) PROVE TextsPlaces'
  <2>1. /\ desk'.open = desk.open /\ desk'.file = desk.file /\ (desk'.dirty => desk.dirty)
        /\ UNCHANGED reads
    BY <1>3 DEF Texts!SetMode, TextsInv, TextsTypes, IsDesk
  <2> QED
    BY <2>1 DEF TextsPlaces, Waited, OpenWithFile
<1>4. CASE UNCHANGED <<desk, reads>>
  BY <1>4 DEF TextsPlaces, Waited
<1> QED
  BY <1>1, <1>2, <1>3, <1>4

\* What the user does with the files and the questions.
LEMMA TextsPlacesGestures ==
  ASSUME TextsInv, TextsPlaces,
         \/ \E f \in TextFiles : Texts!OpenWorkspace(f) \/ Texts!SelectResult(f) \/ Texts!OpenFile(f)
         \/ Texts!RequestClose \/ Texts!ShowDiff \/ Texts!ShowEdit
         \/ Texts!DiscardAndContinue \/ Texts!CancelConfirm
  PROVE  TextsPlaces'
<1>1. UNCHANGED <<prompt, busy, edits>>
  BY DEF Texts!OpenWorkspace, Texts!SelectResult, Texts!OpenFile, Texts!RequestClose, Texts!ShowDiff,
     Texts!ShowEdit, Texts!DiscardAndContinue, Texts!CancelConfirm, Texts!question
<1>2. confirm' \in {"", "close", "diff"} \cup TextFiles
  BY DEF TextsPlaces, Texts!OpenWorkspace, Texts!SelectResult, Texts!OpenFile, Texts!RequestClose, Texts!ShowDiff,
     Texts!ShowEdit, Texts!DiscardAndContinue, Texts!CancelConfirm, Texts!Ask
<1>3. \/ \E f \in TextFiles : Texts!Visit(f, "edit") \/ Texts!Visit(f, "diff")
      \/ Texts!Leave
      \/ Texts!SetMode("edit") \/ Texts!SetMode("diff")
      \/ UNCHANGED <<desk, reads>>
  BY DEF Texts!OpenWorkspace, Texts!SelectResult, Texts!OpenFile, Texts!RequestClose, Texts!ShowDiff,
     Texts!ShowEdit, Texts!DiscardAndContinue, Texts!CancelConfirm, Texts!Ask
<1> QED
  BY <1>1, <1>2, <1>3, TextsMoves

\* Reading and saving.
LEMMA TextsPlacesCalls ==
  ASSUME TextsInv, TextsPlaces,
         \/ \E r \in reads : Texts!Read(r) \/ Texts!ReadFails(r)
         \/ Texts!SubmitPassword \/ Texts!ClosePrompt
         \/ \E r \in busy : Texts!PasswordTaken(r) \/ Texts!PasswordRefused(r)
         \/ Texts!Type \/ Texts!Save
         \/ \E w \in writes : Texts!Saved(w) \/ Texts!SaveFails(w)
  PROVE  TextsPlaces'
<1>1. UNCHANGED confirm /\ Waited' \subseteq Waited
  BY DEF Texts!Read, Texts!ReadFails, Texts!SubmitPassword, Texts!ClosePrompt, Texts!PasswordTaken,
     Texts!PasswordRefused, Texts!Type, Texts!Save, Texts!Saved, Texts!SaveFails, Texts!question, Waited
<1>2. UNCHANGED edits \/ (edits < MaxEdits /\ edits' = edits + 1)
  BY DEF Texts!Read, Texts!ReadFails, Texts!SubmitPassword,
     Texts!ClosePrompt, Texts!PasswordTaken, Texts!PasswordRefused, Texts!Type, Texts!Save, Texts!Saved,
     Texts!SaveFails
<1>3. \/ UNCHANGED desk
      \/ desk' = [desk EXCEPT !.dirty = FALSE]
      \/ desk.open /\ desk' = [desk EXCEPT !.dirty = TRUE]
  BY DEF Texts!Read, Texts!ReadFails, Texts!SubmitPassword, Texts!ClosePrompt, Texts!PasswordTaken,
     Texts!PasswordRefused, Texts!Type, Texts!Save, Texts!Saved, Texts!SaveFails
<1>4. OpenWithFile(desk')
  BY <1>3 DEF TextsPlaces, TextsInv, TextsTypes, IsDesk, OpenWithFile
<1>5. edits' \in 0..MaxEdits
  BY <1>2, EditsInBound DEF TextsPlaces
<1> QED
  BY <1>1, <1>4, <1>5 DEF TextsPlaces

\* TextsPlaces holds in every behaviour of the tools.
LEMMA TextsPlacesAlways == ToolsSpec => []TextsPlaces
<1>1. ToolsInit => TextsPlaces
  BY TextsPlacesStart
<1>2. TextsInv /\ TextsPlaces /\ [Texts!Next]_ofTexts => TextsPlaces'
  <2> SUFFICES ASSUME TextsInv, TextsPlaces, [Texts!Next]_ofTexts PROVE TextsPlaces'
    OBVIOUS
  <2>1. CASE UNCHANGED ofTexts
    BY <2>1 DEF ofTexts, TextsPlaces, Waited
  <2>2. CASE Texts!Next
    BY <2>2, TextsPlacesGestures, TextsPlacesCalls DEF Texts!Next
  <2> QED
    BY <2>1, <2>2
<1>3. TextsInv /\ TextsPlaces /\ [ToolsNext]_toolsVars => TextsPlaces'
  BY <1>2, TextsSteps
<1> QED
  BY <1>1, <1>3, TextsAlways, PTL DEF ToolsSpec

\* So the editor has its types.
LEMMA TextsTyped == TextsInv /\ TextsPlaces => Texts!TypeOK
<1> SUFFICES ASSUME TextsInv, TextsPlaces PROVE Texts!TypeOK
  OBVIOUS
<1>1. desk.open = (desk.file # {}) /\ (desk.dirty => desk.open)
  BY DEF TextsPlaces, OpenWithFile
<1>2. \A r \in Waited : r.file \in TextFiles /\ r.visit \in 1..visits
  <2>1. visits \in Nat /\ \A r \in Waited : r.file \in TextFiles /\ r.visit \in Int /\ r.visit <= visits
    BY DEF TextsInv, TextsTypes
  <2>2. \A r \in Waited : r.visit >= 1
    BY DEF TextsPlaces
  <2> QED
    BY <2>1, <2>2, OfTheVisits
<1> QED
  BY <1>1, <1>2 DEF TextsInv, TextsTypes, TextsPlaces, Waited, Texts!TypeOK

-----------------------------------------------------------------------------
\* The prompt for a vault is of a vault while it is shown.
PromptOfAVault ==
  /\ vaultPrompt.mode \in {"", "lock", "unlock", "remove"}
  /\ vaultPrompt.mode # "" => vaultPrompt.path \in VaultPaths
  /\ vaultPrompt.path \in VaultPaths \cup {""} /\ vaultPrompt.typed \subseteq VaultPaths
\* That for an image is of an image while it is shown.
PromptOfAnImage ==
  /\ image.path \in Images \cup {""} /\ (image.open => image.path \in Images)
  /\ typed \subseteq Images /\ (typed # {} => image.open)
\* A call is numbered, and is for a vault or for an image by what it asks.
CallsOfTheirs ==
  /\ made \in Nat /\ \A c \in vaultCalls : c.id \in 1..made
  /\ \A c \in vaultCalls : c.op \in {"lock", "unlock", "remove", "job"} => c.path \in VaultPaths
  /\ \A c \in vaultCalls : c.op \in {"isEncrypted", "attach"} => c.path \in Images
\* A job has the number of the call that began it.
JobsOfCalls ==
  /\ vaultJobs \subseteq 1..made /\ job = [p \in Prompts!Panes |-> job[p]]
  /\ \A p \in Prompts!Panes : \A j \in job[p] : j.id \in 1..made /\ j.path \in VaultPaths
\* What every step of the prompts keeps of their types, beside PromptsInv.
PromptsPlaces == PromptOfAVault /\ PromptOfAnImage /\ CallsOfTheirs /\ JobsOfCalls

\* The initial states have the types of the prompts.
LEMMA PromptsPlacesStart == ToolsInit => PromptsPlaces
<1> SUFFICES ASSUME Prompts!Init PROVE PromptsPlaces
  BY DEF ToolsInit
<1>1. /\ vaultPrompt = Prompts!NoDialog /\ image = Prompts!NoImage /\ typed = {}
      /\ vaultCalls = {} /\ made = 0 /\ vaultJobs = {} /\ job = [p \in Prompts!Panes |-> {}]
  BY DEF Prompts!Init
<1>2. PromptOfAVault
  BY <1>1 DEF PromptOfAVault, Prompts!NoDialog
<1>3. PromptOfAnImage
  BY <1>1 DEF PromptOfAnImage, Prompts!NoImage
<1>4. CallsOfTheirs
  BY <1>1 DEF CallsOfTheirs
<1>5. JobsOfCalls
  BY <1>1 DEF JobsOfCalls
<1> QED
  BY <1>2, <1>3, <1>4, <1>5 DEF PromptsPlaces

\* The prompt stays of its vault until it is closed.
LEMMA PromptStaysOfAVault ==
  ASSUME PromptsInv, PromptOfAVault, Prompts!Next PROVE PromptOfAVault'
<1>1. ASSUME NEW m \in {"lock", "unlock", "remove"}, NEW q \in VaultPaths, NEW p, Prompts!OpenPrompt(m, q, p)
      PROVE PromptOfAVault'
  <2>1. PICK d : d = Prompts!NoDialog
    OBVIOUS
  <2>2. IsPrompt(d) /\ d.typed = {}
    BY <2>1 DEF Prompts!NoDialog, IsPrompt
  <2>3. vaultPrompt' = [d EXCEPT !.mode = m, !.path = q, !.pane = p, !.mount = mounts']
    BY <1>1, <2>1 DEF Prompts!OpenPrompt
  <2>4. vaultPrompt'.mode = m /\ vaultPrompt'.path = q /\ vaultPrompt'.typed = {}
    BY <2>2, <2>3 DEF IsPrompt
  <2> QED
    BY <2>4 DEF PromptOfAVault
<1>2. CASE Prompts!TypePassword
  <2>1. /\ vaultPrompt.mode # "" /\ vaultPrompt'.mode = vaultPrompt.mode /\ vaultPrompt'.path = vaultPrompt.path
        /\ vaultPrompt'.typed = {vaultPrompt.path}
    BY <1>2 DEF Prompts!TypePassword, PromptsInv, IsPrompt
  <2> QED
    BY <2>1 DEF PromptOfAVault
<1>3. CASE vaultPrompt' = Prompts!Shut
  <2>1. vaultPrompt'.mode = "" /\ vaultPrompt'.path = vaultPrompt.path /\ vaultPrompt'.typed = vaultPrompt.typed
    BY <1>3 DEF Prompts!Shut, PromptsInv, IsPrompt
  <2> QED
    BY <2>1 DEF PromptOfAVault
<1>4. ASSUME NEW b, vaultPrompt' = [vaultPrompt EXCEPT !.failed = b] PROVE PromptOfAVault'
  <2>1. /\ vaultPrompt'.mode = vaultPrompt.mode /\ vaultPrompt'.path = vaultPrompt.path
        /\ vaultPrompt'.typed = vaultPrompt.typed
    BY <1>4 DEF PromptsInv, IsPrompt
  <2> QED
    BY <2>1 DEF PromptOfAVault
<1>5. CASE UNCHANGED vaultPrompt
  BY <1>5 DEF PromptOfAVault
<1>6. ASSUME NEW c \in vaultCalls,
             \/ Prompts!JobBegins(c) \/ Prompts!JobShown(c) \/ Prompts!Unlocked(c) \/ Prompts!PromptFails(c)
             \/ Prompts!IsEncrypted(c) \/ Prompts!NotEncrypted(c)
             \/ Prompts!Attached(c) \/ Prompts!NeedsPassword(c) \/ Prompts!CallFails(c)
      PROVE UNCHANGED vaultPrompt \/ vaultPrompt' = Prompts!Shut \/ vaultPrompt' = [vaultPrompt EXCEPT !.failed = TRUE]
  BY <1>6 DEF Prompts!JobBegins, Prompts!JobShown, Prompts!Unlocked, Prompts!PromptFails, Prompts!IsEncrypted,
     Prompts!NotEncrypted, Prompts!Attached, Prompts!NeedsPassword, Prompts!CallFails, Prompts!Prompt,
     Prompts!prompts
<1>7. ASSUME \/ Prompts!ClosePrompt \/ Prompts!Submit
             \/ (\E id \in vaultJobs : Prompts!JobEnds(id)) \/ Prompts!VaultProgress
             \/ (\E p \in Prompts!Panes : Prompts!CancelJob(p))
             \/ \E i \in Images, p \in Prompts!Panes : Prompts!OpenImage(i, p)
             \/ Prompts!TypeImagePassword \/ Prompts!CloseImage \/ Prompts!SubmitImage
      PROVE \/ UNCHANGED vaultPrompt \/ vaultPrompt' = Prompts!Shut
            \/ vaultPrompt' = [vaultPrompt EXCEPT !.failed = FALSE]
  BY <1>7 DEF Prompts!ClosePrompt, Prompts!Submit, Prompts!JobEnds, Prompts!VaultProgress, Prompts!CancelJob,
     Prompts!OpenImage, Prompts!TypeImagePassword, Prompts!CloseImage, Prompts!SubmitImage, Prompts!prompts
<1> QED
  BY <1>1, <1>2, <1>3, <1>4, <1>5, <1>6, <1>7 DEF Prompts!Next

\* The prompt for an image is closed, or of another image.
LEMMA PromptStaysOfAnImage ==
  ASSUME CallsOfTheirs, PromptOfAnImage, Prompts!Next PROVE PromptOfAnImage'
<1>1. CASE image' = Prompts!NoImage /\ typed' = {}
  BY <1>1 DEF Prompts!NoImage, PromptOfAnImage
<1>2. ASSUME NEW c \in vaultCalls, NEW b, c.op \in {"isEncrypted", "attach"}, Prompts!Prompt(c, b)
      PROVE PromptOfAnImage'
  <2>1. image'.open = TRUE /\ image'.path = c.path /\ typed' = typed
    BY <1>2 DEF Prompts!Prompt
  <2>2. c.path \in Images
    BY <1>2 DEF CallsOfTheirs
  <2> QED
    BY <2>1, <2>2 DEF PromptOfAnImage
<1>3. CASE Prompts!TypeImagePassword
  BY <1>3 DEF Prompts!TypeImagePassword, PromptOfAnImage
<1>4. CASE UNCHANGED <<image, typed>>
  BY <1>4 DEF PromptOfAnImage
<1>5. ASSUME NEW c \in vaultCalls,
             \/ Prompts!JobBegins(c) \/ Prompts!JobShown(c) \/ Prompts!Unlocked(c) \/ Prompts!PromptFails(c)
             \/ Prompts!IsEncrypted(c) \/ Prompts!NotEncrypted(c)
             \/ Prompts!Attached(c) \/ Prompts!NeedsPassword(c) \/ Prompts!CallFails(c)
      PROVE \/ UNCHANGED <<image, typed>>
            \/ c.op \in {"isEncrypted", "attach"} /\ \E b : Prompts!Prompt(c, b)
  BY <1>5 DEF Prompts!JobBegins, Prompts!JobShown, Prompts!Unlocked, Prompts!PromptFails, Prompts!IsEncrypted,
     Prompts!NotEncrypted, Prompts!Attached, Prompts!NeedsPassword, Prompts!CallFails, Prompts!prompts
<1>6. ASSUME \/ \E m \in {"lock", "unlock", "remove"}, q \in VaultPaths, p \in Prompts!Panes : Prompts!OpenPrompt(m, q, p)
             \/ Prompts!TypePassword \/ Prompts!ClosePrompt \/ Prompts!Submit
      PROVE UNCHANGED <<image, typed>>
  BY <1>6 DEF Prompts!OpenPrompt, Prompts!TypePassword, Prompts!ClosePrompt, Prompts!Submit
<1>7. ASSUME \/ (\E id \in vaultJobs : Prompts!JobEnds(id)) \/ Prompts!VaultProgress
             \/ (\E p \in Prompts!Panes : Prompts!CancelJob(p))
             \/ \E i \in Images, p \in Prompts!Panes : Prompts!OpenImage(i, p)
      PROVE UNCHANGED <<image, typed>>
  BY <1>7 DEF Prompts!JobEnds, Prompts!VaultProgress, Prompts!CancelJob, Prompts!OpenImage, Prompts!prompts
<1>8. ASSUME Prompts!CloseImage \/ Prompts!SubmitImage
      PROVE image' = Prompts!NoImage /\ typed' = {}
  BY <1>8 DEF Prompts!CloseImage, Prompts!SubmitImage
<1> QED
  BY <1>1, <1>2, <1>3, <1>4, <1>5, <1>6, <1>7, <1>8 DEF Prompts!Next

\* A call is made for the vault or the image it is asked for, under a new number.
LEMMA CallMade ==
  ASSUME PromptsInv, CallsOfTheirs, NEW op, NEW path, NEW pane, NEW mount, NEW password,
         Prompts!Call(op, path, pane, mount, password),
         \/ op \in {"lock", "unlock", "remove"} /\ path \in VaultPaths
         \/ op \in {"isEncrypted", "attach"} /\ path \in Images
  PROVE CallsOfTheirs'
<1>1. PICK d : /\ d = [op |-> op, id |-> made', path |-> path, pane |-> pane, mount |-> mount,
                       password |-> password]
               /\ vaultCalls' = vaultCalls \cup {d}
  BY DEF Prompts!Call
<1>2. made \in Nat /\ made' = made + 1
  BY DEF Prompts!Call, CallsOfTheirs
<1>3. made' \in Nat /\ made' \in 1..made' /\ \A n \in 1..made : n \in 1..made'
  BY <1>2
<1>4. d.op = op /\ d.path = path /\ d.id = made'
  BY <1>1
<1> QED
  BY <1>1, <1>3, <1>4 DEF CallsOfTheirs

\* A call that goes on stays for the vault or the image it was made for.
LEMMA CallsStayTheirs ==
  ASSUME PromptsInv, CallsOfTheirs, PromptOfAVault, PromptOfAnImage, Prompts!Next PROVE CallsOfTheirs'
<1>1. CASE UNCHANGED made /\ vaultCalls' \subseteq vaultCalls
  BY <1>1 DEF CallsOfTheirs
<1>2. ASSUME NEW c \in vaultCalls, NEW d, UNCHANGED made, vaultCalls' = (vaultCalls \ {c}) \cup {d},
             \/ c.op \in {"lock", "remove"} /\ d = [c EXCEPT !.op = "job"]
             \/ c.op = "isEncrypted" /\ d = [c EXCEPT !.op = "attach"]
      PROVE CallsOfTheirs'
  <2>1. IsVaultCall(c)
    BY DEF PromptsInv
  <2>2. /\ d.id = c.id /\ d.path = c.path
        /\ \/ c.op \in {"lock", "remove"} /\ d.op = "job"
           \/ c.op = "isEncrypted" /\ d.op = "attach"
    BY <1>2, <2>1 DEF IsVaultCall
  <2> QED
    BY <1>2, <2>2 DEF CallsOfTheirs
<1>3. CASE Prompts!Submit
  <2>1. vaultPrompt.mode \in {"lock", "unlock", "remove"} /\ vaultPrompt.path \in VaultPaths
    BY <1>3 DEF Prompts!Submit, PromptOfAVault
  <2> QED
    BY <1>3, <2>1, CallMade DEF Prompts!Submit
<1>4. CASE Prompts!SubmitImage
  BY <1>4, CallMade DEF Prompts!SubmitImage, PromptOfAnImage
<1>5. ASSUME NEW i \in Images, NEW p, Prompts!OpenImage(i, p) PROVE CallsOfTheirs'
  BY <1>5, CallMade DEF Prompts!OpenImage
<1>6. ASSUME NEW c \in vaultCalls,
             \/ Prompts!JobBegins(c) \/ Prompts!JobShown(c) \/ Prompts!Unlocked(c) \/ Prompts!PromptFails(c)
             \/ Prompts!IsEncrypted(c) \/ Prompts!NotEncrypted(c)
             \/ Prompts!Attached(c) \/ Prompts!NeedsPassword(c) \/ Prompts!CallFails(c)
      PROVE CallsOfTheirs'
  <2>1. UNCHANGED made
    BY <1>6 DEF Prompts!JobBegins, Prompts!JobShown, Prompts!Unlocked, Prompts!PromptFails, Prompts!IsEncrypted,
       Prompts!NotEncrypted, Prompts!Attached, Prompts!NeedsPassword, Prompts!CallFails
  <2>2. CASE Prompts!JobBegins(c) \/ Prompts!NotEncrypted(c)
    <3>1. \E d : /\ vaultCalls' = (vaultCalls \ {c}) \cup {d}
                 /\ \/ c.op \in {"lock", "remove"} /\ d = [c EXCEPT !.op = "job"]
                    \/ c.op = "isEncrypted" /\ d = [c EXCEPT !.op = "attach"]
      BY <2>2 DEF Prompts!JobBegins, Prompts!NotEncrypted
    <3> QED
      BY <1>2, <2>1, <3>1
  <2>3. CASE ~(Prompts!JobBegins(c) \/ Prompts!NotEncrypted(c))
    <3>1. vaultCalls' = vaultCalls \ {c}
      BY <1>6, <2>3 DEF Prompts!JobShown, Prompts!Unlocked, Prompts!PromptFails, Prompts!IsEncrypted,
         Prompts!Attached, Prompts!NeedsPassword, Prompts!CallFails
    <3> QED
      BY <1>1, <2>1, <3>1
  <2> QED
    BY <2>2, <2>3
<1>7. ASSUME \/ \E m \in {"lock", "unlock", "remove"}, q \in VaultPaths, p \in Prompts!Panes : Prompts!OpenPrompt(m, q, p)
             \/ Prompts!TypePassword \/ Prompts!ClosePrompt
             \/ (\E id \in vaultJobs : Prompts!JobEnds(id)) \/ Prompts!VaultProgress
             \/ (\E p \in Prompts!Panes : Prompts!CancelJob(p))
             \/ Prompts!TypeImagePassword \/ Prompts!CloseImage
      PROVE UNCHANGED <<made, vaultCalls>>
  BY <1>7 DEF Prompts!OpenPrompt, Prompts!TypePassword, Prompts!ClosePrompt, Prompts!JobEnds,
     Prompts!VaultProgress, Prompts!CancelJob, Prompts!TypeImagePassword, Prompts!CloseImage
<1> QED
  BY <1>1, <1>3, <1>4, <1>5, <1>6, <1>7 DEF Prompts!Next

\* The numbers that were given stay given.
LEMMA NumbersStay ==
  ASSUME CallsOfTheirs, Prompts!Next PROVE \A n \in 1..made : n \in 1..made'
<1>1. made \in Nat
  BY DEF CallsOfTheirs
<1>2. UNCHANGED made \/ made' = made + 1
  <2>1. ASSUME \/ Prompts!Submit \/ Prompts!SubmitImage
               \/ \E i \in Images, p \in Prompts!Panes : Prompts!OpenImage(i, p)
        PROVE made' = made + 1
    BY <2>1 DEF Prompts!Submit, Prompts!SubmitImage, Prompts!OpenImage, Prompts!Call
  <2>2. ASSUME NEW c \in vaultCalls,
               \/ Prompts!JobBegins(c) \/ Prompts!JobShown(c) \/ Prompts!Unlocked(c) \/ Prompts!PromptFails(c)
               \/ Prompts!IsEncrypted(c) \/ Prompts!NotEncrypted(c)
               \/ Prompts!Attached(c) \/ Prompts!NeedsPassword(c) \/ Prompts!CallFails(c)
        PROVE UNCHANGED made
    BY <2>2 DEF Prompts!JobBegins, Prompts!JobShown, Prompts!Unlocked, Prompts!PromptFails, Prompts!IsEncrypted,
       Prompts!NotEncrypted, Prompts!Attached, Prompts!NeedsPassword, Prompts!CallFails
  <2>3. ASSUME \/ \E m \in {"lock", "unlock", "remove"}, q \in VaultPaths, p \in Prompts!Panes : Prompts!OpenPrompt(m, q, p)
               \/ Prompts!TypePassword \/ Prompts!ClosePrompt
               \/ (\E id \in vaultJobs : Prompts!JobEnds(id)) \/ Prompts!VaultProgress
               \/ (\E p \in Prompts!Panes : Prompts!CancelJob(p))
               \/ Prompts!TypeImagePassword \/ Prompts!CloseImage
        PROVE UNCHANGED made
    BY <2>3 DEF Prompts!OpenPrompt, Prompts!TypePassword, Prompts!ClosePrompt, Prompts!JobEnds,
       Prompts!VaultProgress, Prompts!CancelJob, Prompts!TypeImagePassword, Prompts!CloseImage
  <2> QED
    BY <2>1, <2>2, <2>3 DEF Prompts!Next
<1> QED
  BY <1>1, <1>2

\* A job is begun by a call, shown for it, and ended.
LEMMA JobsStayOfCalls ==
  ASSUME CallsOfTheirs, JobsOfCalls, Prompts!Next PROVE JobsOfCalls'
<1>0. \A n \in 1..made : n \in 1..made'
  BY NumbersStay
<1>1. vaultJobs' \subseteq 1..made'
  <2>1. CASE vaultJobs' \subseteq vaultJobs
    BY <1>0, <2>1 DEF JobsOfCalls
  <2>2. ASSUME NEW c \in vaultCalls, vaultJobs' = vaultJobs \cup {c.id} PROVE <1>1
    BY <1>0, <2>2 DEF JobsOfCalls, CallsOfTheirs
  <2>3. ASSUME NEW c \in vaultCalls,
               \/ Prompts!JobBegins(c) \/ Prompts!JobShown(c) \/ Prompts!Unlocked(c) \/ Prompts!PromptFails(c)
               \/ Prompts!IsEncrypted(c) \/ Prompts!NotEncrypted(c)
               \/ Prompts!Attached(c) \/ Prompts!NeedsPassword(c) \/ Prompts!CallFails(c)
        PROVE UNCHANGED vaultJobs \/ vaultJobs' = vaultJobs \cup {c.id}
    BY <2>3 DEF Prompts!JobBegins, Prompts!JobShown, Prompts!Unlocked, Prompts!PromptFails, Prompts!IsEncrypted,
       Prompts!NotEncrypted, Prompts!Attached, Prompts!NeedsPassword, Prompts!CallFails, Prompts!backend
  <2>4. ASSUME \/ \E m \in {"lock", "unlock", "remove"}, q \in VaultPaths, p \in Prompts!Panes : Prompts!OpenPrompt(m, q, p)
               \/ Prompts!TypePassword \/ Prompts!ClosePrompt \/ Prompts!Submit
               \/ (\E id \in vaultJobs : Prompts!JobEnds(id)) \/ Prompts!VaultProgress
               \/ (\E p \in Prompts!Panes : Prompts!CancelJob(p))
               \/ \E i \in Images, p \in Prompts!Panes : Prompts!OpenImage(i, p)
               \/ Prompts!TypeImagePassword \/ Prompts!CloseImage \/ Prompts!SubmitImage
        PROVE vaultJobs' \subseteq vaultJobs
    BY <2>4 DEF Prompts!OpenPrompt, Prompts!TypePassword, Prompts!ClosePrompt, Prompts!Submit, Prompts!JobEnds,
       Prompts!VaultProgress, Prompts!CancelJob, Prompts!OpenImage, Prompts!TypeImagePassword,
       Prompts!CloseImage, Prompts!SubmitImage, Prompts!backend
  <2> QED
    BY <2>1, <2>2, <2>3, <2>4 DEF Prompts!Next
<1>2. /\ job' = [p \in Prompts!Panes |-> job'[p]]
      /\ \A p \in Prompts!Panes : \A j \in job'[p] :
           j \in job[p] \/ \E c \in vaultCalls : c.op = "job" /\ j.id = c.id /\ j.path = c.path
  <2>1. CASE UNCHANGED job
    BY <2>1 DEF JobsOfCalls
  <2>2. ASSUME NEW c \in vaultCalls, c.op = "job",
               job' = [job EXCEPT ![c.pane] = {[id |-> c.id, path |-> c.path]}]
        PROVE <1>2
    <3>1. PICK r : r = [id |-> c.id, path |-> c.path] /\ job' = [job EXCEPT ![c.pane] = {r}]
      BY <2>2
    <3>2. r.id = c.id /\ r.path = c.path
      BY <3>1
    <3>3. job' = [p \in Prompts!Panes |-> job'[p]]
      BY <3>1 DEF JobsOfCalls
    <3>4. \A p \in Prompts!Panes : \A j \in job'[p] : j \in job[p] \/ j = r
      BY <3>1 DEF JobsOfCalls
    <3> QED
      BY <2>2, <3>2, <3>3, <3>4
  <2>3. ASSUME NEW q \in Prompts!Panes, job' = [job EXCEPT ![q] = {}] PROVE <1>2
    BY <2>3 DEF JobsOfCalls
  <2>4. CASE Prompts!VaultProgress
    BY <2>4 DEF Prompts!VaultProgress
  <2>5. ASSUME NEW c \in vaultCalls,
               \/ Prompts!JobBegins(c) \/ Prompts!JobShown(c) \/ Prompts!Unlocked(c) \/ Prompts!PromptFails(c)
               \/ Prompts!IsEncrypted(c) \/ Prompts!NotEncrypted(c)
               \/ Prompts!Attached(c) \/ Prompts!NeedsPassword(c) \/ Prompts!CallFails(c)
        PROVE \/ UNCHANGED job
              \/ c.op = "job" /\ job' = [job EXCEPT ![c.pane] = {[id |-> c.id, path |-> c.path]}]
    BY <2>5 DEF Prompts!JobBegins, Prompts!JobShown, Prompts!Unlocked, Prompts!PromptFails, Prompts!IsEncrypted,
       Prompts!NotEncrypted, Prompts!Attached, Prompts!NeedsPassword, Prompts!CallFails
  <2>6. ASSUME \/ \E m \in {"lock", "unlock", "remove"}, q \in VaultPaths, p \in Prompts!Panes : Prompts!OpenPrompt(m, q, p)
               \/ Prompts!TypePassword \/ Prompts!ClosePrompt \/ Prompts!Submit
               \/ (\E id \in vaultJobs : Prompts!JobEnds(id))
               \/ \E i \in Images, p \in Prompts!Panes : Prompts!OpenImage(i, p)
               \/ Prompts!TypeImagePassword \/ Prompts!CloseImage \/ Prompts!SubmitImage
        PROVE UNCHANGED job
    BY <2>6 DEF Prompts!OpenPrompt, Prompts!TypePassword, Prompts!ClosePrompt, Prompts!Submit, Prompts!JobEnds,
       Prompts!OpenImage, Prompts!TypeImagePassword, Prompts!CloseImage, Prompts!SubmitImage
  <2>7. ASSUME NEW p \in Prompts!Panes, Prompts!CancelJob(p) PROVE job' = [job EXCEPT ![p] = {}]
    BY <2>7 DEF Prompts!CancelJob
  <2> QED
    BY <2>1, <2>2, <2>3, <2>4, <2>5, <2>6, <2>7 DEF Prompts!Next
<1>3. \A p \in Prompts!Panes : \A j \in job'[p] : j.id \in 1..made /\ j.path \in VaultPaths
  BY <1>2 DEF JobsOfCalls, CallsOfTheirs
<1> QED
  BY <1>0, <1>1, <1>2, <1>3 DEF JobsOfCalls, Prompts!Panes

\* PromptsPlaces holds in every behaviour of the tools.
LEMMA PromptsPlacesAlways == ToolsSpec => []PromptsPlaces
<1>1. ToolsInit => PromptsPlaces
  BY PromptsPlacesStart
<1>2. PromptsInv /\ PromptsPlaces /\ [Prompts!Next]_ofPrompts => PromptsPlaces'
  <2> SUFFICES ASSUME PromptsInv, PromptsPlaces, [Prompts!Next]_ofPrompts PROVE PromptsPlaces'
    OBVIOUS
  <2>1. CASE UNCHANGED ofPrompts
    BY <2>1 DEF ofPrompts, PromptsPlaces, PromptOfAVault, PromptOfAnImage, CallsOfTheirs, JobsOfCalls, Prompts!Panes
  <2>2. CASE Prompts!Next
    BY <2>2, PromptStaysOfAVault, PromptStaysOfAnImage, CallsStayTheirs, JobsStayOfCalls DEF PromptsPlaces
  <2> QED
    BY <2>1, <2>2
<1>3. PromptsInv /\ PromptsPlaces /\ [ToolsNext]_toolsVars => PromptsPlaces'
  BY <1>2, PromptsSteps
<1> QED
  BY <1>1, <1>3, PromptsAlways, PTL DEF ToolsSpec

\* So the prompts have their types.
LEMMA PromptsTyped == PromptsPlaces => Prompts!TypeOK
BY DEF PromptsPlaces, PromptOfAVault, PromptOfAnImage, CallsOfTheirs, JobsOfCalls, Prompts!TypeOK

-----------------------------------------------------------------------------
\* The fields of a search, and what their patterns are made of.
IsFields(p) == p = [query |-> p.query, mode |-> p.mode, include |-> p.include]
Patterns == Roots \cup UNION {p.include : p \in SavedFields}
Rows == [query : Queries, path : Found]

\* What is searched for was typed, in a folder of the pane.
FieldsTyped ==
  /\ root \in Roots /\ IsFields(prefs) /\ prefs.query \in Queries /\ prefs.include \subseteq Patterns
\* So is what is asked of the backend, and what runs there.
SearchesTyped ==
  /\ \A c \in searchCalls : c.at \in Roots /\ \A w \in c.what : w.query \in Queries
  /\ \A r \in searches : r.query \in Queries
\* What was found is there.
HitsTyped ==
  /\ \A i \in DOMAIN hits : hits[i].query \in Queries /\ hits[i].path \in Found
  /\ Len(hits) <= MaxHits
\* A row is a path that was found, and the query it was found for.
RowsTyped == results \in Seq(Rows) /\ buffered \in Seq(Rows)
\* A dialog that is closed shows nothing and does nothing.
ClosedIsEmpty == searching \/ timer \/ results # <<>> \/ buffered # <<>> => searchOpen
\* What every step of the search keeps of its types, beside SearchInv.
SearchPlaces ==
  FieldsTyped /\ SearchesTyped /\ HitsTyped /\ RowsTyped /\ ClosedIsEmpty /\ asked \in 0..MaxSearches

\* The empty sequence is one of rows, and has no elements.
LEMMA NoRows == <<>> \in Seq(Rows) /\ Len(<<>>) = 0 /\ DOMAIN <<>> = {}
BY EmptySeq

\* The bounds on the searches and on what they find.
LEMMA SearchBounds == MaxSearches \in Nat /\ MaxHits \in Nat
BY ToolsAssumption DEF Search!SearchAssumption

\* Nothing is within them.
LEMMA NothingIsInBound == 0 <= MaxHits /\ 0 \in 0..MaxSearches
BY SearchBounds

\* The initial states have the types of the search.
LEMMA SearchPlacesStart == ToolsInit => SearchPlaces
<1> SUFFICES ASSUME Search!Init PROVE SearchPlaces
  BY DEF ToolsInit
<1>1. FieldsTyped
  <2>1. /\ root \in Roots /\ prefs.query = "" /\ prefs.include = {}
        /\ prefs = [query |-> "", mode |-> "content", include |-> {}]
    BY DEF Search!Init
  <2>2. IsFields(prefs)
    BY <2>1 DEF IsFields
  <2> QED
    BY <2>1, <2>2, ToolsAssumption DEF FieldsTyped, Search!SearchAssumption
<1>2. SearchesTyped
  BY DEF Search!Init, SearchesTyped
<1>3. HitsTyped
  <2>1. hits = <<>>
    BY DEF Search!Init
  <2> QED
    BY <2>1, NoRows, NothingIsInBound DEF HitsTyped
<1>4. RowsTyped
  BY NoRows DEF Search!Init, RowsTyped
<1>5. ClosedIsEmpty
  BY DEF Search!Init, ClosedIsEmpty
<1>6. asked = 0 /\ 0 \in 0..MaxSearches
  BY NothingIsInBound DEF Search!Init
<1> QED
  BY <1>1, <1>2, <1>3, <1>4, <1>5, <1>6 DEF SearchPlaces

\* The fields are typed, picked, or read from the settings.
LEMMA FieldsStayTyped ==
  ASSUME SearchesTyped, FieldsTyped, Search!Next PROVE FieldsTyped'
<1>1. CASE UNCHANGED <<root, prefs>>
  BY <1>1 DEF FieldsTyped
<1>2. ASSUME NEW c \in searchCalls, NEW p \in SavedFields, Search!PrefsLoaded(c, p) PROVE FieldsTyped'
  <2>1. p = [query |-> p.query, mode |-> p.mode, include |-> p.include] /\ p.query \in Queries
    BY ToolsAssumption DEF Search!SearchAssumption
  <2>2. c.at \in Roots /\ root \in Roots /\ root' = root
    BY <1>2 DEF Search!PrefsLoaded, SearchesTyped, FieldsTyped
  <2>3. p.include \subseteq Patterns
    BY DEF Patterns
  <2>4. Search!IncludeOf(p.include, c.at) \subseteq Patterns
    BY <2>2, <2>3 DEF Search!IncludeOf, Search!StripRoots, Patterns
  <2>5. {root} \cup Search!StripRoots(Search!IncludeOf(p.include, c.at)) \subseteq Patterns
    BY <2>2, <2>4 DEF Search!StripRoots, Patterns
  <2>6. PICK include : include \subseteq Patterns /\ prefs' = [p EXCEPT !.include = include]
    BY <1>2, <2>4, <2>5 DEF Search!PrefsLoaded, Search!InUse
  <2>7. IsFields(prefs') /\ prefs'.query = p.query /\ prefs'.include = include
    BY <2>1, <2>6 DEF IsFields
  <2> QED
    BY <2>1, <2>2, <2>6, <2>7 DEF FieldsTyped
<1>3. ASSUME NEW q \in Queries, Search!Patch([prefs EXCEPT !.query = q]) PROVE FieldsTyped'
  <2>1. prefs' = [prefs EXCEPT !.query = q] /\ root' = root
    BY <1>3 DEF Search!Patch
  <2>2. IsFields(prefs') /\ prefs'.query = q /\ prefs'.include = prefs.include
    BY <2>1 DEF FieldsTyped, IsFields
  <2> QED
    BY <2>1, <2>2 DEF FieldsTyped
<1>4. ASSUME NEW m, Search!Patch([prefs EXCEPT !.mode = m]) PROVE FieldsTyped'
  <2>1. prefs' = [prefs EXCEPT !.mode = m] /\ root' = root
    BY <1>4 DEF Search!Patch
  <2>2. IsFields(prefs') /\ prefs'.query = prefs.query /\ prefs'.include = prefs.include
    BY <2>1 DEF FieldsTyped, IsFields
  <2> QED
    BY <2>1, <2>2 DEF FieldsTyped
<1>5. ASSUME NEW r \in Roots, root' = r, prefs' = prefs \/ prefs' = [prefs EXCEPT !.include = Search!InUse(@, r)]
      PROVE FieldsTyped'
  <2>1. CASE prefs' = prefs
    BY <1>5, <2>1 DEF FieldsTyped
  <2>2. CASE prefs' = [prefs EXCEPT !.include = Search!InUse(@, r)]
    <3>1. /\ IsFields(prefs') /\ prefs'.query = prefs.query
          /\ prefs'.include = {r} \cup Search!StripRoots(prefs.include)
      BY <2>2 DEF FieldsTyped, IsFields, Search!InUse
    <3>2. prefs'.include \subseteq Patterns
      BY <3>1 DEF FieldsTyped, Search!StripRoots, Patterns
    <3> QED
      BY <1>5, <3>1, <3>2 DEF FieldsTyped
  <2> QED
    BY <1>5, <2>1, <2>2
<1>9. ASSUME NEW r \in Roots, Search!RootChanges(r) PROVE FieldsTyped'
  BY <1>5, <1>9 DEF Search!RootChanges
<1>10. ASSUME Search!OpenSearch PROVE FieldsTyped'
  <2>1. root \in Roots
    BY DEF FieldsTyped
  <2> QED
    BY <1>5, <1>10, <2>1 DEF Search!OpenSearch
<1>6. ASSUME NEW c \in searchCalls,
             \/ Search!JobIdKnown(c) \/ Search!Started(c) \/ Search!SearchFails(c)
             \/ Search!ReplacedOne(c) \/ Search!Replaced(c) \/ Search!CallFails(c)
      PROVE UNCHANGED <<root, prefs>>
  BY <1>6 DEF Search!JobIdKnown, Search!Started, Search!SearchFails, Search!ReplacedOne, Search!Replaced,
     Search!CallFails, Search!fields
<1>7. ASSUME \/ Search!TimerFires \/ Search!PressEnter
             \/ \E r \in searches, p \in Found, k \in {"hit", "denied", "done", "error"} : Search!Send(r, k, p)
             \/ Search!Handle \/ Search!FlushHits
      PROVE UNCHANGED <<root, prefs>>
  BY <1>7 DEF Search!TimerFires, Search!PressEnter, Search!Send, Search!Handle,
     Search!FlushHits, Search!fields
<1>8. ASSUME \/ Search!DismissDenied \/ Search!Close
             \/ (\E i \in 1..2 : Search!Hover(i) \/ Search!SelectResult(i))
             \/ Search!ReplaceOne \/ Search!ReplaceEverywhere
      PROVE UNCHANGED <<root, prefs>>
  BY <1>8 DEF Search!DismissDenied, Search!Close, Search!Hover, Search!SelectResult,
     Search!ReplaceOne, Search!ReplaceEverywhere, Search!fields
<1> QED
  BY <1>1, <1>2, <1>3, <1>4, <1>6, <1>7, <1>8, <1>9, <1>10 DEF Search!Next

\* A call that is made is for the folder of the pane.
LEMMA CallAt ==
  ASSUME FieldsTyped, NEW op, NEW k, k = Search!Call(op),
         NEW d, d = k \/ (\E i : d = [k EXCEPT !.row = i])
                \/ (\E n, w : w.query \in Queries /\ d = [k EXCEPT !.job = n, !.what = {w}])
  PROVE d.at \in Roots /\ \A w \in d.what : w.query \in Queries
<1>1. k.at = root /\ k.what = {} /\ IsSearchCall(k)
  BY DEF Search!Call, IsSearchCall
<1>2. CASE d = k
  BY <1>1, <1>2 DEF FieldsTyped
<1>3. CASE \E i : d = [k EXCEPT !.row = i]
  <2>1. d.at = root /\ d.what = {}
    BY <1>1, <1>3 DEF IsSearchCall
  <2> QED
    BY <2>1 DEF FieldsTyped
<1>4. CASE \E n, w : w.query \in Queries /\ d = [k EXCEPT !.job = n, !.what = {w}]
  <2>1. PICK n, w : w.query \in Queries /\ d = [k EXCEPT !.job = n, !.what = {w}]
    BY <1>4
  <2>2. d.at = root /\ d.what = {w}
    BY <1>1, <2>1 DEF IsSearchCall
  <2> QED
    BY <2>1, <2>2 DEF FieldsTyped
<1> QED
  BY <1>2, <1>3, <1>4

\* A search is begun for what the fields say.
LEMMA RunIsTyped ==
  ASSUME FieldsTyped, SearchesTyped, NEW answered, NEW at, Search!RunSearch(answered, at)
  PROVE SearchesTyped'
<1>1. searches' \subseteq searches
  BY DEF Search!RunSearch
<1>2. \/ searchCalls' \subseteq searchCalls
      \/ \E w : /\ w = [query |-> prefs.query, include |-> Search!IncludePatterns(prefs.include, at), at |-> at]
                /\ searchCalls' = (searchCalls \ answered)
                     \cup {[Search!Call("newJob") EXCEPT !.job = asked + 1, !.what = {w}]}
  BY DEF Search!RunSearch
<1>3. CASE searchCalls' \subseteq searchCalls
  BY <1>1, <1>3 DEF SearchesTyped
<1>4. ASSUME NEW w, w = [query |-> prefs.query, include |-> Search!IncludePatterns(prefs.include, at), at |-> at],
             searchCalls' = (searchCalls \ answered)
                     \cup {[Search!Call("newJob") EXCEPT !.job = asked + 1, !.what = {w}]}
      PROVE SearchesTyped'
  <2>1. w.query \in Queries
    BY <1>4 DEF FieldsTyped
  <2>2. PICK k : k = Search!Call("newJob")
    OBVIOUS
  <2>3. PICK d : d = [k EXCEPT !.job = asked + 1, !.what = {w}] /\ searchCalls' = (searchCalls \ answered) \cup {d}
    BY <1>4, <2>2
  <2>4. d.at \in Roots /\ \A v \in d.what : v.query \in Queries
    BY <2>1, <2>2, <2>3, CallAt
  <2> QED
    BY <1>1, <2>3, <2>4 DEF SearchesTyped
<1> QED
  BY <1>2, <1>3, <1>4

\* What is asked of the backend was typed.
LEMMA SearchesStayTyped ==
  ASSUME SearchInv, FieldsTyped, SearchesTyped, Search!Next PROVE SearchesTyped'
<1>1. CASE searchCalls' \subseteq searchCalls /\ searches' \subseteq searches
  BY <1>1 DEF SearchesTyped
<1>2. CASE Search!OpenSearch \/ Search!ReplaceEverywhere
  <2>1. PICK op : searchCalls' = searchCalls \cup {Search!Call(op)} /\ UNCHANGED searches
    BY <1>2 DEF Search!OpenSearch, Search!ReplaceEverywhere, Search!backend
  <2>2. PICK d : d = Search!Call(op)
    OBVIOUS
  <2>3. d.at \in Roots /\ \A w \in d.what : w.query \in Queries
    BY <2>2, CallAt
  <2> QED
    BY <2>1, <2>2, <2>3 DEF SearchesTyped
<1>3. CASE Search!ReplaceOne
  <2>1. searchCalls' = searchCalls \cup {[Search!Call("replaceOne") EXCEPT !.row = index]} /\ UNCHANGED searches
    BY <1>3 DEF Search!ReplaceOne, Search!backend
  <2>2. PICK k : k = Search!Call("replaceOne")
    OBVIOUS
  <2>3. PICK d : d = [k EXCEPT !.row = index]
    OBVIOUS
  <2>4. d.at \in Roots /\ \A w \in d.what : w.query \in Queries
    BY <2>2, <2>3, CallAt
  <2> QED
    BY <2>1, <2>2, <2>3, <2>4 DEF SearchesTyped
<1>4. CASE Search!TimerFires \/ Search!PressEnter \/ \E c \in searchCalls : Search!Replaced(c)
  <2>1. \E answered, at : Search!RunSearch(answered, at)
    BY <1>4 DEF Search!TimerFires, Search!PressEnter, Search!Replaced
  <2> QED
    BY <2>1, RunIsTyped
<1>5. ASSUME NEW c \in searchCalls, Search!JobIdKnown(c) PROVE SearchesTyped'
  <2>1. PICK d : d = [c EXCEPT !.op = "start"] /\ searchCalls' = (searchCalls \ {c}) \cup {d} /\ UNCHANGED searches
    BY <1>5 DEF Search!JobIdKnown, Search!backend
  <2>2. d.at = c.at /\ d.what = c.what
    BY <2>1 DEF SearchInv, SearchShapes, IsSearchCall
  <2> QED
    BY <2>1, <2>2 DEF SearchesTyped
<1>6. ASSUME NEW c \in searchCalls, Search!Started(c) PROVE SearchesTyped'
  <2>1. searchCalls' \subseteq searchCalls /\ searches' = searches \cup {[job |-> c.job, query |-> w.query] : w \in c.what}
    BY <1>6 DEF Search!Started
  <2>2. \A r \in searches' : r \in searches \/ \E w \in c.what : r.query = w.query
    BY <2>1
  <2> QED
    BY <2>1, <2>2 DEF SearchesTyped
<1>7. ASSUME NEW c \in searchCalls,
             \/ \E p \in SavedFields : Search!PrefsLoaded(c, p)
             \/ Search!SearchFails(c) \/ Search!ReplacedOne(c) \/ Search!CallFails(c)
      PROVE searchCalls' \subseteq searchCalls /\ searches' \subseteq searches
  BY <1>7 DEF Search!PrefsLoaded, Search!SearchFails, Search!ReplacedOne, Search!CallFails, Search!backend
<1>8. ASSUME \/ \E q \in Queries : Search!Patch([prefs EXCEPT !.query = q])
             \/ \E m \in {"content", "files"} : Search!Patch([prefs EXCEPT !.mode = m])
             \/ \E r \in Roots : Search!RootChanges(r)
             \/ \E r \in searches, p \in Found, k \in {"hit", "denied", "done", "error"} : Search!Send(r, k, p)
             \/ Search!Handle \/ Search!FlushHits
      PROVE searchCalls' \subseteq searchCalls /\ searches' \subseteq searches
  BY <1>8 DEF Search!Patch, Search!RootChanges, Search!Send, Search!Handle, Search!FlushHits, Search!backend
<1>9. ASSUME \/ Search!DismissDenied \/ Search!Close
             \/ (\E i \in 1..2 : Search!Hover(i) \/ Search!SelectResult(i))
      PROVE searchCalls' \subseteq searchCalls /\ searches' \subseteq searches
  BY <1>9 DEF Search!DismissDenied, Search!Close, Search!Hover, Search!SelectResult, Search!backend
<1> QED
  BY <1>1, <1>2, <1>3, <1>4, <1>5, <1>6, <1>7, <1>8, <1>9 DEF Search!Next

\* What the backend found, it found for what runs there.
LEMMA HitsStayTyped ==
  ASSUME SearchInv, SearchesTyped, HitsTyped, Search!Next PROVE HitsTyped'
<1>0. PICK S : hits \in Seq(S)
  BY DEF SearchInv, SearchShapes
<1>1. PICK n \in Nat : n = Len(hits) /\ DOMAIN hits = 1..n
  BY <1>0, LenProperties
<1>2. ASSUME NEW r \in searches, NEW k, NEW p \in Found, Search!Send(r, k, p) PROVE HitsTyped'
  <2>1. PICK e : e = [kind |-> k, job |-> r.job, query |-> r.query, path |-> p] /\ hits' = Append(hits, e)
    BY <1>2 DEF Search!Send
  <2>2. e.query \in Queries /\ e.path \in Found
    BY <2>1 DEF SearchesTyped
  <2>3. hits \in Seq(S \cup {e})
    <3>1. hits \in [1..Len(hits) -> S \cup {e}] /\ Len(hits) \in Nat
      BY <1>0, LenProperties
    <3> QED
      BY <3>1, IsASeq
  <2>4. /\ hits' \in Seq(S \cup {e}) /\ Len(hits') = n + 1 /\ hits'[n + 1] = e
        /\ \A i \in 1..n : hits'[i] = hits[i]
    BY <1>1, <2>1, <2>3, AppendProperties
  <2>5. DOMAIN hits' = 1..(n + 1)
    BY <2>4, LenProperties
  <2>6. Len(hits) < MaxHits
    BY <1>2 DEF Search!Send
  <2>7. Len(hits') <= MaxHits
    BY <1>1, <2>4, <2>6, SearchBounds
  <2>8. \A i \in 1..(n + 1) : i \in 1..n \/ i = n + 1
    OBVIOUS
  <2> QED
    BY <1>1, <2>2, <2>4, <2>5, <2>7, <2>8 DEF HitsTyped
<1>3. CASE Search!Handle
  <2>1. hits # <<>> /\ hits' = Tail(hits)
    BY <1>3 DEF Search!Handle
  <2>2. /\ hits' \in Seq(S) /\ Len(hits') = n - 1
        /\ \A i \in 1..(n - 1) : hits'[i] = hits[i + 1]
    BY <1>0, <1>1, <2>1, HeadTailProperties
  <2>3. DOMAIN hits' = 1..(n - 1)
    BY <2>2, LenProperties
  <2>4. Len(hits') <= MaxHits
    BY <1>1, <2>2, SearchBounds DEF HitsTyped
  <2>5. \A i \in 1..(n - 1) : i + 1 \in 1..n
    OBVIOUS
  <2> QED
    BY <1>1, <2>2, <2>3, <2>4, <2>5 DEF HitsTyped
<1>4. CASE UNCHANGED hits
  BY <1>4 DEF HitsTyped
<1>5. ASSUME NEW c \in searchCalls,
             \/ \E p \in SavedFields : Search!PrefsLoaded(c, p)
             \/ Search!JobIdKnown(c) \/ Search!Started(c) \/ Search!SearchFails(c)
             \/ Search!ReplacedOne(c) \/ Search!Replaced(c) \/ Search!CallFails(c)
      PROVE UNCHANGED hits
  BY <1>5 DEF Search!PrefsLoaded, Search!JobIdKnown, Search!Started, Search!SearchFails, Search!ReplacedOne,
     Search!Replaced, Search!CallFails, Search!backend
<1>6. ASSUME \/ Search!OpenSearch
             \/ \E q \in Queries : Search!Patch([prefs EXCEPT !.query = q])
             \/ \E m \in {"content", "files"} : Search!Patch([prefs EXCEPT !.mode = m])
             \/ \E r \in Roots : Search!RootChanges(r)
             \/ Search!TimerFires \/ Search!PressEnter \/ Search!FlushHits
      PROVE UNCHANGED hits
  BY <1>6 DEF Search!OpenSearch, Search!Patch, Search!RootChanges, Search!TimerFires, Search!PressEnter,
     Search!FlushHits, Search!backend
<1>7. ASSUME \/ Search!DismissDenied \/ Search!Close
             \/ (\E i \in 1..2 : Search!Hover(i) \/ Search!SelectResult(i))
             \/ Search!ReplaceOne \/ Search!ReplaceEverywhere
      PROVE UNCHANGED hits
  BY <1>7 DEF Search!DismissDenied, Search!Close, Search!Hover, Search!SelectResult,
     Search!ReplaceOne, Search!ReplaceEverywhere, Search!backend
<1> QED
  BY <1>2, <1>3, <1>4, <1>5, <1>6, <1>7 DEF Search!Next

\* The event that is handled is one that was found.
LEMMA HandledIsTyped ==
  ASSUME SearchInv, HitsTyped, hits # <<>> PROVE Head(hits).query \in Queries /\ Head(hits).path \in Found
<1>1. PICK S : hits \in Seq(S)
  BY DEF SearchInv, SearchShapes
<1>2. Len(hits) \in Nat \ {0} /\ DOMAIN hits = 1..Len(hits)
  BY <1>1, EmptySeq, LenProperties
<1>3. 1 \in DOMAIN hits /\ Head(hits) = hits[1]
  BY <1>1, <1>2
<1> QED
  BY <1>3 DEF HitsTyped

\* A list without one of its rows is a list of rows.
LEMMA RemovedRow ==
  ASSUME RowsTyped, NEW i \in DOMAIN results PROVE Search!RemoveAt(results, i) \in Seq(Rows)
<1>1. results \in Seq(Rows) /\ DOMAIN results = 1..Len(results) /\ Len(results) \in Nat
  BY LenProperties DEF RowsTyped
<1>2. i \in Nat /\ i >= 1 /\ i <= Len(results)
  BY <1>1
<1>3. \A j \in 1..(i - 1) : results[j] \in Rows
  BY <1>1, <1>2, ElementOfSeq
<1>4. \A j \in (i + 1)..Len(results) : results[j] \in Rows
  BY <1>1, <1>2, ElementOfSeq
<1>5. SubSeq(results, 1, i - 1) \in Seq(Rows)
  BY <1>2, <1>3, SubSeqProperties
<1>6. SubSeq(results, i + 1, Len(results)) \in Seq(Rows)
  BY <1>1, <1>2, <1>4, SubSeqProperties
<1> QED
  BY <1>5, <1>6, ConcatProperties DEF Search!RemoveAt

\* The rows that are shown were found.
LEMMA RowsStayTyped ==
  ASSUME SearchInv, HitsTyped, RowsTyped, Search!Next PROVE RowsTyped'
<1>0. results \o buffered \in Seq(Rows)
  BY ConcatProperties DEF RowsTyped
<1>1. CASE results' \in {results, <<>>, results \o buffered} /\ buffered' \in {buffered, <<>>}
  BY <1>0, <1>1, NoRows DEF RowsTyped
<1>2. CASE Search!Handle
  <2>1. CASE results' \in {results, results \o buffered} /\ buffered' \in {buffered, <<>>}
    BY <1>1, <2>1
  <2>2. ASSUME NEW r, r = [query |-> Head(hits).query, path |-> Head(hits).path],
               UNCHANGED results, buffered' = Append(buffered, r)
        PROVE RowsTyped'
    <3>1. r \in Rows
      BY <1>2, <2>2, HandledIsTyped DEF Rows, Search!Handle
    <3> QED
      BY <2>2, <3>1, AppendProperties DEF RowsTyped
  <2>3. \/ results' \in {results, results \o buffered} /\ buffered' \in {buffered, <<>>}
        \/ /\ UNCHANGED results
           /\ \E r : /\ r = [query |-> Head(hits).query, path |-> Head(hits).path]
                     /\ buffered' = Append(buffered, r)
    BY <1>2 DEF Search!Handle
  <2> QED
    BY <2>1, <2>2, <2>3
<1>3. ASSUME NEW c, Search!ReplacedOne(c) PROVE RowsTyped'
  <2>1. UNCHANGED buffered /\ (results' = results \/ (c.row \in DOMAIN results /\ results' = Search!RemoveAt(results, c.row)))
    BY <1>3 DEF Search!ReplacedOne
  <2> QED
    BY <1>1, <2>1, RemovedRow DEF RowsTyped
<1>4. ASSUME NEW c \in searchCalls,
             \/ \E p \in SavedFields : Search!PrefsLoaded(c, p)
             \/ Search!JobIdKnown(c) \/ Search!Started(c) \/ Search!SearchFails(c)
             \/ Search!Replaced(c) \/ Search!CallFails(c)
      PROVE results' \in {results, <<>>} /\ UNCHANGED buffered
  BY <1>4 DEF Search!PrefsLoaded, Search!JobIdKnown, Search!Started, Search!SearchFails,
     Search!Replaced, Search!CallFails, Search!list, Search!Debounce, Search!RunSearch
<1>5. ASSUME \/ Search!OpenSearch
             \/ \E q \in Queries : Search!Patch([prefs EXCEPT !.query = q])
             \/ \E m \in {"content", "files"} : Search!Patch([prefs EXCEPT !.mode = m])
             \/ \E r \in Roots : Search!RootChanges(r)
             \/ Search!TimerFires \/ Search!PressEnter
      PROVE results' \in {results, <<>>} /\ UNCHANGED buffered
  BY <1>5 DEF Search!OpenSearch, Search!Patch, Search!RootChanges, Search!TimerFires, Search!PressEnter,
     Search!Debounce, Search!RunSearch
<1>6. ASSUME \/ \E r \in searches, p \in Found, k \in {"hit", "denied", "done", "error"} : Search!Send(r, k, p)
             \/ Search!FlushHits \/ Search!DismissDenied
             \/ (\E i \in 1..2 : Search!Hover(i))
             \/ Search!ReplaceOne \/ Search!ReplaceEverywhere
      PROVE results' \in {results, results \o buffered} /\ buffered' \in {buffered, <<>>}
  BY <1>6 DEF Search!Send, Search!FlushHits, Search!DismissDenied, Search!Hover, Search!ReplaceOne,
     Search!ReplaceEverywhere, Search!list
<1>7. ASSUME Search!Close \/ \E i \in 1..2 : Search!SelectResult(i) PROVE results' = <<>> /\ buffered' = <<>>
  BY <1>7 DEF Search!Close, Search!SelectResult
<1> QED
  BY <1>1, <1>2, <1>3, <1>4, <1>5, <1>6, <1>7 DEF Search!Next

\* What is shown or done from now on, is shown already or by an open dialog.
NothingIsNewWhenClosed ==
  /\ searchOpen => searchOpen'
  /\ searching' => searching \/ searchOpen'
  /\ timer' => timer \/ searchOpen'
  /\ results' # <<>> => results # <<>> \/ searchOpen'
  /\ buffered' # <<>> => buffered # <<>> \/ searchOpen'

\* A dialog that is closed forgets what it showed, and what comes is not shown.
LEMMA ClosedStaysEmpty ==
  ASSUME SearchInv, RowsTyped, ClosedIsEmpty, Search!Next PROVE ClosedIsEmpty'
<1>1. CASE NothingIsNewWhenClosed
  BY <1>1 DEF ClosedIsEmpty, NothingIsNewWhenClosed
<1>2. ASSUME Search!Close \/ \E i \in 1..2 : Search!SelectResult(i)
      PROVE ClosedIsEmpty'
  <2>1. searching' = FALSE /\ timer' = FALSE /\ results' = <<>> /\ buffered' = <<>>
    BY <1>2 DEF Search!Close, Search!SelectResult
  <2> QED
    BY <2>1 DEF ClosedIsEmpty
<1>3. CASE /\ UNCHANGED buffered /\ results' \in {results, <<>>}
           /\ searchOpen' = searchOpen \/ searchOpen' = TRUE
           /\ searching' = searching \/ searching' = searchOpen' \/ searching' = FALSE
           /\ timer' = timer \/ timer' = FALSE \/ (timer' => searchOpen')
  BY <1>1, <1>3 DEF NothingIsNewWhenClosed
<1>4. ASSUME NEW answered, NEW at, Search!RunSearch(answered, at)
      PROVE results' \in {results, <<>>} /\ (searching' = searching \/ searching' = searchOpen)
  BY <1>4 DEF Search!RunSearch
<1>5. ASSUME Search!Debounce PROVE results' \in {results, <<>>} /\ (timer' => searchOpen')
  BY <1>5 DEF Search!Debounce
<1>6. ASSUME NEW c \in searchCalls, (\E p \in SavedFields : Search!PrefsLoaded(c, p)) PROVE ClosedIsEmpty'
  <2>1. UNCHANGED <<buffered, searchOpen, searching>> /\ Search!Debounce
    BY <1>6 DEF Search!PrefsLoaded
  <2> QED
    BY <1>3, <1>5, <2>1
<1>7. ASSUME NEW c \in searchCalls, Search!Replaced(c) PROVE ClosedIsEmpty'
  <2>1. UNCHANGED <<buffered, searchOpen, timer>> /\ \E answered, at : Search!RunSearch(answered, at)
    BY <1>7 DEF Search!Replaced, Search!fields
  <2> QED
    BY <1>3, <1>4, <2>1
<1>8. ASSUME NEW c \in searchCalls, Search!JobIdKnown(c) \/ Search!Started(c) \/ Search!SearchFails(c) \/ Search!CallFails(c)
       PROVE ClosedIsEmpty'
  <2>1. /\ UNCHANGED <<buffered, results, searchOpen, timer>>
        /\ searching' = searching \/ searching' = FALSE
    BY <1>8 DEF Search!JobIdKnown, Search!Started, Search!SearchFails, Search!CallFails, Search!fields, Search!list
  <2> QED
    BY <1>3, <2>1
<1>9. ASSUME Search!OpenSearch \/ (\E p : Search!Patch(p)) \/ \E r \in Roots : Search!RootChanges(r)
      PROVE ClosedIsEmpty'
  <2>1. /\ UNCHANGED <<buffered, searching>> /\ (searchOpen' = searchOpen \/ searchOpen' = TRUE)
        /\ Search!Debounce
    BY <1>9 DEF Search!OpenSearch, Search!Patch, Search!RootChanges
  <2> QED
    BY <1>3, <1>5, <2>1
<1>10. CASE Search!TimerFires \/ Search!PressEnter
  <2>1. /\ UNCHANGED <<buffered, searchOpen>> /\ (timer' = timer \/ timer' = FALSE)
        /\ \E answered, at : Search!RunSearch(answered, at)
    BY <1>10 DEF Search!TimerFires, Search!PressEnter, Search!fields
  <2> QED
    BY <1>3, <1>4, <2>1
<1>11. ASSUME \/ \E r \in searches, p \in Found, k \in {"hit", "denied", "done", "error"} : Search!Send(r, k, p)
              \/ Search!DismissDenied \/ (\E i \in 1..2 : Search!Hover(i))
              \/ Search!ReplaceOne \/ Search!ReplaceEverywhere
       PROVE ClosedIsEmpty'
  <2>1. UNCHANGED <<buffered, results, searchOpen, timer, searching>>
    BY <1>11 DEF Search!Send, Search!DismissDenied, Search!Hover, Search!ReplaceOne,
       Search!ReplaceEverywhere, Search!list, Search!fields
  <2> QED
    BY <1>3, <2>1
<1>12. CASE Search!FlushHits
  <2>1. searchOpen /\ searchOpen'
    BY <1>12 DEF Search!FlushHits, Search!fields, ClosedIsEmpty
  <2> QED
    BY <1>1, <2>1 DEF NothingIsNewWhenClosed
<1>13. CASE Search!Handle
  <2>1. /\ searchOpen' = searchOpen /\ timer' = timer /\ (searching' => searching)
        /\ ~searchOpen => results' = results /\ buffered' = buffered
    BY <1>13 DEF Search!Handle, Search!fields
  <2> QED
    BY <1>1, <2>1 DEF NothingIsNewWhenClosed
<1>14. ASSUME NEW c, Search!ReplacedOne(c) PROVE ClosedIsEmpty'
  <2>1. /\ UNCHANGED <<searchOpen, timer, searching, buffered>>
        /\ results' = results \/ c.row \in DOMAIN results
    BY <1>14 DEF Search!ReplacedOne, Search!fields
  <2>2. CASE results' = results
    BY <1>1, <2>1, <2>2 DEF NothingIsNewWhenClosed
  <2>3. CASE c.row \in DOMAIN results
    <3>1. results # <<>>
      BY <2>3, NoRows
    <3> QED
      BY <1>1, <2>1, <3>1 DEF NothingIsNewWhenClosed
  <2> QED
    BY <2>1, <2>2, <2>3
<1>15. ASSUME NEW c \in searchCalls,
              \/ \E p \in SavedFields : Search!PrefsLoaded(c, p)
              \/ Search!JobIdKnown(c) \/ Search!Started(c) \/ Search!SearchFails(c)
              \/ Search!ReplacedOne(c) \/ Search!Replaced(c) \/ Search!CallFails(c)
       PROVE ClosedIsEmpty'
  BY <1>6, <1>7, <1>8, <1>14, <1>15
<1> QED
  BY <1>2, <1>9, <1>10, <1>11, <1>12, <1>13, <1>15 DEF Search!Next

\* Searches are counted, up to the bound.
LEMMA SearchesInBound ==
  ASSUME asked \in 0..MaxSearches, Search!Next PROVE asked' \in 0..MaxSearches
<1>1. ASSUME NEW answered, NEW at, Search!RunSearch(answered, at)
      PROVE UNCHANGED asked \/ (asked # MaxSearches /\ asked' = asked + 1)
  BY <1>1 DEF Search!RunSearch
<1>2. asked # MaxSearches => asked + 1 \in 0..MaxSearches
  BY SearchBounds
<1>3. ASSUME NEW c \in searchCalls,
             \/ \E p \in SavedFields : Search!PrefsLoaded(c, p)
             \/ Search!JobIdKnown(c) \/ Search!Started(c) \/ Search!SearchFails(c)
             \/ Search!ReplacedOne(c) \/ Search!CallFails(c)
      PROVE UNCHANGED asked
  BY <1>3 DEF Search!PrefsLoaded, Search!JobIdKnown, Search!Started, Search!SearchFails, Search!ReplacedOne,
     Search!CallFails
<1>4. ASSUME \/ Search!OpenSearch
             \/ \E q \in Queries : Search!Patch([prefs EXCEPT !.query = q])
             \/ \E m \in {"content", "files"} : Search!Patch([prefs EXCEPT !.mode = m])
             \/ \E r \in Roots : Search!RootChanges(r)
             \/ Search!Handle \/ Search!FlushHits
      PROVE UNCHANGED asked
  BY <1>4 DEF Search!OpenSearch, Search!Patch, Search!RootChanges, Search!Handle, Search!FlushHits
<1>5. ASSUME \/ \E r \in searches, p \in Found, k \in {"hit", "denied", "done", "error"} : Search!Send(r, k, p)
             \/ Search!DismissDenied \/ Search!Close
             \/ (\E i \in 1..2 : Search!Hover(i) \/ Search!SelectResult(i))
             \/ Search!ReplaceOne \/ Search!ReplaceEverywhere
      PROVE UNCHANGED asked
  BY <1>5 DEF Search!Send, Search!DismissDenied, Search!Close, Search!Hover, Search!SelectResult,
     Search!ReplaceOne, Search!ReplaceEverywhere
<1>6. ASSUME Search!TimerFires \/ Search!PressEnter \/ \E c \in searchCalls : Search!Replaced(c)
      PROVE \E answered, at : Search!RunSearch(answered, at)
  BY <1>6 DEF Search!TimerFires, Search!PressEnter, Search!Replaced
<1>7. UNCHANGED asked \/ (asked # MaxSearches /\ asked' = asked + 1)
  BY <1>1, <1>3, <1>4, <1>5, <1>6 DEF Search!Next
<1> QED
  BY <1>2, <1>7

\* SearchPlaces holds in every behaviour of the tools.
LEMMA SearchPlacesAlways == ToolsSpec => []SearchPlaces
<1>1. ToolsInit => SearchPlaces
  BY SearchPlacesStart
<1>2. SearchInv /\ SearchPlaces /\ [Search!Next]_ofSearch => SearchPlaces'
  <2> SUFFICES ASSUME SearchInv, SearchPlaces, [Search!Next]_ofSearch PROVE SearchPlaces'
    OBVIOUS
  <2>1. CASE UNCHANGED ofSearch
    <3>1. UNCHANGED <<searchOpen, root, prefs, timer, results, searching, buffered, searchCalls, searches, asked, hits>>
      BY <2>1 DEF ofSearch
    <3> QED
      BY <3>1 DEF SearchPlaces, FieldsTyped, SearchesTyped, HitsTyped, RowsTyped, ClosedIsEmpty
  <2>2. CASE Search!Next
    BY <2>2, FieldsStayTyped, SearchesStayTyped, HitsStayTyped, RowsStayTyped, ClosedStaysEmpty, SearchesInBound
    DEF SearchPlaces
  <2> QED
    BY <2>1, <2>2
<1>3. SearchInv /\ SearchPlaces /\ [ToolsNext]_toolsVars => SearchPlaces'
  BY <1>2, SearchSteps
<1> QED
  BY <1>1, <1>3, SearchAlways, PTL DEF ToolsSpec

\* So the search has its types.
LEMMA SearchTyped == SearchPlaces => Search!TypeOK
<1> SUFFICES ASSUME SearchPlaces PROVE Search!TypeOK
  OBVIOUS
<1>1. PICK shown : shown = results \o buffered /\ shown \in Seq(Rows)
  BY ConcatProperties DEF SearchPlaces, RowsTyped
<1>2. \A i \in DOMAIN shown : shown[i].query \in Queries /\ shown[i].path \in Found
  <2>1. DOMAIN shown = 1..Len(shown) /\ \A i \in 1..Len(shown) : shown[i] \in Rows
    BY <1>1, LenProperties, ElementOfSeq
  <2> QED
    BY <2>1 DEF Rows
<1>3. \A r \in Search!ToSet(results \o buffered) : r.query \in Queries /\ r.path \in Found
  BY <1>1, <1>2 DEF Search!ToSet
<1>4. searching \/ timer \/ results # <<>> => searchOpen
  BY DEF SearchPlaces, ClosedIsEmpty
<1> QED
  BY <1>3, <1>4 DEF SearchPlaces, FieldsTyped, HitsTyped, Patterns, Search!TypeOK

-----------------------------------------------------------------------------
\* The trash has its types.
LEMMA TrashTyped == TrashInv => Bin!TypeOK
<1> SUFFICES ASSUME TrashTypes PROVE Bin!TypeOK
  BY DEF TrashInv
<1>1. \A c \in Callers : \A i \in DOMAIN trashCall[c].todo : trashCall[c].todo[i] \in Bin!Item
  <2> SUFFICES ASSUME NEW c \in Callers PROVE \A i \in DOMAIN trashCall[c].todo : trashCall[c].todo[i] \in Bin!Item
    OBVIOUS
  <2>1. PICK s : s = trashCall[c].todo /\ s \in Seq(Bin!Item)
    BY DEF TrashTypes, Frames
  <2>2. DOMAIN s = 1..Len(s) /\ \A i \in 1..Len(s) : s[i] \in Bin!Item
    BY <2>1, LenProperties, ElementOfSeq
  <2> QED
    BY <2>1, <2>2
<1> QED
  BY <1>1 DEF TrashTypes, Bin!TypeOK

-----------------------------------------------------------------------------
\* In every behaviour of the tools an answer, a scan's groups, a usage, a text
\* and a typed password are taken only for the thing they are of, however many
\* windows were closed, changed or opened anew before they came
\* (DupSetupView.tsx:54, useDuplicateEvents.ts:7, treemapStore.ts:134,
\* useEditorFile.ts:34, LockDialog.tsx:29).
THEOREM NothingMixed == ToolsSpec => []NothingIsMixedUp
<1>1. FinderInv /\ MapInv /\ TextsInv /\ PromptsInv => NothingIsMixedUp
  BY DEF FinderInv, MapInv, TextsInv, PromptsInv, NothingIsMixedUp
<1> QED
  BY <1>1, FinderAlways, MapAlways, TextsAlways, PromptsAlways, PTL

\* In every behaviour of the tools a scan of the disk that was not told to stop
\* is the one its window waits for, a live shell is the one its pane's next Stop
\* ends or of a Start under way that will place or close it, and a list that says
\* it searches has a search under way (treemapStore.ts:29, terminal_service.go:96,
\* useSearchSession.ts:126).
THEOREM RunsAreTracked == ToolsSpec => []WhatRunsIsTracked
<1>1. MapInv /\ ShellsInv /\ SearchInv => WhatRunsIsTracked
  BY MapSeen, SearchEnough DEF ShellsInv, WhatRunsIsTracked
<1> QED
  BY <1>1, MapAlways, ShellsAlways, SearchAlways, PTL

\* In every behaviour of the tools the variables of each have their types: a
\* group that is shown is of the scan, a window of the map is on folders and a
\* scan that was begun, a closed search shows nothing and searches for nothing,
\* the editor is open exactly on a file and unsaved only while it is open, a
\* prompt is of a vault or an image, a terminal is of a folder, and what the
\* trash holds was made (duplicatesStore.ts, treemapStore.ts, searchStore.ts,
\* editorStore.ts, LockDialog.tsx, useXterm.ts, trash_xdg.go).
THEOREM ToolsTypesCorrect == ToolsSpec => []ToolsTypeOK
<1>1. FinderTypes => Finder!TypeOK
  BY DEF FinderTypes, FinderLists, FinderPlaces, Finder!TypeOK
<1>2. /\ MapInv /\ MapWindows /\ ShellsInv /\ ShellsTypes /\ TextsInv /\ TextsPlaces
      /\ FinderTypes /\ PromptsPlaces /\ SearchPlaces /\ TrashInv
      => ToolsTypeOK
  BY <1>1, MapTyped, ShellsTyped, TextsTyped, PromptsTyped, SearchTyped, TrashTyped DEF ToolsTypeOK
<1> QED
  BY <1>2, MapAlways, MapWindowsAlways, ShellsAlways, ShellsTypesAlways, TextsAlways, TextsPlacesAlways,
     FinderTypesAlways, PromptsPlacesAlways, SearchPlacesAlways, TrashAlways, PTL
=============================================================================
