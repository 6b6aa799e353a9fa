------------------------- MODULE VaultSessionProofs -------------------------
(***************************************************************************)
(* Proofs about VaultSession for every set of vaults and operations and     *)
(* every bound: as long as Unlock is only asked for a locked vault, no      *)
(* operation loses its key or seals with a wrong one, whatever locks when.  *)
(***************************************************************************)
EXTENDS VaultSession, TLAPS, FiniteSetTheorems

\* A password is only checked for a locked vault, and there is a number left
\* for its session.
AskedIsLocked == \A r \in asking : sessions[r] = 0 /\ made < MaxUnlocks

\* A session belongs to one vault, and only sessions made are in the map.
SessionsDiffer ==
  /\ \A r, q \in Roots : sessions[r] = sessions[q] /\ sessions[r] # 0 => r = q
  /\ \A r \in Roots : sessions[r] <= made

\* An operation that holds a key holds the one of its vault's session, which
\* is therefore still there.
HeldIsCurrent ==
  \A j \in Ops : pc[j] \in Holding => dek[j] # 0 /\ dek[j] = sessions[root[j]]

\* Every session's count, also of those gone, is its number of holders.
Counted == \A s \in Sessions : inFlight[s] = Cardinality(Holders(s))

\* A key on its way out belongs to no vault any more.
GoneIsGone ==
  \A s \in doomed \cup wiped : s <= made /\ \A r \in Roots : sessions[r] # s

IInv == /\ TypeOK /\ AskedIsLocked /\ SessionsDiffer
        /\ HeldIsCurrent /\ Counted /\ GoneIsGone /\ CiphersMatch

-----------------------------------------------------------------------------
\* The holders of a session are finitely many.
LEMMA HoldersFinite ==
  ASSUME NEW s PROVE IsFiniteSet(Holders(s)) /\ Cardinality(Holders(s)) \in Nat
<1>1. Holders(s) \subseteq Ops
  BY DEF Holders
<1> QED
  BY <1>1, VaultAssumption, FS_Subset, FS_CardinalityType

\* beginJob adds one holder, endJob takes one away.
LEMMA OneMore ==
  ASSUME NEW s, NEW j \in Ops, j \notin Holders(s), Holders(s)' = Holders(s) \cup {j}
  PROVE  Cardinality(Holders(s)') = Cardinality(Holders(s)) + 1
BY HoldersFinite, FS_AddElement

LEMMA OneLess ==
  ASSUME NEW s, NEW j \in Ops, j \in Holders(s), Holders(s)' = Holders(s) \ {j}
  PROVE  Cardinality(Holders(s)') = Cardinality(Holders(s)) - 1
BY HoldersFinite, FS_RemoveElement

\* The initial state has no session and nobody holding one.
LEMMA InitIInv == Init => IInv
<1> SUFFICES ASSUME Init PROVE IInv
  OBVIOUS
<1> USE VaultAssumption DEF Init
<1>1. TypeOK
  <2>1. /\ sessions \in [Roots -> Sessions \cup {0}] /\ made \in Sessions \cup {0}
        /\ inFlight \in [Sessions -> Int]
        /\ pc \in [Ops -> Places] /\ dek \in [Ops -> Sessions \cup {0}]
        /\ cipher \in [Ops -> {"none", "good", "zero"}]
        /\ todo \in [Lockers -> SUBSET Roots]
    BY DEF Places
  <2>2. last \in Int /\ lastIO \in Int /\ now \in Nat
    OBVIOUS
  <2> QED
    BY <2>1, <2>2 DEF TypeOK
<1>2. AskedIsLocked /\ SessionsDiffer /\ HeldIsCurrent /\ GoneIsGone /\ CiphersMatch
  BY DEF AskedIsLocked, SessionsDiffer, HeldIsCurrent, Holding, GoneIsGone, CiphersMatch
<1>3. Counted
  <2>1. ASSUME NEW s PROVE Holders(s) = {}
    BY DEF Holders, Holding
  <2> QED
    BY <2>1, FS_EmptySet DEF Counted
<1> QED
  BY <1>1, <1>2, <1>3 DEF IInv

-----------------------------------------------------------------------------
(***************************************************************************)
(* Steps.                                                                   *)
(***************************************************************************)

\* What lockRoot leaves, for whoever calls it: it drops a session only when
\* nobody holds it.
LEMMA LockRootKeeps ==
  ASSUME IInv, NEW r \in Roots, LockRoot(r), UNCHANGED <<made, wiped, asking, inFlight>>
  PROVE  /\ sessions' \in [Roots -> Sessions \cup {0}]
         /\ pendingLock' \subseteq Sessions /\ doomed' \subseteq Sessions
         /\ AskedIsLocked' /\ SessionsDiffer' /\ GoneIsGone'
         /\ \A j \in Ops : pc[j] \in Holding => sessions'[root[j]] = sessions[root[j]]
<1> USE VaultAssumption DEF IInv, TypeOK, AskedIsLocked, SessionsDiffer, GoneIsGone
<1> DEFINE s == sessions[r]
<1>1. CASE s = 0
  BY <1>1 DEF LockRoot
<1>2. CASE s # 0 /\ inFlight[s] > 0
  <2>1. s \in Sessions /\ pendingLock' = pendingLock \cup {s} /\ UNCHANGED <<sessions, doomed>>
    BY <1>2 DEF LockRoot
  <2> QED
    BY <2>1
<1>3. CASE s # 0 /\ ~(inFlight[s] > 0)
  <2>1. s \in Sessions
    BY <1>3
  <2>2. sessions' = [sessions EXCEPT ![r] = 0] /\ doomed' = doomed \cup {s}
        /\ UNCHANGED pendingLock
    BY <1>3 DEF LockRoot
  <2>3. Holders(s) = {}
    <3>1. Cardinality(Holders(s)) = 0
      BY <1>3, <2>1, HoldersFinite DEF Counted
    <3> QED
      BY <3>1, HoldersFinite, FS_EmptySet
  <2>4. ASSUME NEW j \in Ops, pc[j] \in Holding PROVE root[j] # r
    BY <2>3, <2>4 DEF Holders, HeldIsCurrent
  <2>5. \A q \in Roots : sessions'[q] = IF q = r THEN 0 ELSE sessions[q]
    BY <2>2
  <2>6. /\ sessions' \in [Roots -> Sessions \cup {0}]
        /\ pendingLock' \subseteq Sessions /\ doomed' \subseteq Sessions
    BY <2>1, <2>2
  <2>7. SessionsDiffer'
    <3>1. made \in Nat
      BY DEF Sessions
    <3> QED
      BY <2>5, <3>1
  <2>8. AskedIsLocked'
    BY <2>5
  <2>9. GoneIsGone'
    <3>1. \A q \in Roots : sessions'[q] # s
      BY <2>1, <2>5, <1>3
    <3>2. ASSUME NEW t \in doomed \cup wiped
          PROVE  t <= made /\ t # 0 /\ \A q \in Roots : sessions[q] # t
      BY DEF Sessions
    <3> QED
      BY <3>1, <3>2, <2>2, <2>5
  <2> QED
    BY <2>4, <2>5, <2>6, <2>7, <2>8, <2>9
<1> QED
  BY <1>1, <1>3, <1>2

\* Who holds what is left alone by a step that leaves pc, root and dek alone,
\* and so is the count.
LEMMA HoldersStay ==
  ASSUME Counted, UNCHANGED <<pc, dek, inFlight>>
  PROVE  Counted'
<1>1. ASSUME NEW s PROVE Holders(s)' = Holders(s)
  BY DEF Holders
<1> QED
  BY <1>1 DEF Counted

\* Locking steps: LockNext for any locker.
LEMMA StepLockNext ==
  ASSUME IInv, NEW a \in Lockers, LockNext(a) PROVE IInv'
<1> USE DEF IInv
<1>1. PICK r \in todo[a] : todo' = [todo EXCEPT ![a] = @ \ {r}] /\ LockRoot(r)
  BY DEF LockNext
<1>2. r \in Roots
  BY <1>1 DEF TypeOK
<1>3. UNCHANGED <<made, inFlight, wiped, asking, pc, root, dek, cipher, due, leaving, told, now, last, lastIO>>
  BY DEF LockNext, opVars, timeVars
<1>4. TypeOK'
  BY <1>1, <1>2, <1>3, LockRootKeeps DEF TypeOK
<1>5. AskedIsLocked' /\ SessionsDiffer' /\ GoneIsGone'
  BY <1>1, <1>2, <1>3, LockRootKeeps
<1>6. HeldIsCurrent'
  BY <1>1, <1>2, <1>3, LockRootKeeps DEF HeldIsCurrent
<1>7. Counted' /\ CiphersMatch'
  BY <1>3, HoldersStay DEF CiphersMatch
<1> QED
  BY <1>4, <1>5, <1>6, <1>7

\* The lock an ending operation makes.
LEMMA StepRelock ==
  ASSUME IInv, NEW j \in Ops, Relock(j) PROVE IInv'
<1> USE DEF IInv
<1>1. root[j] \in Roots /\ LockRoot(root[j]) /\ pc[j] = "relock"
      /\ pc' = [pc EXCEPT ![j] = "done"]
  BY DEF Relock, TypeOK, Goto
<1>2. UNCHANGED <<made, inFlight, wiped, asking, root, dek, cipher, todo, due, leaving, told, now, last, lastIO>>
  BY DEF Relock, lockVars, timeVars
<1>3. \A i \in Ops : pc'[i] \in Holding <=> pc[i] \in Holding
  BY <1>1 DEF TypeOK, Holding
<1>4. TypeOK'
  BY <1>1, <1>2, LockRootKeeps DEF TypeOK, Places
<1>5. AskedIsLocked' /\ SessionsDiffer' /\ GoneIsGone'
  BY <1>1, <1>2, LockRootKeeps
<1>6. HeldIsCurrent'
  BY <1>1, <1>2, <1>3, LockRootKeeps DEF HeldIsCurrent
<1>7. Counted'
  <2>1. ASSUME NEW s PROVE Holders(s)' = Holders(s)
    BY <1>2, <1>3 DEF Holders
  <2> QED
    BY <2>1, <1>2 DEF Counted
<1>8. CiphersMatch'
  BY <1>2 DEF CiphersMatch
<1> QED
  BY <1>4, <1>5, <1>6, <1>7, <1>8

\* A new session has a number of its own and takes the place of none.
LEMMA StepUnlock ==
  ASSUME IInv, NEW r \in Roots, Unlock(r) PROVE IInv'
<1> USE VaultAssumption DEF IInv
<1>1. sessions[r] = 0 /\ made < MaxUnlocks /\ made + 1 \in Sessions
  BY DEF Unlock, AskedIsLocked, TypeOK, Sessions
<1>2. sessions' = [sessions EXCEPT ![r] = made + 1] /\ made' = made + 1 /\ asking' = {}
      /\ last' = now
  BY DEF Unlock
<1>3. UNCHANGED <<inFlight, pendingLock, doomed, wiped, pc, root, dek, cipher, todo, due, leaving, told, now, lastIO>>
  BY DEF Unlock, opVars, lockVars
<1>4. TypeOK'
  BY <1>1, <1>2, <1>3 DEF TypeOK
<1>5. AskedIsLocked' /\ CiphersMatch'
  BY <1>2, <1>3 DEF AskedIsLocked, CiphersMatch
<1>6. /\ made \in Nat
      /\ \A q \in Roots : sessions[q] \in Nat /\ sessions[q] <= made
      /\ \A q \in Roots : sessions'[q] = IF q = r THEN made + 1 ELSE sessions[q]
  BY <1>2 DEF SessionsDiffer, TypeOK, Sessions
<1>7. SessionsDiffer'
  BY <1>2, <1>6 DEF SessionsDiffer
<1>8. GoneIsGone'
  <2>1. ASSUME NEW t \in doomed \cup wiped PROVE t \in Nat /\ t <= made
    BY DEF GoneIsGone, TypeOK, Sessions
  <2> QED
    BY <2>1, <1>2, <1>3, <1>6 DEF GoneIsGone
<1>9. HeldIsCurrent'
  BY <1>1, <1>2, <1>3 DEF HeldIsCurrent, TypeOK
<1>10. Counted'
  BY <1>3, HoldersStay
<1> QED
  BY <1>4, <1>5, <1>9, <1>10, <1>7, <1>8

\* beginJob makes one more holder, of the session it found.
LEMMA StepBeginJob ==
  ASSUME IInv, NEW j \in Ops, BeginJob(j) PROVE IInv'
<1> USE VaultAssumption DEF IInv
<1> PICK s : s = sessions[root[j]]
  OBVIOUS
<1>1. pc[j] = "routed" /\ root[j] \in Roots
      /\ UNCHANGED <<sessions, made, pendingLock, doomed, wiped, asking, root, cipher, todo, due, leaving, told, now, last, lastIO>>
  BY DEF BeginJob, TypeOK, lockVars, timeVars
<1>2. AskedIsLocked' /\ SessionsDiffer' /\ GoneIsGone' /\ CiphersMatch'
  BY <1>1 DEF AskedIsLocked, SessionsDiffer, GoneIsGone, CiphersMatch
<1>3. CASE root[j] \notin Unlocked
  <2>1. UNCHANGED <<inFlight, dek>> /\ pc' = [pc EXCEPT ![j] = "failed"]
    BY <1>1, <1>3 DEF BeginJob, Goto
  <2>2. TypeOK' /\ HeldIsCurrent'
    BY <1>1, <2>1 DEF TypeOK, HeldIsCurrent, Holding, Places
  <2>3. ASSUME NEW t PROVE Holders(t)' = Holders(t)
    BY <1>1, <2>1 DEF Holders, Holding, TypeOK
  <2>4. Counted'
    BY <2>1, <2>3 DEF Counted
  <2> QED
    BY <1>2, <2>2, <2>4
<1>4. CASE root[j] \in Unlocked
  <2>1. s \in Sessions /\ s # 0
    BY <1>1, <1>4 DEF TypeOK, Unlocked
  <2>2. /\ inFlight' = [inFlight EXCEPT ![s] = @ + 1]
        /\ dek' = [dek EXCEPT ![j] = s]
        /\ pc' = [pc EXCEPT ![j] = "begun"]
    BY <1>4 DEF BeginJob, Goto
  <2>3. TypeOK'
    BY <1>1, <2>1, <2>2 DEF TypeOK, Places
  <2>4. HeldIsCurrent'
    BY <1>1, <2>1, <2>2 DEF HeldIsCurrent, Holding, TypeOK
  <2>5. ASSUME NEW t \in Sessions, t # s PROVE Holders(t)' = Holders(t)
    BY <1>1, <2>2, <2>5 DEF Holders, Holding, TypeOK
  <2>6. j \notin Holders(s) /\ Holders(s)' = Holders(s) \cup {j}
    BY <1>1, <2>1, <2>2 DEF Holders, Holding, TypeOK
  <2>7. Cardinality(Holders(s)') = Cardinality(Holders(s)) + 1
    BY <2>6, OneMore
  <2>8. Counted'
    BY <2>1, <2>2, <2>5, <2>7 DEF Counted, TypeOK
  <2> QED
    BY <1>2, <2>3, <2>4, <2>8
<1> QED
  BY <1>3, <1>4

\* endJob finds the session it was counted on, and counts it off.
LEMMA StepEndJob ==
  ASSUME IInv, NEW j \in Ops, EndJob(j) PROVE IInv'
<1> USE VaultAssumption DEF IInv
<1> PICK s : s = sessions[root[j]]
  OBVIOUS
<1>1. pc[j] = "used" /\ root[j] \in Roots
      /\ UNCHANGED <<sessions, made, pendingLock, doomed, wiped, asking, root, dek, cipher, todo, due, leaving, told, now, last, lastIO>>
  BY DEF EndJob, TypeOK, lockVars, timeVars
<1>2. s # 0 /\ s \in Sessions /\ dek[j] = s
  BY <1>1 DEF HeldIsCurrent, Holding, TypeOK
<1>3. /\ inFlight' = [inFlight EXCEPT ![s] = @ - 1]
      /\ pc' = [pc EXCEPT ![j] = IF s \in pendingLock /\ inFlight[s] <= 1 THEN "relock" ELSE "done"]
  BY <1>2 DEF EndJob, Goto
<1>4. pc'[j] \in {"relock", "done"} /\ \A i \in Ops \ {j} : pc'[i] = pc[i]
  BY <1>3 DEF TypeOK
<1>5. TypeOK'
  BY <1>1, <1>2, <1>3 DEF TypeOK, Places
<1>6. AskedIsLocked' /\ SessionsDiffer' /\ GoneIsGone' /\ CiphersMatch'
  BY <1>1 DEF AskedIsLocked, SessionsDiffer, GoneIsGone, CiphersMatch
<1>7. HeldIsCurrent'
  <2>1. pc'[j] \notin Holding
    BY <1>4 DEF Holding
  <2> QED
    BY <2>1, <1>1, <1>4 DEF HeldIsCurrent
<1>8. ASSUME NEW t \in Sessions, t # s PROVE Holders(t)' = Holders(t)
  BY <1>1, <1>2, <1>4, <1>8 DEF Holders, Holding
<1>9. j \in Holders(s) /\ Holders(s)' = Holders(s) \ {j}
  BY <1>1, <1>2, <1>4 DEF Holders, Holding
<1>10. Cardinality(Holders(s)') = Cardinality(Holders(s)) - 1
  BY <1>9, OneLess
<1>11. Counted'
  BY <1>2, <1>3, <1>8, <1>10 DEF Counted, TypeOK
<1> QED
  BY <1>5, <1>6, <1>7, <1>11

\* The steps of an operation between beginJob and endJob: the key it expands
\* is not wiped, the session whose identity it reads is there.
LEMMA StepHolding ==
  ASSUME IInv, NEW j \in Ops, ExpandKey(j) \/ ReadVaultID(j) \/ Use(j) PROVE IInv'
<1> USE DEF IInv
<1>1. pc[j] \in Holding /\ pc' \in [Ops -> Places]
      /\ pc'[j] \in Holding /\ \A i \in Ops \ {j} : pc'[i] = pc[i]
  BY DEF ExpandKey, ReadVaultID, Use, Goto, Holding, Places, TypeOK
<1>2. UNCHANGED <<sessions, made, inFlight, pendingLock, doomed, wiped, asking, root, dek, todo, due, leaving, told, now, last>>
  BY DEF ExpandKey, ReadVaultID, Use, keyVars, lockVars, timeVars
<1>3. dek[j] \notin wiped /\ root[j] \in Unlocked
  BY <1>1 DEF HeldIsCurrent, GoneIsGone, Unlocked, TypeOK
<1>4. CiphersMatch' /\ cipher' \in [Ops -> {"none", "good", "zero"}] /\ lastIO' \in Int
  BY <1>3 DEF ExpandKey, ReadVaultID, Use, CiphersMatch, TypeOK, timeVars
<1>5. TypeOK'
  BY <1>1, <1>2, <1>4 DEF TypeOK
<1>6. AskedIsLocked' /\ SessionsDiffer' /\ GoneIsGone' /\ HeldIsCurrent'
  BY <1>1, <1>2 DEF AskedIsLocked, SessionsDiffer, GoneIsGone, HeldIsCurrent
<1>7. Counted'
  <2>1. ASSUME NEW s PROVE Holders(s)' = Holders(s)
    BY <1>1, <1>2 DEF Holders
  <2> QED
    BY <2>1, <1>2 DEF Counted
<1> QED
  BY <1>4, <1>5, <1>6, <1>7

\* An operation that has not begun.
LEMMA StepEarly ==
  ASSUME IInv, NEW j \in Ops, Submit(j) \/ Route(j) PROVE IInv'
<1> USE DEF IInv
<1>1. pc[j] \notin Holding /\ pc' \in [Ops -> Places]
      /\ pc'[j] \notin Holding /\ \A i \in Ops \ {j} : pc'[i] = pc[i]
  BY DEF Submit, Route, Goto, Holding, Places, TypeOK
<1>2. UNCHANGED <<sessions, made, inFlight, pendingLock, doomed, wiped, asking, root, dek, cipher, todo, due, leaving, told, now, last, lastIO>>
  BY DEF Submit, Route, keyVars, lockVars, timeVars
<1>3. TypeOK'
  BY <1>1, <1>2 DEF TypeOK
<1>4. AskedIsLocked' /\ SessionsDiffer' /\ GoneIsGone' /\ HeldIsCurrent' /\ CiphersMatch'
  BY <1>1, <1>2 DEF AskedIsLocked, SessionsDiffer, GoneIsGone, HeldIsCurrent, CiphersMatch
<1>5. Counted'
  <2>1. ASSUME NEW s PROVE Holders(s)' = Holders(s)
    BY <1>1, <1>2 DEF Holders
  <2> QED
    BY <2>1, <1>2 DEF Counted
<1> QED
  BY <1>3, <1>4, <1>5

\* The steps that touch neither an operation nor the session map.
LEMMA StepAround ==
  ASSUME IInv, ~StaleRows,
         \/ \E r \in Roots : AskUnlock(r) \/ WrongPassword(r) \/ AskLock(r)
         \/ \E inside \in SUBSET Roots : LeavePanes(inside)
         \/ TellLocked \/ IdleOver \/ LockAll \/ Touch \/ Tick
         \/ \E s \in Sessions : Wipe(s)
         \/ UNCHANGED vars
  PROVE  IInv'
<1> USE VaultAssumption DEF IInv
<1>1. UNCHANGED <<sessions, made, inFlight, pendingLock, pc, root, dek, cipher>>
  BY DEF AskUnlock, WrongPassword, AskLock, LeavePanes, TellLocked, IdleOver, LockAll,
         Touch, Tick, Wipe, vars, keyVars, opVars
<1>2. HeldIsCurrent' /\ SessionsDiffer' /\ CiphersMatch' /\ Counted'
  BY <1>1, HoldersStay DEF HeldIsCurrent, SessionsDiffer, CiphersMatch
<1>3. doomed' \cup wiped' = doomed \cup wiped
  BY DEF AskUnlock, WrongPassword, AskLock, LeavePanes, TellLocked, IdleOver, LockAll,
         Touch, Tick, Wipe, vars, keyVars
<1>4. GoneIsGone'
  BY <1>1, <1>3 DEF GoneIsGone
<1>5. AskedIsLocked'
  BY <1>1 DEF AskedIsLocked, AskUnlock, WrongPassword, AskLock, LeavePanes, TellLocked,
              IdleOver, LockAll, Touch, Tick, Wipe, vars, Unlocked, TypeOK, keyVars
<1>6. doomed' \subseteq Sessions /\ wiped' \subseteq Sessions
  BY <1>3 DEF TypeOK
<1>7. /\ asking' \subseteq Roots /\ due' \in BOOLEAN
      /\ now' \in Nat /\ last' \in Int /\ lastIO' \in Int
  <2>1. now \in Nat /\ last \in Int /\ lastIO \in Int /\ asking \subseteq Roots /\ due \in BOOLEAN
    BY DEF TypeOK
  <2>2. asking' \subseteq Roots
    BY <2>1 DEF AskUnlock, WrongPassword, AskLock, LeavePanes, TellLocked, IdleOver, LockAll,
                Touch, Tick, Wipe, vars
  <2>3. due' \in BOOLEAN
    BY <2>1 DEF AskUnlock, WrongPassword, AskLock, LeavePanes, TellLocked, IdleOver, LockAll,
                Touch, Tick, Wipe, vars, lockVars
  <2>4. now' \in {now, now + 1} /\ last' \in {last, now} /\ lastIO' = lastIO
    BY DEF AskUnlock, WrongPassword, AskLock, LeavePanes, TellLocked, IdleOver, LockAll,
           Touch, Tick, Wipe, vars, timeVars
  <2> QED
    BY <2>1, <2>2, <2>3, <2>4
<1>8. todo' \in [Lockers -> SUBSET Roots] /\ leaving' \subseteq Sessions /\ told' \subseteq Sessions
  BY DEF TypeOK, AskUnlock, WrongPassword, AskLock, LeavePanes, TellLocked,
         IdleOver, LockAll, Touch, Tick, Wipe, vars, lockVars, Unlocked
<1>9. TypeOK'
  BY <1>1, <1>6, <1>7, <1>8 DEF TypeOK
<1> QED
  BY <1>2, <1>4, <1>5, <1>9

\* Every step keeps the inductive invariant.
LEMMA StepIInv == ASSUME IInv, ~StaleRows, [Next]_vars PROVE IInv'
<1>1. ASSUME NEW j \in Ops, Submit(j) \/ OpStep(j) PROVE IInv'
  BY <1>1, StepEarly, StepBeginJob, StepHolding, StepEndJob, StepRelock DEF OpStep
<1>2. ASSUME NEW r \in Roots, Unlock(r) PROVE IInv'
  BY <1>2, StepUnlock
<1>3. ASSUME NEW a \in Lockers, LockNext(a) PROVE IInv'
  BY <1>3, StepLockNext
<1> QED
  BY <1>1, <1>2, <1>3, StepAround DEF Next

\* A key implies a session: what IInv says of the operations.
LEMMA IInvKeeps == IInv => TypeOK /\ KeyKeptInUse /\ CiphersMatch /\ InFlightExact
<1> SUFFICES ASSUME IInv PROVE KeyKeptInUse /\ InFlightExact
  BY DEF IInv
<1>1. KeyKeptInUse
  BY DEF IInv, KeyKeptInUse, HeldIsCurrent, GoneIsGone, TypeOK
<1>2. InFlightExact
  BY DEF IInv, InFlightExact, Counted, Unlocked, TypeOK
<1> QED
  BY <1>1, <1>2

\* The inductive invariant holds in every behaviour in which Unlock is asked
\* for locked vaults only.
LEMMA Inductive == ASSUME ~StaleRows PROVE Spec => []IInv
<1>1. Init => IInv
  BY InitIInv
<1>2. IInv /\ [Next]_vars => IInv'
  BY StepIInv
<1> QED
  BY <1>1, <1>2, PTL DEF Spec

\* No key is wiped while an operation holds it (session.go: beginJob, endJob,
\* lockRoot; "do not yank DEK under an active encrypt").
THEOREM KeyIsKept == ASSUME ~StaleRows PROVE Spec => []KeyKeptInUse
<1>1. IInv => KeyKeptInUse
  BY IInvKeeps
<1> QED
  BY <1>1, Inductive, PTL

\* Nothing is sealed or opened with a zero key or without the vault's
\* identity (objects.go: sessionCipher).
THEOREM CiphersAreRight == ASSUME ~StaleRows PROVE Spec => []CiphersMatch
<1>1. IInv => CiphersMatch
  BY IInvKeeps
<1> QED
  BY <1>1, Inductive, PTL

\* inFlight counts the operations that hold the session's key.
THEOREM InFlightIsExact == ASSUME ~StaleRows PROVE Spec => []InFlightExact
<1>1. IInv => InFlightExact
  BY IInvKeeps
<1> QED
  BY <1>1, Inductive, PTL

-----------------------------------------------------------------------------
(***************************************************************************)
(* Types, also when Unlock is asked for a vault that is open.               *)
(***************************************************************************)

\* While a password is checked there is a number left for its session.
TypeInv == TypeOK /\ (asking # {} => made < MaxUnlocks)

LEMMA LockRootTyped ==
  ASSUME TypeOK, NEW r \in Roots, LockRoot(r)
  PROVE  /\ sessions' \in [Roots -> Sessions \cup {0}]
         /\ pendingLock' \subseteq Sessions /\ doomed' \subseteq Sessions
<1>1. sessions \in [Roots -> Sessions \cup {0}] /\ 0 \in Sessions \cup {0}
  BY DEF TypeOK
<1>2. sessions[r] # 0 => sessions[r] \in Sessions
  BY <1>1
<1>3. pendingLock \subseteq Sessions /\ doomed \subseteq Sessions
  BY DEF TypeOK
<1> QED
  BY <1>1, <1>2, <1>3 DEF LockRoot

LEMMA TypeStep == ASSUME TypeInv, [Next]_vars PROVE TypeInv'
<1> USE VaultAssumption DEF TypeInv
<1>1. ASSUME NEW j \in Ops, Submit(j) \/ OpStep(j) PROVE TypeInv'
  <2>1. UNCHANGED <<asking, made, root, wiped, todo, due, leaving, told, now, last>>
        /\ (lastIO' = lastIO \/ lastIO' = now)
    BY <1>1 DEF Submit, OpStep, Route, BeginJob, ExpandKey, ReadVaultID, Use, EndJob, Relock, keyVars,
                lockVars, timeVars
  <2>2. pc' \in [Ops -> Places]
    BY <1>1 DEF TypeOK, Places, Submit, OpStep, Route, BeginJob, ExpandKey, ReadVaultID, Use, EndJob, Relock, Goto
  <2>3. cipher' \in [Ops -> {"none", "good", "zero"}]
    BY <1>1 DEF TypeOK, Submit, OpStep, Route, BeginJob, ExpandKey, ReadVaultID, Use, EndJob, Relock
  <2>4. inFlight' \in [Sessions -> Int] /\ dek' \in [Ops -> Sessions \cup {0}]
    <3>1. CASE BeginJob(j) /\ root[j] \in Unlocked
      <4>1. sessions[root[j]] \in Sessions
        BY <3>1 DEF TypeOK, Unlocked
      <4>2. inFlight[sessions[root[j]]] \in Int
        BY <4>1 DEF TypeOK
      <4> QED
        BY <3>1, <4>1, <4>2 DEF BeginJob, TypeOK
    <3>2. CASE EndJob(j)
      <4>1. dek' = dek
        BY <3>2 DEF EndJob
      <4>2. CASE sessions[root[j]] = 0
        BY <3>2, <4>1, <4>2 DEF EndJob, TypeOK
      <4>3. CASE sessions[root[j]] # 0
        <5>1. sessions[root[j]] \in Sessions /\ inFlight[sessions[root[j]]] \in Int
          BY <4>3 DEF TypeOK
        <5> QED
          BY <3>2, <4>1, <4>3, <5>1 DEF EndJob, TypeOK
      <4> QED
        BY <4>2, <4>3
    <3>3. CASE ~EndJob(j) /\ ~(BeginJob(j) /\ root[j] \in Unlocked)
      <4>1. UNCHANGED <<inFlight, dek>>
        BY <1>1, <3>3 DEF Submit, OpStep, Route, BeginJob, ExpandKey, ReadVaultID, Use, Relock, keyVars
      <4> QED
        BY <4>1 DEF TypeOK
    <3> QED
      BY <3>1, <3>2, <3>3
  <2>5. sessions' \in [Roots -> Sessions \cup {0}] /\ pendingLock' \subseteq Sessions /\ doomed' \subseteq Sessions
    <3>1. CASE Relock(j)
      BY <3>1, LockRootTyped DEF TypeOK, Relock
    <3>2. CASE ~Relock(j)
      <4>1. UNCHANGED <<sessions, pendingLock, doomed>>
        BY <1>1, <3>2 DEF Submit, OpStep, Route, BeginJob, ExpandKey, ReadVaultID, Use, EndJob, keyVars
      <4> QED
        BY <4>1 DEF TypeOK
    <3> QED
      BY <3>1, <3>2
  <2> QED
    BY <2>1, <2>2, <2>3, <2>4, <2>5 DEF TypeOK
<1>2. ASSUME NEW r \in Roots, Unlock(r) PROVE TypeInv'
  <2>1. made + 1 \in Sessions /\ now \in Int
    BY <1>2 DEF TypeOK, Unlock, Sessions
  <2> QED
    BY <1>2, <2>1 DEF TypeOK, Unlock, opVars, lockVars
<1>3. ASSUME NEW a \in Lockers, LockNext(a) PROVE TypeInv'
  <2>1. PICK r \in todo[a] : todo' = [todo EXCEPT ![a] = @ \ {r}] /\ LockRoot(r)
    BY <1>3 DEF LockNext
  <2>2. r \in Roots /\ todo' \in [Lockers -> SUBSET Roots]
    BY <2>1 DEF TypeOK
  <2>3. sessions' \in [Roots -> Sessions \cup {0}] /\ pendingLock' \subseteq Sessions /\ doomed' \subseteq Sessions
    BY <2>1, <2>2, LockRootTyped
  <2> QED
    BY <1>3, <2>2, <2>3 DEF TypeOK, LockNext, opVars, timeVars
<1>4. ASSUME \/ \E r \in Roots : AskUnlock(r) \/ WrongPassword(r) \/ AskLock(r)
             \/ \E inside \in SUBSET Roots : LeavePanes(inside)
             \/ \E s \in Sessions : Wipe(s)
             \/ TellLocked \/ IdleOver \/ LockAll \/ Touch \/ Tick \/ UNCHANGED vars
      PROVE  TypeInv'
  <2>1. UNCHANGED <<sessions, made, inFlight, pendingLock, opVars, lastIO>>
        /\ (asking' = asking \/ asking' = {} \/ (made < MaxUnlocks /\ asking' \subseteq Roots))
    BY <1>4 DEF AskUnlock, WrongPassword, AskLock, LeavePanes, TellLocked, IdleOver, LockAll, Touch,
                Tick, Wipe, vars, keyVars, timeVars
  <2>2. doomed' \subseteq Sessions /\ wiped' \subseteq Sessions
    BY <1>4 DEF TypeOK, AskUnlock, WrongPassword, AskLock, LeavePanes, TellLocked, IdleOver, LockAll,
                Touch, Tick, Wipe, vars, keyVars
  <2>3. todo' \in [Lockers -> SUBSET Roots]
    <3>1. todo \in [Lockers -> SUBSET Roots] /\ Unlocked \subseteq Roots
      BY DEF TypeOK, Unlocked
    <3>2. todo' = todo \/ \E a \in Lockers, R \in SUBSET Roots : todo' = [todo EXCEPT ![a] = R]
      BY <1>4, <3>1 DEF AskUnlock, WrongPassword, AskLock, LeavePanes, TellLocked, IdleOver, LockAll,
                        Touch, Tick, Wipe, vars, lockVars, Lockers
    <3> QED
      BY <3>1, <3>2
  <2>5. leaving' \subseteq Sessions /\ told' \subseteq Sessions
    <3>1. \A r \in Unlocked : sessions[r] \in Sessions
      BY DEF TypeOK, Unlocked
    <3>2. leaving' = leaving \/ leaving' = {} \/ \E R : R \subseteq Unlocked /\ leaving' = {sessions[r] : r \in R}
      BY <1>4 DEF AskUnlock, WrongPassword, AskLock, LeavePanes, TellLocked, IdleOver, LockAll,
                  Touch, Tick, Wipe, vars, lockVars
    <3>3. told' = told \/ told' = told \cup leaving
      BY <1>4 DEF AskUnlock, WrongPassword, AskLock, LeavePanes, TellLocked, IdleOver, LockAll,
                  Touch, Tick, Wipe, vars, lockVars
    <3>4. leaving \subseteq Sessions /\ told \subseteq Sessions
      BY DEF TypeOK
    <3> QED
      BY <3>1, <3>2, <3>3, <3>4
  <2>6. due' \in BOOLEAN
    BY <1>4 DEF TypeOK, AskUnlock, WrongPassword, AskLock, LeavePanes, TellLocked, IdleOver, LockAll,
                Touch, Tick, Wipe, vars, lockVars
  <2>4. now' \in Nat /\ last' \in Int
    BY <1>4 DEF TypeOK, AskUnlock, WrongPassword, AskLock, LeavePanes, TellLocked, IdleOver, LockAll,
                Touch, Tick, Wipe, vars, timeVars
  <2> QED
    BY <2>1, <2>2, <2>3, <2>4, <2>5, <2>6 DEF TypeOK, opVars
<1> QED
  BY <1>1, <1>2, <1>3, <1>4 DEF Next

\* Every variable has its type, also when a row that still shows a lock lets
\* the user unlock an open vault.
THEOREM TypeCorrect == Spec => []TypeOK
<1>1. Init => TypeInv
  BY InitIInv DEF IInv, TypeInv, Init
<1>2. TypeInv /\ [Next]_vars => TypeInv'
  BY TypeStep
<1>3. TypeInv => TypeOK
  BY DEF TypeInv
<1> QED
  BY <1>1, <1>2, <1>3, PTL DEF Spec
=============================================================================
