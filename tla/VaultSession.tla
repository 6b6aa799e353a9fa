---------------------------- MODULE VaultSession ----------------------------
(***************************************************************************)
(* The unlocked vaults of the process (internal/vault/session.go): one      *)
(* session per vault root, holding the data key in memory; the operations   *)
(* that encrypt and decrypt under it (objects.go); and everything that      *)
(* locks: the user, the panes that leave the vault, the idle clock, and an  *)
(* operation that ends while a lock waits for it.                           *)
(*                                                                         *)
(* One action is one critical section of the package mutex mu, or one use   *)
(* of the key between two of them.                                          *)
(***************************************************************************)
EXTENDS Integers, FiniteSets

CONSTANTS
  Roots,       \* the vaults
  Ops,         \* the vault operations of a behaviour
  Into,        \* those that write into the vault
  MaxUnlocks,  \* bound: sessions opened
  MaxTime,     \* bound: the clock
  IdleMinutes, \* Settings.VaultIdleLockMinutes, 0 for never
  StaleRows    \* may Unlock be asked from a row that still shows a lock?

ASSUME VaultAssumption ==
  /\ IsFiniteSet(Ops) /\ Into \subseteq Ops
  /\ MaxUnlocks \in Nat /\ MaxTime \in Nat /\ IdleMinutes \in Nat
  /\ StaleRows \in BOOLEAN

VARIABLES
  sessions,    \* sessions[r]: the session of r, 0 when locked
  made,        \* sessions created so far
  inFlight,    \* session.inFlight
  pendingLock, \* the sessions with pendingLock set
  doomed,      \* sessions deleted whose key is about to be wiped
  wiped,       \* sessions whose key is zero
  asking,      \* the roots whose password is being checked
  pc, root, dek, cipher,  \* an operation: place, vault, key, what it seals with
  todo,        \* todo[a]: lockRoot calls locker a has yet to make
  due,         \* AdjustIdle has found the time over
  leaving,     \* sessions AutoLockOutsidePaths chose
  told,        \* sessions announced by vault:locked
  now, last,   \* the clock, lastActivity (-1 when never set)
  lastIO       \* history: when an operation last used a vault

keyVars == <<sessions, made, inFlight, pendingLock, doomed, wiped>>
opVars == <<pc, root, dek, cipher>>
lockVars == <<todo, due, leaving, told>>
timeVars == <<now, last, lastIO>>
vars == <<keyVars, asking, opVars, lockVars, timeVars>>

Sessions == 1 .. MaxUnlocks
Lockers == {"user", "panes", "idle"}
Unlocked == {r \in Roots : sessions[r] # 0}

Init ==
  /\ sessions = [r \in Roots |-> 0] /\ made = 0
  /\ inFlight = [s \in Sessions |-> 0]
  /\ pendingLock = {} /\ doomed = {} /\ wiped = {}
  /\ asking = {}
  /\ pc = [j \in Ops |-> "new"]
  /\ root \in [Ops -> Roots]
  /\ dek = [j \in Ops |-> 0] /\ cipher = [j \in Ops |-> "none"]
  /\ todo = [a \in Lockers |-> {}]
  /\ due = FALSE /\ leaving = {} /\ told = {}
  /\ now = 0 /\ last = -1 /\ lastIO = -1

Goto(j, where) == pc' = [pc EXCEPT ![j] = where]

-----------------------------------------------------------------------------
(***************************************************************************)
(* Unlocking.                                                               *)
(***************************************************************************)

\* The dialog submits one password at a time; the menu offers Unlock on rows
\* shown as locked.
AskUnlock(r) ==
  /\ asking = {} /\ made < MaxUnlocks
  /\ StaleRows \/ r \notin Unlocked
  /\ asking' = {r}
  /\ UNCHANGED <<keyVars, opVars, lockVars, timeVars>>

\* The key has been unwrapped: a new session takes the place of whatever
\* was there.
Unlock(r) ==
  /\ r \in asking
  /\ asking' = {}
  /\ made' = made + 1
  /\ sessions' = [sessions EXCEPT ![r] = made + 1]
  /\ last' = now
  /\ UNCHANGED <<inFlight, pendingLock, doomed, wiped, opVars, lockVars, now, lastIO>>

WrongPassword(r) ==
  /\ r \in asking
  /\ asking' = {}
  /\ UNCHANGED <<keyVars, opVars, lockVars, timeVars>>

-----------------------------------------------------------------------------
(***************************************************************************)
(* Locking.                                                                 *)
(***************************************************************************)

\* Fault: lockRoot does not look at inFlight.
LockRootAtOnce(r) ==
  LET s == sessions[r]
  IN \/ s = 0 /\ UNCHANGED <<sessions, pendingLock, doomed>>
     \/ /\ s # 0
        /\ sessions' = [sessions EXCEPT ![r] = 0]
        /\ doomed' = doomed \cup {s}
        /\ UNCHANGED pendingLock

\* Fault: lockRoot does not look whether there is a session.
LockRootUnchecked(r) ==
  LET s == sessions[r]
      busy == s # 0 /\ inFlight[s] > 0
  IN /\ pendingLock' = IF busy THEN pendingLock \cup {s} ELSE pendingLock
     /\ sessions' = IF busy THEN sessions ELSE [sessions EXCEPT ![r] = 0]
     /\ doomed' = IF busy THEN doomed ELSE doomed \cup {s}

\* Fault: the session is dropped, its key is not wiped.
LockRootKeepsKey(r) ==
  LET s == sessions[r]
      busy == s # 0 /\ inFlight[s] > 0
  IN /\ pendingLock' = IF busy THEN pendingLock \cup {s} ELSE pendingLock
     /\ sessions' = IF busy THEN sessions ELSE [sessions EXCEPT ![r] = 0]
     /\ UNCHANGED doomed

\* The mutex section of lockRoot, and the place the locker goes on from.
LockRoot(r) ==
  LET s == sessions[r]
  IN \/ /\ s = 0
        /\ UNCHANGED <<sessions, pendingLock, doomed>>
     \/ /\ s # 0 /\ inFlight[s] > 0
        /\ pendingLock' = pendingLock \cup {s}
        /\ UNCHANGED <<sessions, doomed>>
     \/ /\ s # 0 /\ inFlight[s] <= 0
        /\ sessions' = [sessions EXCEPT ![r] = 0]
        /\ doomed' = doomed \cup {s}
        /\ UNCHANGED pendingLock

\* Lock: "Lock now", the status chip, the end of a removal.
AskLock(r) ==
  /\ todo["user"] = {} /\ r \in Unlocked
  /\ todo' = [todo EXCEPT !["user"] = {r}]
  /\ UNCHANGED <<keyVars, asking, opVars, due, leaving, told, timeVars>>

\* AutoLockOutsidePaths chooses the vaults neither pane is inside.
LeavePanes(inside) ==
  /\ todo["panes"] = {} /\ leaving = {}
  /\ LET out == Unlocked \ inside
     IN /\ out # {}
        /\ todo' = [todo EXCEPT !["panes"] = out]
        /\ leaving' = {sessions[r] : r \in out}
  /\ UNCHANGED <<keyVars, asking, opVars, due, told, timeVars>>

\* NotifyPanePaths emits vault:locked with what AutoLockOutsidePaths returned.
TellLocked ==
  /\ leaving # {} /\ todo["panes"] = {}
  /\ told' = told \cup leaving
  /\ leaving' = {}
  /\ UNCHANGED <<keyVars, asking, opVars, todo, due, timeVars>>

\* AdjustIdle reads the clock; LockAll lists the sessions afterwards.
IdleOver ==
  /\ ~due /\ todo["idle"] = {}
  /\ IdleMinutes > 0 /\ last # -1 /\ Unlocked # {}
  /\ now - last >= IdleMinutes
  /\ due' = TRUE
  /\ UNCHANGED <<keyVars, asking, opVars, todo, leaving, told, timeVars>>

LockAll ==
  /\ due
  /\ due' = FALSE
  /\ todo' = [todo EXCEPT !["idle"] = Unlocked]
  /\ UNCHANGED <<keyVars, asking, opVars, leaving, told, timeVars>>

LockNext(a) ==
  /\ \E r \in todo[a] :
       /\ todo' = [todo EXCEPT ![a] = @ \ {r}]
       /\ LockRoot(r)
  /\ UNCHANGED <<made, inFlight, wiped, asking, opVars, due, leaving, told, timeVars>>

\* Wipe(s.dek), after the mutex has been given back.
Wipe(s) ==
  /\ s \in doomed
  /\ doomed' = doomed \ {s}
  /\ wiped' = wiped \cup {s}
  /\ UNCHANGED <<sessions, made, inFlight, pendingLock, asking, opVars, lockVars, timeVars>>

-----------------------------------------------------------------------------
(***************************************************************************)
(* The operations: Put, Open until Close, Rename, Remove, List.             *)
(***************************************************************************)

\* The user acts in a pane that shows the vault; a copy or move then waits
\* for its slot.
Submit(j) ==
  /\ pc[j] = "new" /\ root[j] \in Unlocked
  /\ Goto(j, "queued")
  /\ UNCHANGED <<keyVars, asking, root, dek, cipher, lockVars, timeVars>>

\* RootFor, asked when the operation's turn comes: outside a session the
\* path is an ordinary one.
Route(j) ==
  /\ pc[j] = "queued"
  /\ \/ root[j] \in Unlocked /\ Goto(j, "routed")
     \/ root[j] \notin Unlocked /\ j \in Into /\ Goto(j, "plain")
     \/ root[j] \notin Unlocked /\ j \notin Into /\ Goto(j, "failed")
  /\ UNCHANGED <<keyVars, asking, root, dek, cipher, lockVars, timeVars>>

\* Fault: beginJob does not count the job.
BeginJobUncounted(j) ==
  /\ pc[j] = "routed"
  /\ \/ /\ root[j] \in Unlocked
        /\ dek' = [dek EXCEPT ![j] = sessions[root[j]]]
        /\ Goto(j, "begun")
     \/ root[j] \notin Unlocked /\ Goto(j, "failed") /\ UNCHANGED dek
  /\ UNCHANGED <<keyVars, asking, root, cipher, lockVars, timeVars>>

\* beginJob.
BeginJob(j) ==
  /\ pc[j] = "routed"
  /\ \/ /\ root[j] \in Unlocked
        /\ inFlight' = [inFlight EXCEPT ![sessions[root[j]]] = @ + 1]
        /\ dek' = [dek EXCEPT ![j] = sessions[root[j]]]
        /\ Goto(j, "begun")
     \/ /\ root[j] \notin Unlocked
        /\ Goto(j, "failed")
        /\ UNCHANGED <<inFlight, dek>>
  /\ UNCHANGED <<sessions, made, pendingLock, doomed, wiped, asking, root, cipher, lockVars, timeVars>>

\* aesGCM expands the key the slice holds now.
ExpandKey(j) ==
  /\ pc[j] = "begun"
  /\ cipher' = [cipher EXCEPT ![j] = IF dek[j] \in wiped THEN "zero" ELSE "good"]
  /\ Goto(j, "keyed")
  /\ UNCHANGED <<keyVars, asking, root, dek, lockVars, timeVars>>

\* sessionCipher takes the vault's identity in a section of its own; it is
\* part of what every record is sealed with.
ReadVaultID(j) ==
  /\ pc[j] = "keyed"
  /\ cipher' = IF root[j] \in Unlocked THEN cipher ELSE [cipher EXCEPT ![j] = "zero"]
  /\ Goto(j, "using")
  /\ UNCHANGED <<keyVars, asking, root, dek, lockVars, timeVars>>

Use(j) ==
  /\ pc[j] = "using"
  /\ lastIO' = now
  /\ Goto(j, "used")
  /\ UNCHANGED <<keyVars, asking, root, dek, cipher, lockVars, now, last>>

\* Fault: endJob forgets the lock that waits.
EndJobForgets(j) ==
  LET s == sessions[root[j]]
  IN /\ pc[j] = "used"
     /\ Goto(j, "done")
     /\ inFlight' = IF s = 0 THEN inFlight ELSE [inFlight EXCEPT ![s] = @ - 1]
     /\ UNCHANGED <<sessions, made, pendingLock, doomed, wiped, asking, root, dek, cipher,
                    lockVars, timeVars>>

\* Fault: endJob locks for whoever ends first.
EndJobHasty(j) ==
  LET s == sessions[root[j]]
  IN /\ pc[j] = "used"
     /\ \/ s = 0 /\ Goto(j, "done") /\ UNCHANGED <<inFlight, sessions, doomed>>
        \/ /\ s # 0
           /\ inFlight' = [inFlight EXCEPT ![s] = @ - 1]
           /\ Goto(j, "done")
           /\ sessions' = IF s \in pendingLock THEN [sessions EXCEPT ![root[j]] = 0] ELSE sessions
           /\ doomed' = IF s \in pendingLock THEN doomed \cup {s} ELSE doomed
     /\ UNCHANGED <<made, pendingLock, wiped, asking, root, dek, cipher, lockVars, timeVars>>

\* endJob looks the session up again by its root.
EndJob(j) ==
  LET s == sessions[root[j]]
  IN /\ pc[j] = "used"
     /\ \/ s = 0 /\ Goto(j, "done") /\ UNCHANGED inFlight
        \/ /\ s # 0
           /\ inFlight' = [inFlight EXCEPT ![s] = @ - 1]
           /\ Goto(j, IF s \in pendingLock /\ inFlight[s] <= 1 THEN "relock" ELSE "done")
     /\ UNCHANGED <<sessions, made, pendingLock, doomed, wiped, asking, root, dek, cipher,
                    lockVars, timeVars>>

\* The lock that waited for this operation.
Relock(j) ==
  /\ pc[j] = "relock"
  /\ Goto(j, "done")
  /\ LockRoot(root[j])
  /\ UNCHANGED <<made, inFlight, wiped, asking, root, dek, cipher, lockVars, timeVars>>

-----------------------------------------------------------------------------
\* Touch: every listing, of a vault or not, sets the idle clock back.
Touch ==
  /\ last' = now
  /\ UNCHANGED <<keyVars, asking, opVars, lockVars, now, lastIO>>

Tick ==
  /\ now < MaxTime
  /\ now' = now + 1
  /\ UNCHANGED <<keyVars, asking, opVars, lockVars, last, lastIO>>

OpStep(j) ==
  Route(j) \/ BeginJob(j) \/ ExpandKey(j) \/ ReadVaultID(j) \/ Use(j) \/ EndJob(j) \/ Relock(j)

Next ==
  \/ \E r \in Roots : AskUnlock(r) \/ Unlock(r) \/ WrongPassword(r) \/ AskLock(r)
  \/ \E inside \in SUBSET Roots : LeavePanes(inside)
  \/ TellLocked \/ IdleOver \/ LockAll
  \/ \E a \in Lockers : LockNext(a)
  \/ \E s \in Sessions : Wipe(s)
  \/ \E j \in Ops : Submit(j) \/ OpStep(j)
  \/ Touch \/ Tick

Spec == Init /\ [][Next]_vars

\* Goroutines run on; nobody need ask for anything.
FairSpec ==
  /\ Spec
  /\ \A j \in Ops : WF_vars(OpStep(j))
  /\ \A a \in Lockers : WF_vars(LockNext(a))
  /\ \A s \in Sessions : WF_vars(Wipe(s))

-----------------------------------------------------------------------------
(***************************************************************************)
(* What the package promises.                                               *)
(***************************************************************************)

Places == {"new", "queued", "routed", "plain", "failed", "begun", "keyed",
           "using", "used", "relock", "done"}
Holding == {"begun", "keyed", "using", "used"}
Holders(s) == {j \in Ops : pc[j] \in Holding /\ dek[j] = s}

TypeOK ==
  /\ sessions \in [Roots -> Sessions \cup {0}] /\ made \in Sessions \cup {0}
  /\ inFlight \in [Sessions -> Int]
  /\ pendingLock \subseteq Sessions /\ doomed \subseteq Sessions /\ wiped \subseteq Sessions
  /\ asking \subseteq Roots
  /\ pc \in [Ops -> Places] /\ root \in [Ops -> Roots]
  /\ dek \in [Ops -> Sessions \cup {0}] /\ cipher \in [Ops -> {"none", "good", "zero"}]
  /\ todo \in [Lockers -> SUBSET Roots] /\ due \in BOOLEAN
  /\ leaving \subseteq Sessions /\ told \subseteq Sessions
  /\ now \in Nat /\ last \in Int /\ lastIO \in Int

\* Nothing is sealed or opened with a zeroed key or without the vault's
\* identity (sessionCipher, beginJob, lockRoot): what a Put writes can be
\* read back, and a read does not miss what is there.
CiphersMatch == \A j \in Ops : cipher[j] # "zero"

\* The key is not wiped between beginJob and the release ("do not yank DEK
\* under an active encrypt").
KeyKeptInUse == \A j \in Ops : pc[j] \in Holding => dek[j] \notin wiped

\* The count lockRoot decides on is the number of operations that hold the
\* session's key.
InFlightExact == \A r \in Unlocked : inFlight[sessions[r]] = Cardinality(Holders(sessions[r]))

\* A lock that found an operation in flight takes place once the operations
\* have ended (lockRoot, endJob).
DeferredLockLands ==
  \A s \in Sessions : (s \in pendingLock) ~> (\A r \in Roots : sessions[r] # s)

\* A key that is out of the session map does not stay in memory.
KeysGetWiped ==
  \A s \in Sessions :
    (s <= made /\ \A r \in Roots : sessions[r] # s) ~> (s \in wiped)

\* What an operation writes into an unlocked vault lands encrypted, also when
\* it waited for its turn ("Copy outside -> vault: Stream encrypt").
LandsEncrypted == \A j \in Ops : pc[j] # "plain"

\* A vault announced as locked is locked ("returns the roots that were
\* locked").
ToldIsLocked == \A s \in told, r \in Roots : sessions[r] # s

\* The idle clock counts from the last vault I/O.
IdleCountsIO ==
  [][due' /\ ~due => now - lastIO >= IdleMinutes]_vars

=============================================================================
