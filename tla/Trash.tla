-------------------------------- MODULE Trash --------------------------------
(***************************************************************************)
(* The trash of a volume (internal/filesystem/trash_xdg.go, trash.go): what is *)
(* deleted is renamed into its files/, and a note of where it was is written to *)
(* its info/.  A step is a system call.  Calls fail or die with the process      *)
(* between any two of them; what is copied or removed may be there in part.     *)
(***************************************************************************)
EXTENDS Integers, Sequences

CONSTANTS
  Callers,       \* calls of the service that may be under way
  Overlap,       \* whether anything may happen between two steps of a call
  Places,        \* the paths things are deleted from, all of one last element
  OtherDevice,   \* the places a rename into the trash cannot be made from
  Copies,        \* bound on the names in the trash
  MaxFiles,      \* bound on the things the user makes
  MaxFaults      \* bound on failures and crashes

TrashAssumption == Copies \in Nat \ {0} /\ MaxFiles \in Nat /\ MaxFaults \in Nat

(* Their names in the trash: base, base.2, base.3 ...                        *)
Slots == 1 .. Copies
Content == [file : 1 .. MaxFiles, whole : BOOLEAN]
Item == [slot : Slots, origin : SUBSET Places]

VARIABLES
  disk,          \* [place -> what is there: {} or a content]
  files, info,   \* [slot -> content], [slot -> its origin]: {}: there is none
  call,          \* [caller -> the call's frame]
  madeAt,        \* history: where the n-th thing was made
  purged,        \* history: what the user removed for good
  broken,        \* history: what a delete that failed halfway had removed
  undo,          \* history: [place -> {}, or what the last delete took from it]
  faults

vars == <<disk, files, info, call, madeAt, purged, broken, undo, faults>>

Idle == [op |-> "none", step |-> "idle", todo |-> <<>>]
Whole(things) == {c.file : c \in {t \in things : t.whole}}
Torn(things) == {[t EXCEPT !.whole = FALSE] : t \in things}
NoUndo == [p \in Places |-> {}]
Selections(S) == {<<x>> : x \in S} \cup {xy \in S \X S : xy[1] # xy[2]}

Quiet == Overlap \/ \A c \in Callers : call[c] = Idle
Cur(c) == Head(call[c].todo)
At(c, op, step) == call[c].op = op /\ call[c].step = step
Begin(c, op, step, todo) ==
  /\ call[c] = Idle /\ Quiet
  /\ call' = [call EXCEPT ![c] = [op |-> op, step |-> step, todo |-> todo]]
GoTo(c, step) == call' = [call EXCEPT ![c].step = step]
GiveUp(c) == call' = [call EXCEPT ![c] = Idle]
Advance(c, first) ==
  call' = [call EXCEPT ![c] = IF Len(@.todo) = 1 THEN Idle
                              ELSE [op |-> @.op, step |-> first, todo |-> Tail(@.todo)]]

(* The first free name; the disk is asked, nothing is reserved.              *)
FreeNames == {s \in Slots : files[s] = {}}
UniqueTrashName == CHOOSE s \in FreeNames : \A t \in FreeNames : s <= t

----------------------------------------------------------------------------
(* Delete.                                                                  *)
Put(c) ==
  \E chosen \in Selections({p \in Places : disk[p] # {}}) :
    /\ Begin(c, "put", "name",
         [i \in DOMAIN chosen |-> [slot |-> 1, origin |-> {chosen[i]}]])
    /\ undo' = NoUndo
    /\ UNCHANGED <<disk, files, info, madeAt, purged, broken, faults>>

PutName(c) ==
  /\ At(c, "put", "name")
  /\ \E p \in Cur(c).origin :
       IF disk[p] = {} THEN GiveUp(c)
       ELSE /\ FreeNames # {}
            /\ call' = [call EXCEPT ![c].step = "move", ![c].todo[1].slot = UniqueTrashName]
  /\ UNCHANGED <<disk, files, info, madeAt, purged, broken, undo, faults>>

PutMove(c) ==
  /\ At(c, "put", "move")
  /\ \E p \in Cur(c).origin :
       \/ /\ disk[p] = {} /\ GiveUp(c) /\ UNCHANGED <<disk, files>>
       \/ /\ disk[p] # {} /\ p \notin OtherDevice
          /\ files' = [files EXCEPT ![Cur(c).slot] = disk[p]]
          /\ disk' = [disk EXCEPT ![p] = {}]
          /\ GoTo(c, "info")
       \/ /\ disk[p] # {} /\ p \in OtherDevice
          /\ files' = [files EXCEPT ![Cur(c).slot] = Torn(disk[p])]
          /\ GoTo(c, "copy") /\ UNCHANGED disk
  /\ UNCHANGED <<info, madeAt, purged, broken, undo, faults>>

PutCopied(c) ==
  /\ At(c, "put", "copy") /\ GoTo(c, "delete")
  /\ \E p \in Cur(c).origin : files' = [files EXCEPT ![Cur(c).slot] = disk[p]]
  /\ UNCHANGED <<disk, info, madeAt, purged, broken, undo, faults>>

PutDeleted(c) ==
  /\ At(c, "put", "delete") /\ GoTo(c, "info")
  /\ \E p \in Cur(c).origin : disk' = [disk EXCEPT ![p] = {}]
  /\ UNCHANGED <<files, info, madeAt, purged, broken, undo, faults>>

(* Fault: a note that is there is not written again.                         *)
WriteTrashInfoOnce(c) ==
  /\ At(c, "put", "info") /\ Advance(c, "name")
  /\ info' = [info EXCEPT ![Cur(c).slot] = IF @ = {} THEN Cur(c).origin ELSE @]
  /\ undo' = [p \in Places |-> IF p \in Cur(c).origin THEN Whole(files[Cur(c).slot]) ELSE undo[p]]
  /\ UNCHANGED <<disk, files, madeAt, purged, broken, faults>>

(* With the last one the caller gets a token to undo it all: the origins.    *)
WriteTrashInfo(c) ==
  /\ At(c, "put", "info") /\ Advance(c, "name")
  /\ info' = [info EXCEPT ![Cur(c).slot] = Cur(c).origin]
  /\ undo' = [p \in Places |-> IF p \in Cur(c).origin THEN Whole(files[Cur(c).slot]) ELSE undo[p]]
  /\ UNCHANGED <<disk, files, madeAt, purged, broken, faults>>

(* What is gone of a thing whose removal stopped halfway.                    *)
HalfDeleted(c) ==
  IF call[c].step # "delete" THEN {}
  ELSE UNION {{t.file : t \in {u \in disk[p] : ~u.whole}} : p \in Cur(c).origin}

(* Fault: every failure cleans up.                                          *)
PutFailsCleanly(c) ==
  /\ call[c].op = "put" /\ faults < MaxFaults /\ faults' = faults + 1
  /\ GiveUp(c) /\ undo' = NoUndo
  /\ files' = IF call[c].step # "name" THEN [files EXCEPT ![Cur(c).slot] = {}] ELSE files
  /\ broken' = broken \cup HalfDeleted(c)
  /\ UNCHANGED <<disk, info, madeAt, purged>>

(* A copy is cleaned up; what was renamed stays in the trash without its note. *)
PutFails(c) ==
  /\ call[c].op = "put" /\ faults < MaxFaults /\ faults' = faults + 1
  /\ GiveUp(c) /\ undo' = NoUndo
  /\ files' = IF call[c].step \in {"copy", "delete"}
              THEN [files EXCEPT ![Cur(c).slot] = {}] ELSE files
  /\ broken' = broken \cup HalfDeleted(c)
  /\ info' \in IF call[c].step = "info" THEN {info, [info EXCEPT ![Cur(c).slot] = {}]} ELSE {info}
  /\ UNCHANGED <<disk, madeAt, purged>>

----------------------------------------------------------------------------
(* Restore rows of the listing, or what the last delete took.  The trash is   *)
(* listed once, at the beginning; what has no note counts as its own origin.   *)
Listed(s) == [slot |-> s, origin |-> info[s]]

Restore(c) ==
  /\ \E chosen \in Selections({s \in Slots : files[s] # {}}) :
       Begin(c, "restore", "check", [i \in DOMAIN chosen |-> Listed(chosen[i])])
  /\ UNCHANGED <<disk, files, info, madeAt, purged, broken, undo, faults>>

(* Of several with one origin the map keeps the one listed last.             *)
LastListed(p) ==
  LET its == {s \in Slots : files[s] # {} /\ p \in info[s]} IN
  {s \in its : \A t \in its : t <= s}

RestoreOrigins(c) ==
  /\ \E chosen \in Selections({p \in Places : undo[p] # {} /\ LastListed(p) # {}}) :
       /\ \A p \in Places : undo[p] # {} /\ LastListed(p) # {} => \E i \in DOMAIN chosen : chosen[i] = p
       /\ Begin(c, "restore", "check",
            [i \in DOMAIN chosen |-> [slot |-> CHOOSE s \in LastListed(chosen[i]) : TRUE,
                                      origin |-> {chosen[i]}]])
  /\ undo' = NoUndo
  /\ UNCHANGED <<disk, files, info, madeAt, purged, broken, faults>>

(* Fault: an origin that is taken is replaced.                               *)
RestoreUnchecked(c) ==
  /\ At(c, "restore", "check")
  /\ IF Cur(c).origin # {} THEN GoTo(c, "move") ELSE Advance(c, "check")
  /\ UNCHANGED <<disk, files, info, madeAt, purged, broken, undo, faults>>

RestoreCheck(c) ==
  /\ At(c, "restore", "check")
  /\ IF \E p \in Cur(c).origin : disk[p] = {} THEN GoTo(c, "move") ELSE Advance(c, "check")
  /\ UNCHANGED <<disk, files, info, madeAt, purged, broken, undo, faults>>

RestoreMove(c) ==
  /\ At(c, "restore", "move")
  /\ LET s == Cur(c).slot IN
     \E p \in Cur(c).origin :
       \/ /\ files[s] = {} /\ Advance(c, "check") /\ UNCHANGED <<disk, files>>
       \/ /\ files[s] # {} /\ p \notin OtherDevice
          /\ disk' = [disk EXCEPT ![p] = files[s]]
          /\ files' = [files EXCEPT ![s] = {}]
          /\ GoTo(c, "meta")
       \/ /\ files[s] # {} /\ p \in OtherDevice
          /\ disk' = [disk EXCEPT ![p] = Torn(files[s])]
          /\ GoTo(c, "copy") /\ UNCHANGED files
  /\ UNCHANGED <<info, madeAt, purged, broken, undo, faults>>

RestoreCopied(c) ==
  /\ At(c, "restore", "copy") /\ GoTo(c, "drop")
  /\ \E p \in Cur(c).origin : disk' = [disk EXCEPT ![p] = files[Cur(c).slot]]
  /\ UNCHANGED <<files, info, madeAt, purged, broken, undo, faults>>

(* Removed from the trash: its copy after a restore, or for good.            *)
Purge(c, slots) ==
  purged' = IF call[c].op = "restore" THEN purged ELSE purged \cup UNION {Whole(files[s]) : s \in slots}

Dropped(c) ==
  /\ call[c].step = "drop" /\ GoTo(c, "meta")
  /\ files' = [files EXCEPT ![Cur(c).slot] = {}] /\ Purge(c, {Cur(c).slot})
  /\ UNCHANGED <<disk, info, madeAt, broken, undo, faults>>

RemoveMeta(c) ==
  /\ call[c].step = "meta"
  /\ info' = [info EXCEPT ![Cur(c).slot] = {}]
  /\ Advance(c, IF call[c].op = "restore" THEN "check" ELSE "drop")
  /\ UNCHANGED <<disk, files, madeAt, purged, broken, undo, faults>>

(* The next one is tried; a copy that failed is left at the origin.           *)
RestoreFails(c) ==
  /\ call[c].op = "restore" /\ call[c].step # "check"
  /\ faults < MaxFaults /\ faults' = faults + 1
  /\ Advance(c, "check")
  /\ UNCHANGED <<disk, files, info, madeAt, purged, broken, undo>>

----------------------------------------------------------------------------
(* Remove and Empty.                                                        *)
Remove(c) ==
  /\ \E chosen \in Selections({s \in Slots : files[s] # {}}) :
       Begin(c, "remove", "drop", [i \in DOMAIN chosen |-> Listed(chosen[i])])
  /\ UNCHANGED <<disk, files, info, madeAt, purged, broken, undo, faults>>

(* Its note goes all the same.                                              *)
RemoveFails(c) ==
  /\ call[c].op = "remove" /\ faults < MaxFaults /\ faults' = faults + 1
  /\ IF call[c].step = "drop" THEN GoTo(c, "meta") ELSE Advance(c, "drop")
  /\ UNCHANGED <<disk, files, info, madeAt, purged, broken, undo>>

Empty(c) ==
  /\ Begin(c, "empty", "files", <<>>)
  /\ UNCHANGED <<disk, files, info, madeAt, purged, broken, undo, faults>>

EmptyFiles(c) ==
  /\ At(c, "empty", "files") /\ GoTo(c, "infos")
  /\ files' = [s \in Slots |-> {}] /\ Purge(c, Slots)
  /\ UNCHANGED <<disk, info, madeAt, broken, undo, faults>>

EmptyInfos(c) ==
  /\ At(c, "empty", "infos") /\ GiveUp(c)
  /\ info' = [s \in Slots |-> {}]
  /\ UNCHANGED <<disk, files, madeAt, purged, broken, undo, faults>>

EmptyFails(c) ==
  /\ call[c].op = "empty" /\ faults < MaxFaults /\ faults' = faults + 1
  /\ GiveUp(c)
  /\ UNCHANGED <<disk, files, info, madeAt, purged, broken, undo>>

----------------------------------------------------------------------------
(* What is removed goes piece by piece.                                      *)
Partly(c) ==
  /\ \/ /\ At(c, "put", "delete")
        /\ \E p \in Cur(c).origin : disk' = [disk EXCEPT ![p] = Torn(@)]
        /\ UNCHANGED <<files, info, purged>>
     \/ /\ call[c].step = "drop"
        /\ files' = [files EXCEPT ![Cur(c).slot] = Torn(@)] /\ Purge(c, {Cur(c).slot})
        /\ UNCHANGED <<disk, info>>
     \/ /\ At(c, "empty", "files")
        /\ \E s \in Slots : files' = [files EXCEPT ![s] = {}] /\ Purge(c, {s})
        /\ UNCHANGED <<disk, info>>
     \/ /\ At(c, "empty", "infos")
        /\ \E s \in Slots : info' = [info EXCEPT ![s] = {}]
        /\ UNCHANGED <<disk, files, purged>>
  /\ UNCHANGED <<call, madeAt, broken, undo, faults>>

(* The process dies: the calls end where they are, and so does the offer to undo. *)
Crash ==
  /\ faults < MaxFaults /\ faults' = faults + 1
  /\ \E c \in Callers : call[c] # Idle
  /\ call' = [c \in Callers |-> Idle] /\ undo' = NoUndo
  /\ UNCHANGED <<disk, files, info, madeAt, purged, broken>>

(* The user makes something new where nothing is.                            *)
Make(p) ==
  /\ Quiet /\ disk[p] = {} /\ Len(madeAt) < MaxFiles
  /\ madeAt' = Append(madeAt, p)
  /\ disk' = [disk EXCEPT ![p] = {[file |-> Len(madeAt'), whole |-> TRUE]}]
  /\ UNCHANGED <<files, info, call, purged, broken, undo, faults>>

Init ==
  /\ disk = [p \in Places |-> {}] /\ madeAt = <<>>
  /\ files = [s \in Slots |-> {}] /\ info = [s \in Slots |-> {}]
  /\ call = [c \in Callers |-> Idle]
  /\ purged = {} /\ broken = {} /\ undo = NoUndo /\ faults = 0

Step(c) ==
  \/ Put(c) \/ PutName(c) \/ PutMove(c) \/ PutCopied(c) \/ PutDeleted(c) \/ WriteTrashInfo(c)
  \/ PutFails(c)
  \/ Restore(c) \/ RestoreOrigins(c) \/ RestoreCheck(c) \/ RestoreMove(c) \/ RestoreCopied(c)
  \/ Dropped(c) \/ RemoveMeta(c) \/ RestoreFails(c)
  \/ Remove(c) \/ RemoveFails(c)
  \/ Empty(c) \/ EmptyFiles(c) \/ EmptyInfos(c) \/ EmptyFails(c)
  \/ Partly(c)
Next == Crash \/ (\E p \in Places : Make(p)) \/ \E c \in Callers : Step(c)

Spec == Init /\ [][Next]_vars

----------------------------------------------------------------------------
TypeOK ==
  /\ disk \in [Places -> SUBSET Content] /\ files \in [Slots -> SUBSET Content]
  /\ info \in [Slots -> SUBSET Places]
  /\ \A c \in Callers : \A i \in DOMAIN call[c].todo : call[c].todo[i] \in Item
  /\ purged \cup broken \subseteq 1 .. Len(madeAt)
  /\ undo \in [Places -> SUBSET (1 .. MaxFiles)]

(* Whatever the user ever made and did not remove for good is whole, on the    *)
(* disk or in the trash: no name is given twice, no restore replaces what is    *)
(* there, and no failure cleans up the only copy (trash_xdg.go:38, trash.go:404). *)
NothingTrashedIsLost ==
  \A n \in 1 .. Len(madeAt) :
    \/ n \in purged \cup broken
    \/ \E p \in Places : n \in Whole(disk[p])
    \/ \E s \in Slots : n \in Whole(files[s])

(* A thing is only ever at the place it was made at, and a note in the trash    *)
(* names that place, once the put that writes it has gone on: a note left over  *)
(* by an earlier file of the name is not taken for its own (trash_xdg.go:72).   *)
NotesAreTrue ==
  /\ \A p \in Places : \A t \in disk[p] : madeAt[t.file] = p
  /\ \A s \in Slots : \A t \in files[s] :
       \/ info[s] \subseteq {madeAt[t.file]}
       \/ \E c \in Callers : call[c].op = "put" /\ Cur(c).slot = s

(* What Undo puts back is what the delete it undoes had taken                   *)
(* (RestoreOrigins, trash_xdg.go:117).                                          *)
UndoTakesBackTheDelete ==
  [][\A c \in Callers : RestoreOrigins(c) =>
       \A i \in DOMAIN call'[c].todo :
         Whole(files[call'[c].todo[i].slot]) = UNION {undo[p] : p \in call'[c].todo[i].origin}]_vars

(* While no call is under way, whatever is in the trash can be restored         *)
(* (List, trash_xdg.go:80: without a note a thing is its own origin).           *)
StaysRestorable ==
  (\A c \in Callers : call[c] = Idle) => \A s \in Slots : files[s] # {} => info[s] # {}
=============================================================================
