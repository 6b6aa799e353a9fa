---------------------------- MODULE VaultFolder -----------------------------
(***************************************************************************)
(* A folder and its vault (internal/vault: create.go, remove.go, objio.go,  *)
(* objects.go): locking it encrypts file by file in place, removing the     *)
(* password decrypts object by object, and either can be cancelled, fail or *)
(* die at any step and be started again.  In between the objects are read,  *)
(* written, renamed and deleted under an unlocked session.                  *)
(*                                                                         *)
(* A file is its name and its content, an object carries besides the vault  *)
(* whose key it is sealed with.  Objects are numbered in the order os.ReadDir *)
(* lists them, which is that of their random identities.                    *)
(***************************************************************************)
EXTENDS Integers, FiniteSets, FiniteSetsExt

CONSTANTS
  Names,       \* relative paths
  Vals,        \* contents
  None,        \* no file
  Ids,         \* bound: the objects of the folder at one time
  MaxVaults,   \* bound: times a manifest is written
  MaxCrashes,  \* bound: times the process dies
  Habits       \* what happens here besides one job or save at a time

(***************************************************************************)
(* "direct"     CreateFolderVault is called on a half-converted folder, as   *)
(*              its tests do; StartCreateVault refuses                       *)
(* "overwrite"  files are saved, renamed or deleted in the vault under names *)
(*              that have an object already or a plaintext left              *)
(* "alongside"  the vault is used while it is being removed                  *)
(***************************************************************************)
ASSUME FolderAssumption ==
  /\ None \notin Vals
  /\ Ids \subseteq Nat /\ IsFiniteSet(Ids)
  /\ MaxVaults \in Nat /\ MaxCrashes \in Nat
  /\ Habits \subseteq {"direct", "overwrite", "alongside"}

VARIABLES
  plain,     \* plain[n]: the plaintext file n
  manifest,  \* the vault whose manifest is there, 0 for none
  objs,      \* objs[i]: the object files in .dpvault/d
  job,       \* the create or remove job: "none", "create", "remove"
  step,      \* where it is
  walked,    \* plaintext files it has still to encrypt
  listed,    \* objects it has still to decrypt
  cur, staged,  \* the file it is at, and the content read for it
  op,        \* the save, rename or delete under way
  outcome,   \* how the last job ended
  made, crashes,  \* vaults made, crashes so far
  files      \* history: what the user last stored under each name

diskVars == <<plain, manifest, objs>>
jobVars == <<job, step, walked, listed, cur, staged, outcome>>
histVars == <<made, crashes, files>>
vars == <<diskVars, jobVars, op, histVars>>

Files == Vals \cup {None}
NoObj == [name |-> None, val |-> None, key |-> 0]
Objects == [name : Names, val : Vals, key : 1 .. MaxVaults] \cup {NoObj}
NoOp == [kind |-> "none", id |-> 0, name |-> None, val |-> None]

Present == {i \in Ids : objs[i] # NoObj}
\* What decrypts under the key of the manifest.
Ours(v) == {i \in Present : objs[i].key = v}
Matches(v, n) == {i \in Ours(v) : objs[i].name = n}

Init ==
  /\ plain \in [Names -> Files]
  /\ manifest = 0
  /\ objs = [i \in Ids |-> NoObj]
  /\ job = "none" /\ step = "idle" /\ walked = {} /\ listed = {} /\ cur = None /\ staged = None
  /\ op = NoOp /\ outcome = "none"
  /\ made = 0 /\ crashes = 0
  /\ files = plain

Put(i, n, v) == objs' = [objs EXCEPT ![i] = [name |-> n, val |-> v, key |-> manifest]]

\* A job ends, and with it what it kept.
JobEnds(how) ==
  /\ job' = "none" /\ step' = "idle" /\ walked' = {} /\ listed' = {} /\ cur' = None /\ staged' = None
  /\ outcome' = how

-----------------------------------------------------------------------------
(***************************************************************************)
(* Lock with password: CreateFolderVault.                                   *)
(***************************************************************************)

\* StartCreateVault finds the folder to be a vault already.
RefuseCreate ==
  /\ job = "none" /\ manifest # 0
  /\ outcome' = "refused"
  /\ UNCHANGED <<diskVars, job, step, walked, listed, cur, staged, op, histVars>>

\* Fault: a resume starts over with every plaintext file.
StartCreateAnew ==
  /\ job = "none" /\ op = NoOp
  /\ manifest = 0 \/ "direct" \in Habits
  /\ manifest # 0 \/ made < MaxVaults
  /\ job' = "create"
  /\ walked' = {n \in Names : plain[n] # None}
  /\ step' = IF manifest = 0 THEN "manifest" ELSE "next"
  /\ outcome' = "none"
  /\ UNCHANGED <<diskVars, listed, cur, staged, op, histVars>>

\* The manifest is read and the plaintext walked; on a resume the names of
\* the objects there are skipped (existingRelPaths).
StartCreate ==
  /\ job = "none" /\ op = NoOp
  /\ manifest = 0 \/ "direct" \in Habits
  /\ manifest # 0 \/ made < MaxVaults
  /\ job' = "create"
  /\ walked' = {n \in Names : plain[n] # None /\ (manifest = 0 \/ Matches(manifest, n) = {})}
  /\ step' = IF manifest = 0 THEN "manifest" ELSE "next"
  /\ outcome' = "none"
  /\ UNCHANGED <<diskVars, listed, cur, staged, op, histVars>>

\* A fresh vault: a new key, its manifest put in place by a rename.
WriteManifest ==
  /\ step = "manifest"
  /\ made' = made + 1 /\ manifest' = made + 1
  /\ step' = "next"
  /\ UNCHANGED <<plain, objs, job, walked, listed, cur, staged, outcome, op, crashes, files>>

\* encryptOneFile: the content goes to a temporary name no reader looks at.
EncryptNext(n) ==
  /\ job = "create" /\ step = "next" /\ n \in walked
  /\ cur' = n /\ staged' = plain[n]
  /\ step' = "staged"
  /\ UNCHANGED <<diskVars, job, walked, listed, outcome, op, histVars>>

\* writeObjectAtomic renames the object into place.
CommitObject(i) ==
  /\ job = "create" /\ step = "staged" /\ i \notin Present
  /\ Put(i, cur, staged)
  /\ step' = "unlink"
  /\ UNCHANGED <<plain, manifest, job, walked, listed, cur, staged, outcome, op, histVars>>

\* os.Remove of the plaintext.
UnlinkPlain ==
  /\ job = "create" /\ step = "unlink"
  /\ plain' = [plain EXCEPT ![cur] = None]
  /\ walked' = walked \ {cur} /\ cur' = None /\ staged' = None
  /\ step' = "next"
  /\ UNCHANGED <<manifest, objs, job, listed, outcome, op, histVars>>

\* Fault: the job stays registered after its last file.
FinishCreateUnended ==
  /\ job = "create" /\ step = "next" /\ walked = {}
  /\ step' = "idle" /\ outcome' = "created"
  /\ UNCHANGED <<diskVars, job, walked, listed, cur, staged, op, histVars>>

FinishCreate ==
  /\ job = "create" /\ step = "next" /\ walked = {}
  /\ JobEnds("created")
  /\ UNCHANGED <<diskVars, op, histVars>>

-----------------------------------------------------------------------------
(***************************************************************************)
(* Remove password: removeFolderVault.                                      *)
(***************************************************************************)

StartRemove ==
  /\ job = "none" /\ manifest # 0
  /\ op = NoOp \/ "alongside" \in Habits
  /\ job' = "remove" /\ listed' = Present /\ step' = "next" /\ outcome' = "none"
  /\ UNCHANGED <<diskVars, walked, cur, staged, op, histVars>>

\* The next object of the listing is opened; what another vault sealed, or
\* what is gone, ends the job.
OpenFails ==
  /\ job = "remove" /\ step = "next" /\ listed # {}
  /\ Min(listed) \notin Ours(manifest)
  /\ JobEnds("failed")
  /\ UNCHANGED <<diskVars, op, histVars>>

\* A name that has a plaintext is skipped.
SkipRestored ==
  /\ job = "remove" /\ step = "next" /\ listed # {}
  /\ Min(listed) \in Ours(manifest) /\ plain[objs[Min(listed)].name] # None
  /\ listed' = listed \ {Min(listed)}
  /\ UNCHANGED <<diskVars, job, step, walked, cur, staged, outcome, op, histVars>>

DecryptNext ==
  /\ job = "remove" /\ step = "next" /\ listed # {}
  /\ Min(listed) \in Ours(manifest) /\ plain[objs[Min(listed)].name] = None
  /\ cur' = objs[Min(listed)].name /\ staged' = objs[Min(listed)].val
  /\ listed' = listed \ {Min(listed)}
  /\ step' = "staged"
  /\ UNCHANGED <<diskVars, job, walked, outcome, op, histVars>>

\* writePlainFile renames the decrypted file into place.
CommitPlain ==
  /\ job = "remove" /\ step = "staged"
  /\ plain' = [plain EXCEPT ![cur] = staged]
  /\ cur' = None /\ staged' = None /\ step' = "next"
  /\ UNCHANGED <<manifest, objs, job, walked, listed, outcome, op, histVars>>

\* Fault: the vault is deleted when the job ends, however it ends.
StartDropAlways ==
  /\ job = "remove" /\ step = "next"
  /\ step' = "drop"
  /\ UNCHANGED <<diskVars, job, walked, listed, cur, staged, outcome, op, histVars>>

\* RemoveAll of .dpvault starts, and deletes the manifest and the objects in
\* whatever order the directory gives them.
StartDrop ==
  /\ job = "remove" /\ step = "next" /\ listed = {}
  /\ step' = "drop"
  /\ UNCHANGED <<diskVars, job, walked, listed, cur, staged, outcome, op, histVars>>

DropObject(i) ==
  /\ step = "drop" /\ i \in Present
  /\ objs' = [objs EXCEPT ![i] = NoObj]
  /\ UNCHANGED <<plain, manifest, jobVars, op, histVars>>

DropManifest ==
  /\ step = "drop" /\ manifest # 0
  /\ manifest' = 0
  /\ UNCHANGED <<plain, objs, jobVars, op, histVars>>

\* The temporary object of a save goes with the directory, and the save fails.
FinishRemove ==
  /\ step = "drop" /\ manifest = 0 /\ Present = {}
  /\ JobEnds("removed")
  /\ op' = NoOp
  /\ UNCHANGED <<diskVars, histVars>>

-----------------------------------------------------------------------------
\* Fault: a job that was cancelled ends as if it were done.
StopJobQuietly ==
  /\ job # "none" /\ step \in {"next", "staged", "unlink"}
  /\ step = "next" => walked \cup listed # {}
  /\ JobEnds(IF job = "create" THEN "created" ELSE "removed")
  /\ UNCHANGED <<diskVars, op, histVars>>

\* CancelJob, seen before the next file or object; or a file that cannot be
\* read, written or removed.
StopJob ==
  /\ job # "none" /\ step \in {"next", "staged", "unlink"}
  /\ step = "next" => walked \cup listed # {}
  /\ JobEnds("failed")
  /\ UNCHANGED <<diskVars, op, histVars>>

\* The process dies: temporary files are all that is left of a job or save.
Crash ==
  /\ job # "none" \/ op # NoOp
  /\ crashes < MaxCrashes
  /\ crashes' = crashes + 1
  /\ JobEnds("crashed")
  /\ op' = NoOp
  /\ UNCHANGED <<diskVars, made, files>>

-----------------------------------------------------------------------------
(***************************************************************************)
(* Using the folder.                                                        *)
(***************************************************************************)

\* An unprotected folder is edited by anybody.
Edit(n, v) ==
  /\ job = "none" /\ manifest = 0
  /\ plain' = [plain EXCEPT ![n] = v] /\ files' = [files EXCEPT ![n] = v]
  /\ UNCHANGED <<manifest, objs, jobVars, op, made, crashes>>

\* The vault is unlocked, and used when no job runs on it.
Usable == /\ op = NoOp /\ manifest # 0
          /\ job = "none" \/ (job = "remove" /\ "alongside" \in Habits)
Free(n) == "overwrite" \in Habits \/ (plain[n] = None /\ Matches(manifest, n) = {})
Own(n) == "overwrite" \in Habits \/ plain[n] = None

\* Put streams into a temporary object.
BeginPut(n, v) ==
  /\ Usable /\ Free(n)
  /\ op' = [kind |-> "put", id |-> 0, name |-> n, val |-> v]
  /\ UNCHANGED <<diskVars, jobVars, histVars>>

\* and renames it into place as an object of its own, whatever name it has.
\* The session's key is the vault's, also when the manifest is gone by now.
EndPut(i) ==
  /\ op.kind = "put" /\ i \notin Present
  /\ objs' = [objs EXCEPT ![i] = [name |-> op.name, val |-> op.val, key |-> made]]
  /\ files' = [files EXCEPT ![op.name] = op.val]
  /\ op' = NoOp
  /\ UNCHANGED <<plain, manifest, jobVars, made, crashes>>

\* findObject takes the first object of the name: Remove and Rename.
BeginDelete(n) ==
  /\ Usable /\ Own(n) /\ Matches(manifest, n) # {}
  /\ op' = [kind |-> "delete", id |-> Min(Matches(manifest, n)), name |-> n, val |-> None]
  /\ UNCHANGED <<diskVars, jobVars, histVars>>

EndDelete ==
  /\ op.kind = "delete"
  /\ objs' = [objs EXCEPT ![op.id] = NoObj]
  /\ files' = IF op.id \in Present THEN [files EXCEPT ![op.name] = None] ELSE files
  /\ op' = NoOp
  /\ UNCHANGED <<plain, manifest, jobVars, made, crashes>>

\* renameObjectHeader copies the object under a temporary name with the new
\* name inside, and renames it over the old one.  The model keeps the target
\* in name and finds the old name in the object.
BeginRename(n, m) ==
  /\ Usable /\ Own(n) /\ Matches(manifest, n) # {} /\ m # n /\ Free(m)
  /\ LET i == Min(Matches(manifest, n))
     IN op' = [kind |-> "rename", id |-> i, name |-> m, val |-> objs[i].val]
  /\ UNCHANGED <<diskVars, jobVars, histVars>>

EndRename ==
  /\ op.kind = "rename"
  /\ objs' = [objs EXCEPT ![op.id] = [name |-> op.name, val |-> op.val, key |-> made]]
  /\ files' = [n \in Names |->
                 IF n = op.name THEN op.val
                 ELSE IF n = objs[op.id].name THEN None ELSE files[n]]
  /\ op' = NoOp
  /\ UNCHANGED <<plain, manifest, jobVars, made, crashes>>

-----------------------------------------------------------------------------
JobStep ==
  \/ WriteManifest \/ UnlinkPlain \/ FinishCreate
  \/ OpenFails \/ SkipRestored \/ DecryptNext \/ CommitPlain
  \/ StartDrop \/ DropManifest \/ FinishRemove
  \/ \E n \in Names : EncryptNext(n)
  \/ \E i \in Ids : CommitObject(i) \/ DropObject(i)

UseStep ==
  \/ \E n \in Names, v \in Vals : Edit(n, v) \/ BeginPut(n, v)
  \/ \E n \in Names : BeginDelete(n)
  \/ \E n, m \in Names : BeginRename(n, m)
  \/ \E i \in Ids : EndPut(i)
  \/ EndDelete \/ EndRename

Next ==
  \/ RefuseCreate \/ StartCreate \/ StartRemove \/ StopJob \/ Crash
  \/ JobStep \/ UseStep

Spec == Init /\ [][Next]_vars

-----------------------------------------------------------------------------
(***************************************************************************)
(* What locking a folder promises.                                          *)
(***************************************************************************)

Steps == {"idle", "manifest", "next", "staged", "unlink", "drop"}
Outcomes == {"none", "refused", "created", "removed", "failed", "crashed"}
Kinds == {"none", "put", "delete", "rename"}

TypeOK ==
  /\ plain \in [Names -> Files] /\ files \in [Names -> Files]
  /\ manifest \in 0 .. MaxVaults /\ made \in 0 .. MaxVaults /\ crashes \in 0 .. MaxCrashes
  /\ objs \in [Ids -> Objects]
  /\ job \in {"none", "create", "remove"} /\ step \in Steps /\ outcome \in Outcomes
  /\ job = "none" <=> step = "idle"
  /\ walked \subseteq Names /\ listed \subseteq Ids
  /\ cur \in Names \cup {None} /\ staged \in Files
  /\ op \in [kind : Kinds, id : Ids \cup {0}, name : Names \cup {None}, val : Files]

\* What the password gets: the plaintext, or what the vault holds.
InVault(n) == IF Matches(manifest, n) = {} THEN None ELSE objs[Min(Matches(manifest, n))].val
Readable(n) == IF plain[n] # None THEN plain[n] ELSE InVault(n)

\* At every moment, also after a crash, a cancel or a failure between any two
\* steps of locking and unlocking, each file can be read with what was last
\* stored in it (create.go, remove.go).
ContentsKept == \A n \in Names : Readable(n) = files[n]

\* A create that was cut short and is run again makes no second object of a
\* name ("must finish with no duplicate objects").
NoTwins == \A n \in Names : Cardinality(Matches(manifest, n)) <= 1

\* When locking reports success the vault has every file of the folder.
CreatedIsComplete ==
  outcome = "created" => \A n \in Names : files[n] # None => Matches(manifest, n) # {}

\* and nothing of the folder is left in the clear ("Locked = ciphertext on
\* disk").
CreatedIsCiphertext == outcome = "created" => \A n \in Names : plain[n] = None

\* Locking is only refused to a folder that is locked; a half-converted one
\* can be tried again ("User can retry").
RetryAccepted == outcome = "refused" => \A n \in Names : plain[n] = None

\* A file saved in an unlocked vault reads as it was saved ("re-encrypt and
\* replace object").
SavedIsRead ==
  job = "none" => \A n \in Names : Matches(manifest, n) # {} => InVault(n) = files[n]

\* Removing the password leaves every file as it was last saved ("decrypts
\* every object back to plaintext").
RemoveRestores == outcome = "removed" => \A n \in Names : plain[n] = files[n]

\* A removal that was cut short can be run again to its end ("Safe to
\* retry"): no object of the listing is one that cannot be opened.
RemoveCanGoOn ==
  job = "remove" /\ step = "next" /\ listed # {} => Min(listed) \in Ours(manifest)

=============================================================================
