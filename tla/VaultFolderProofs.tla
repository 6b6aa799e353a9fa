------------------------- MODULE VaultFolderProofs -------------------------
(***************************************************************************)
(* Proofs about VaultFolder for every set of names, contents and objects    *)
(* and every bound: as long as nobody uses the vault while its password is  *)
(* removed, nor saves under a name that is taken, locking and unlocking keep *)
(* every file, whatever dies, fails or is cancelled between any two steps.  *)
(***************************************************************************)
EXTENDS VaultFolder, TLAPS, FiniteSetTheorems

\* The vault holds n.
Held(n) == \E i \in Ours(manifest) : objs[i].name = n

\* Only the last key made is in use, and nothing is sealed with a later one.
KeysAreMade ==
  /\ manifest \in {0, made}
  /\ \A i \in Present : objs[i].key <= made

\* One object of a name.
OneEach ==
  \A i, k \in Ours(manifest) : objs[i].name = objs[k].name => i = k

\* Object and plaintext are each up to date, and one of them is there.
ObjectsTrue == \A i \in Ours(manifest) : objs[i].val = files[objs[i].name]
PlainTrue == \A n \in Names : plain[n] # None => plain[n] = files[n]
Somewhere == \A n \in Names : files[n] # None => plain[n] # None \/ Held(n)

\* Without a manifest, and once the vault is being deleted, all is plaintext.
AllPlain == (manifest = 0 \/ step = "drop") => plain = files

\* Each job has steps of its own.
StepsOfJobs ==
  /\ step \in {"manifest", "unlink"} => job = "create"
  /\ step = "drop" => job = "remove"

\* Create: what is still to do has a plaintext and no object, but for the file
\* between its two steps; what has neither is nowhere.
Creating ==
  job = "create" =>
    /\ step \in {"manifest", "next", "staged", "unlink"}
    /\ step = "manifest" <=> manifest = 0
    /\ step = "manifest" => made < MaxVaults
    /\ \A n \in walked : plain[n] # None
    /\ \A n \in walked : Held(n) <=> step = "unlink" /\ n = cur
    /\ \A n \in Names : plain[n] # None => n \in walked \/ Held(n)
    /\ step \in {"staged", "unlink"} => cur \in walked
    /\ step = "staged" => staged = plain[cur]

\* Remove: what is no longer listed has its plaintext, or is about to.
Removing ==
  job = "remove" =>
    /\ step \in {"next", "staged", "drop"}
    /\ step # "drop" =>
         /\ manifest # 0
         /\ \A i \in Ours(manifest) :
              \/ i \in listed \/ plain[objs[i].name] # None
              \/ step = "staged" /\ cur = objs[i].name
    /\ step = "staged" => cur \in Names /\ staged = files[cur]

\* A save, rename or delete under way has the folder for itself, its source is
\* an object without a plaintext, and its target is free.
UsedAlone ==
  /\ op.kind = "none" => op = NoOp
  /\ op.kind # "none" => job = "none" /\ manifest # 0
  /\ op.kind \in {"put", "rename"} =>
       op.name \in Names /\ op.val \in Vals /\ plain[op.name] = None /\ ~Held(op.name)
  /\ op.kind \in {"delete", "rename"} =>
       op.id \in Ours(manifest) /\ plain[objs[op.id].name] = None
  /\ op.kind = "delete" => op.name = objs[op.id].name
  /\ op.kind = "rename" => op.val = objs[op.id].val

\* What a create that reported success left stays so.
CreatedStays ==
  outcome = "created" =>
    manifest # 0 /\ job = "none" /\ \A n \in Names : files[n] # None => Held(n)

IInv == /\ TypeOK /\ KeysAreMade /\ OneEach /\ ObjectsTrue /\ PlainTrue /\ Somewhere
        /\ AllPlain /\ StepsOfJobs /\ Creating /\ Removing /\ UsedAlone /\ CreatedStays

-----------------------------------------------------------------------------
(***************************************************************************)
(* Facts about the state.                                                   *)
(***************************************************************************)

\* An object that is there has a name, a content and the key of some vault.
LEMMA ObjectType ==
  ASSUME TypeOK, NEW i \in Present
  PROVE  i \in Ids /\ objs[i].name \in Names /\ objs[i].val \in Vals /\ objs[i].key \in 1 .. MaxVaults
BY DEF TypeOK, Present, Objects

\* The vault's object of a name is the first of its name.
LEMMA FirstIsIt ==
  ASSUME TypeOK, OneEach, NEW n, NEW i \in Matches(manifest, n)
  PROVE  Min(Matches(manifest, n)) = i
<1>1. i \in Nat
  BY FolderAssumption DEF Matches, Ours, Present
<1>2. Matches(manifest, n) = {i}
  BY DEF Matches, OneEach
<1>3. Min({i}) = i
  BY <1>1 DEF Min
<1> QED
  BY <1>2, <1>3

\* Held is whether there is a match.
LEMMA HeldMatches ==
  ASSUME NEW n PROVE Held(n) <=> Matches(manifest, n) # {}
BY DEF Held, Matches

\* Without a manifest nothing is held.
LEMMA NoneHeld ==
  ASSUME TypeOK, manifest = 0 PROVE Ours(manifest) = {} /\ \A n : ~Held(n)
BY ObjectType DEF Ours, Held

\* Whoever leaves the disk alone leaves the facts about it.
LEMMA DiskStays ==
  ASSUME IInv, UNCHANGED <<diskVars, made, files>>
  PROVE  /\ KeysAreMade' /\ OneEach' /\ ObjectsTrue' /\ PlainTrue' /\ Somewhere'
         /\ Ours(manifest)' = Ours(manifest)
         /\ \A n : Held(n)' <=> Held(n)
<1>1. Ours(manifest)' = Ours(manifest)
  BY DEF Ours, Present, diskVars
<1> QED
  BY <1>1 DEF IInv, KeysAreMade, OneEach, ObjectsTrue, PlainTrue, Somewhere, Held, Ours, Present, diskVars

-----------------------------------------------------------------------------
LEMMA InitIInv == Init => IInv
<1> SUFFICES ASSUME Init PROVE IInv
  OBVIOUS
<1> USE FolderAssumption DEF Init
<1>1. Present = {}
  BY DEF Present
<1>2. TypeOK
  BY DEF TypeOK, Objects, NoOp, Steps, Outcomes, Kinds, Files
<1>3. KeysAreMade /\ OneEach /\ ObjectsTrue
  BY <1>1 DEF KeysAreMade, OneEach, ObjectsTrue, Ours
<1>4. PlainTrue /\ Somewhere /\ AllPlain /\ Creating /\ Removing /\ CreatedStays
  BY DEF PlainTrue, Somewhere, AllPlain, Creating, Removing, CreatedStays
<1>5. StepsOfJobs
  BY DEF StepsOfJobs
<1>6. UsedAlone
  BY DEF UsedAlone, NoOp
<1> QED
  BY <1>2, <1>3, <1>4, <1>5, <1>6 DEF IInv

-----------------------------------------------------------------------------
(***************************************************************************)
(* Types.                                                                   *)
(***************************************************************************)

LEMMA TypeStep == IInv /\ [Next]_vars => TypeOK'
<1> SUFFICES ASSUME IInv, [Next]_vars PROVE TypeOK'
  OBVIOUS
<1> USE FolderAssumption DEF IInv, TypeOK, Steps, Outcomes, Kinds, Files, diskVars, jobVars, histVars
<1>1. CASE RefuseCreate \/ StartCreate \/ StartRemove
  BY <1>1 DEF RefuseCreate, StartCreate, StartRemove, Present
<1>2. CASE StopJob \/ Crash \/ FinishCreate \/ OpenFails \/ FinishRemove
  BY <1>2 DEF StopJob, Crash, FinishCreate, OpenFails, FinishRemove, JobEnds, NoOp
<1>3. CASE WriteManifest
  <2>1. made < MaxVaults
    BY <1>3 DEF WriteManifest, StepsOfJobs, Creating
  <2>2. made + 1 \in 0 .. MaxVaults
    BY <2>1
  <2> QED
    BY <1>3, <2>2 DEF WriteManifest
<1>4. CASE UnlinkPlain
  BY <1>4 DEF UnlinkPlain
<1>5. CASE SkipRestored \/ StartDrop \/ DropManifest
  <2>1. CASE SkipRestored
    BY <2>1 DEF SkipRestored
  <2>2. CASE StartDrop
    BY <2>2 DEF StartDrop
  <2>3. CASE DropManifest
    <3>1. 0 \in 0 .. MaxVaults
      OBVIOUS
    <3> QED
      BY <2>3, <3>1 DEF DropManifest
  <2> QED
    BY <1>5, <2>1, <2>2, <2>3
<1>6. CASE DecryptNext
  <2>1. objs[Min(listed)].name \in Names /\ objs[Min(listed)].val \in Vals
    BY <1>6, ObjectType DEF DecryptNext, Ours
  <2> QED
    BY <1>6, <2>1 DEF DecryptNext
<1>7. CASE CommitPlain
  BY <1>7 DEF CommitPlain
<1>8. ASSUME NEW n \in Names, EncryptNext(n) PROVE TypeOK'
  BY <1>8 DEF EncryptNext
<1>9. ASSUME NEW i \in Ids, CommitObject(i) PROVE TypeOK'
  <2>1. cur \in Names /\ staged \in Vals /\ manifest \in 1 .. MaxVaults
    BY <1>9 DEF CommitObject, Creating
  <2>2. objs' \in [Ids -> Objects]
    BY <1>9, <2>1 DEF CommitObject, Put, Objects
  <2> QED
    BY <1>9, <2>2 DEF CommitObject
<1>10. ASSUME NEW i \in Ids, DropObject(i) PROVE TypeOK'
  <2>1. objs' \in [Ids -> Objects]
    BY <1>10 DEF DropObject, Objects
  <2> QED
    BY <1>10, <2>1 DEF DropObject
<1>11. ASSUME NEW n \in Names, NEW v \in Vals, Edit(n, v) PROVE TypeOK'
  BY <1>11 DEF Edit
<1>12. ASSUME NEW n \in Names, NEW v \in Vals, BeginPut(n, v) PROVE TypeOK'
  BY <1>12 DEF BeginPut
<1>13. ASSUME NEW n \in Names, BeginDelete(n) PROVE TypeOK'
  <2>1. PICK i \in Matches(manifest, n) : Min(Matches(manifest, n)) = i
    BY <1>13, FirstIsIt DEF BeginDelete
  <2> QED
    BY <1>13, <2>1 DEF BeginDelete, Matches, Ours, Present
<1>14. ASSUME NEW n \in Names, NEW m \in Names, BeginRename(n, m) PROVE TypeOK'
  <2>1. PICK i \in Matches(manifest, n) : Min(Matches(manifest, n)) = i
    BY <1>14, FirstIsIt DEF BeginRename
  <2>2. i \in Ids /\ objs[i].val \in Vals
    BY <2>1, ObjectType DEF Matches, Ours
  <2> QED
    BY <1>14, <2>1, <2>2 DEF BeginRename
<1>15. ASSUME NEW i \in Ids, EndPut(i) PROVE TypeOK'
  <2>1. op.name \in Names /\ op.val \in Vals /\ made \in 1 .. MaxVaults
    BY <1>15 DEF EndPut, UsedAlone, KeysAreMade
  <2>2. objs' \in [Ids -> Objects]
    BY <1>15, <2>1 DEF EndPut, Objects
  <2>3. op' \in [kind : Kinds, id : Ids \cup {0}, name : Names \cup {None}, val : Files]
    BY <1>15 DEF EndPut, NoOp
  <2> QED
    BY <1>15, <2>1, <2>2, <2>3 DEF EndPut
<1>16. CASE EndDelete
  <2>1. objs' \in [Ids -> Objects]
    BY <1>16 DEF EndDelete, Objects
  <2>2. op' \in [kind : Kinds, id : Ids \cup {0}, name : Names \cup {None}, val : Files]
    BY <1>16 DEF EndDelete, NoOp
  <2>3. files' \in [Names -> Files]
    BY <1>16 DEF EndDelete
  <2> QED
    BY <1>16, <2>1, <2>2, <2>3 DEF EndDelete
<1>17. CASE EndRename
  <2>1. op.name \in Names /\ op.val \in Vals /\ made \in 1 .. MaxVaults
    BY <1>17 DEF EndRename, UsedAlone, KeysAreMade
  <2>2. objs' \in [Ids -> Objects]
    BY <1>17, <2>1 DEF EndRename, Objects
  <2>3. op' \in [kind : Kinds, id : Ids \cup {0}, name : Names \cup {None}, val : Files]
    BY <1>17 DEF EndRename, NoOp
  <2>4. files' \in [Names -> Files]
    BY <1>17, <2>1 DEF EndRename
  <2> QED
    BY <1>17, <2>2, <2>3, <2>4 DEF EndRename
<1>18. CASE UNCHANGED vars
  BY <1>18 DEF vars
<1> QED
  BY <1>1, <1>2, <1>3, <1>4, <1>5, <1>6, <1>7, <1>8, <1>9, <1>10, <1>11, <1>12,
     <1>13, <1>14, <1>15, <1>16, <1>17, <1>18 DEF Next, JobStep, UseStep

-----------------------------------------------------------------------------
(***************************************************************************)
(* Steps that leave the disk alone.                                         *)
(***************************************************************************)

\* The facts about the disk, those about jobs, and those about saves apart.
Disk == KeysAreMade /\ OneEach /\ ObjectsTrue /\ PlainTrue /\ Somewhere
Work == AllPlain /\ StepsOfJobs /\ Creating /\ Removing /\ CreatedStays

\* A job that starts.
LEMMA Starts ==
  ASSUME IInv, RefuseCreate \/ StartCreate \/ StartRemove, Habits \subseteq {"direct"}
  PROVE  Disk' /\ Work' /\ UsedAlone'
<1> USE DEF IInv
<1>1. UNCHANGED <<diskVars, made, files, op>>
  BY DEF RefuseCreate, StartCreate, StartRemove, histVars
<1>2. Disk' /\ Ours(manifest)' = Ours(manifest) /\ \A n : Held(n)' <=> Held(n)
  BY <1>1, DiskStays DEF Disk
<1>3. CASE RefuseCreate
  <2>1. Work'
    BY <1>1, <1>2, <1>3 DEF Work, RefuseCreate, AllPlain, StepsOfJobs, Creating, Removing, CreatedStays, diskVars
  <2>2. UsedAlone'
    BY <1>1, <1>2, <1>3 DEF UsedAlone, RefuseCreate, diskVars
  <2> QED
    BY <1>2, <2>1, <2>2
<1>4. CASE StartCreate
  <2>1. AllPlain' /\ StepsOfJobs' /\ Removing' /\ CreatedStays'
    BY <1>1, <1>4 DEF StartCreate, AllPlain, StepsOfJobs, Removing, CreatedStays, diskVars
  <2>2. Creating'
    <3>1. walked' = {n \in Names : plain[n] # None /\ (manifest = 0 \/ ~Held(n))}
      BY <1>4, HeldMatches DEF StartCreate
    <3>2. manifest = 0 => \A n : ~Held(n)
      BY NoneHeld
    <3> QED
      BY <1>1, <1>2, <1>4, <3>1, <3>2 DEF StartCreate, Creating, diskVars
  <2>3. UsedAlone'
    BY <1>1, <1>2, <1>4 DEF UsedAlone, StartCreate, NoOp, diskVars
  <2> QED
    BY <1>2, <2>1, <2>2, <2>3 DEF Work
<1>5. CASE StartRemove
  <2>1. Work'
    BY <1>1, <1>2, <1>5 DEF Work, StartRemove, AllPlain, StepsOfJobs, Creating, Removing, CreatedStays, diskVars, Ours
  <2>2. UsedAlone'
    BY <1>1, <1>2, <1>5 DEF UsedAlone, StartRemove, NoOp, diskVars
  <2> QED
    BY <1>2, <2>1, <2>2
<1> QED
  BY <1>3, <1>4, <1>5

\* A job that ends, however it does.
LEMMA Ends ==
  ASSUME IInv, StopJob \/ Crash \/ FinishCreate \/ OpenFails \/ FinishRemove
  PROVE  Disk' /\ Work' /\ UsedAlone'
<1> USE DEF IInv
<1>1. /\ UNCHANGED <<diskVars, made, files>>
      /\ op' = op \/ op' = NoOp
      /\ job' = "none" /\ step' = "idle"
  BY DEF StopJob, Crash, FinishCreate, OpenFails, FinishRemove, JobEnds, histVars
<1>2. Disk' /\ Ours(manifest)' = Ours(manifest) /\ \A n : Held(n)' <=> Held(n)
  BY <1>1, DiskStays DEF Disk
<1>3. AllPlain' /\ StepsOfJobs' /\ Creating' /\ Removing'
  BY <1>1 DEF AllPlain, StepsOfJobs, Creating, Removing, diskVars
<1>4. CreatedStays'
  <2>1. outcome' # "created" \/ FinishCreate
    BY DEF StopJob, Crash, OpenFails, FinishRemove, JobEnds
  <2>2. CASE FinishCreate
    <3>1. manifest # 0 /\ \A n \in Names : plain[n] # None => Held(n)
      BY <2>2 DEF FinishCreate, Creating
    <3>2. \A n \in Names : files[n] # None => Held(n)
      BY <3>1 DEF Somewhere
    <3> QED
      BY <1>1, <1>2, <3>1, <3>2 DEF CreatedStays, diskVars
  <2> QED
    BY <2>1, <2>2 DEF CreatedStays
<1>5. UsedAlone'
  BY <1>1, <1>2 DEF UsedAlone, NoOp, diskVars
<1> QED
  BY <1>2, <1>3, <1>4, <1>5 DEF Work

\* A job that reads.
LEMMA Reads ==
  ASSUME IInv, SkipRestored \/ DecryptNext \/ StartDrop \/ \E n \in Names : EncryptNext(n)
  PROVE  Disk' /\ Work' /\ UsedAlone'
<1> USE DEF IInv
<1>1. UNCHANGED <<diskVars, made, files, op, job, outcome>>
  BY DEF SkipRestored, DecryptNext, StartDrop, EncryptNext, histVars
<1>2. Disk' /\ Ours(manifest)' = Ours(manifest) /\ \A n : Held(n)' <=> Held(n)
  BY <1>1, DiskStays DEF Disk
<1>3. UsedAlone' /\ CreatedStays'
  BY <1>1, <1>2 DEF UsedAlone, CreatedStays, diskVars
<1>4. CASE SkipRestored
  BY <1>1, <1>2, <1>3, <1>4 DEF Work, SkipRestored, AllPlain, StepsOfJobs, Creating, Removing, diskVars
<1>5. CASE DecryptNext
  <2>1. Min(listed) \in Ours(manifest)
    BY <1>5 DEF DecryptNext
  <2>2. objs[Min(listed)].name \in Names
    BY <2>1, ObjectType DEF Ours
  <2>3. staged' = files[cur'] /\ cur' = objs[Min(listed)].name /\ listed' = listed \ {Min(listed)}
    BY <1>5, <2>1 DEF DecryptNext, ObjectsTrue
  <2>4. job = "remove" /\ step = "next" /\ step' = "staged" /\ manifest # 0
    BY <1>5 DEF DecryptNext, Removing
  <2>5. Removing'
    BY <1>1, <1>2, <2>2, <2>3, <2>4 DEF Removing, diskVars
  <2> QED
    BY <1>1, <1>2, <1>3, <2>4, <2>5 DEF Work, AllPlain, StepsOfJobs, Creating, diskVars
<1>6. CASE StartDrop
  <2>1. plain = files
    <3>1. ASSUME NEW n \in Names PROVE plain[n] = files[n]
      <4>1. Held(n) => plain[n] # None
        BY <1>6 DEF StartDrop, Held, Removing
      <4> QED
        BY <4>1 DEF Somewhere, PlainTrue
    <3> QED
      BY <3>1 DEF TypeOK
  <2> QED
    BY <1>1, <1>2, <1>3, <1>6, <2>1 DEF Work, StartDrop, AllPlain, StepsOfJobs, Creating, Removing, diskVars
<1>7. ASSUME NEW n \in Names, EncryptNext(n) PROVE Work'
  BY <1>1, <1>2, <1>3, <1>7 DEF Work, EncryptNext, AllPlain, StepsOfJobs, Creating, Removing, diskVars
<1> QED
  BY <1>2, <1>3, <1>4, <1>5, <1>6, <1>7

\* A save, rename or delete that begins.
LEMMA Begins ==
  ASSUME IInv, Habits \subseteq {"direct"}, NEW n \in Names,
         \/ BeginDelete(n)
         \/ \E v \in Vals : BeginPut(n, v)
         \/ \E m \in Names : BeginRename(n, m)
  PROVE  Disk' /\ Work' /\ UsedAlone'
<1> USE DEF IInv
<1>1. UNCHANGED <<diskVars, jobVars, made, files>>
  BY DEF BeginDelete, BeginPut, BeginRename, histVars
<1>2. Disk' /\ Ours(manifest)' = Ours(manifest) /\ \A m : Held(m)' <=> Held(m)
  BY <1>1, DiskStays DEF Disk
<1>3. Work'
  BY <1>1, <1>2 DEF Work, AllPlain, StepsOfJobs, Creating, Removing, CreatedStays, diskVars, jobVars
<1>4. job = "none" /\ manifest # 0
  BY DEF BeginDelete, BeginPut, BeginRename, Usable
<1>5. ASSUME NEW m \in Names, Free(m) PROVE plain[m] = None /\ ~Held(m)
  BY <1>5, HeldMatches DEF Free
<1>6. CASE BeginDelete(n)
  <2>1. PICK i \in Matches(manifest, n) : Min(Matches(manifest, n)) = i
    BY <1>6, FirstIsIt DEF BeginDelete
  <2>2. i \in Ours(manifest) /\ objs[i].name = n /\ plain[n] = None
    BY <1>6, <2>1 DEF BeginDelete, Own, Matches
  <2>3. op' = [kind |-> "delete", id |-> i, name |-> n, val |-> None]
    BY <1>6, <2>1 DEF BeginDelete
  <2> QED
    BY <1>1, <1>2, <1>3, <1>4, <2>2, <2>3 DEF UsedAlone, diskVars, jobVars
<1>7. ASSUME NEW v \in Vals, BeginPut(n, v) PROVE UsedAlone'
  <2>1. plain[n] = None /\ ~Held(n)
    BY <1>5, <1>7 DEF BeginPut
  <2>2. op' = [kind |-> "put", id |-> 0, name |-> n, val |-> v]
    BY <1>7 DEF BeginPut
  <2> QED
    BY <1>1, <1>2, <1>4, <2>1, <2>2 DEF UsedAlone, diskVars, jobVars
<1>8. ASSUME NEW m \in Names, BeginRename(n, m) PROVE UsedAlone'
  <2>1. PICK i \in Matches(manifest, n) : Min(Matches(manifest, n)) = i
    BY <1>8, FirstIsIt DEF BeginRename
  <2>2. i \in Ours(manifest) /\ objs[i].name = n /\ plain[n] = None
    BY <1>8, <2>1 DEF BeginRename, Own, Matches
  <2>3. op' = [kind |-> "rename", id |-> i, name |-> m, val |-> objs[i].val]
    BY <1>8, <2>1 DEF BeginRename
  <2>4. plain[m] = None /\ ~Held(m)
    BY <1>5, <1>8 DEF BeginRename
  <2>5. objs[i].val \in Vals
    BY <2>2, ObjectType DEF Ours
  <2> QED
    BY <1>1, <1>2, <1>4, <2>2, <2>3, <2>4, <2>5 DEF UsedAlone, diskVars, jobVars
<1> QED
  BY <1>2, <1>3, <1>6, <1>7, <1>8

-----------------------------------------------------------------------------
(***************************************************************************)
(* Steps that change the disk.                                              *)
(***************************************************************************)

\* A fresh key opens nothing that is there.
LEMMA ManifestKeeps ==
  ASSUME IInv, WriteManifest
  PROVE  Disk' /\ Work' /\ UsedAlone'
<1> USE DEF IInv
<1>1. job = "create" /\ manifest = 0 /\ plain = files /\ made \in Nat
  BY DEF WriteManifest, StepsOfJobs, Creating, AllPlain, TypeOK
<1>2. manifest' = made + 1 /\ made' = made + 1 /\ UNCHANGED <<plain, objs, files, op, job, walked, outcome>>
      /\ step' = "next"
  BY DEF WriteManifest
<1>3. Ours(manifest)' = {} /\ \A n : ~Held(n)'
  <2>1. \A i \in Present : objs[i].key <= made /\ objs[i].key \in Nat
    BY ObjectType DEF KeysAreMade
  <2>2. Ours(manifest)' = {}
    BY <1>1, <1>2, <2>1 DEF Ours, Present
  <2> QED
    BY <2>2 DEF Held
<1>4. KeysAreMade'
  <2>1. \A i \in Present : objs[i].key <= made /\ objs[i].key \in Nat
    BY ObjectType DEF KeysAreMade
  <2> QED
    BY <1>1, <1>2, <2>1 DEF KeysAreMade, Present
<1>5. OneEach' /\ ObjectsTrue' /\ PlainTrue' /\ Somewhere'
  BY <1>1, <1>2, <1>3 DEF OneEach, ObjectsTrue, PlainTrue, Somewhere
<1>6. \A n : ~Held(n)
  BY <1>1, NoneHeld
<1>7. AllPlain' /\ StepsOfJobs' /\ Removing'
  BY <1>1, <1>2 DEF AllPlain, StepsOfJobs, Removing
<1>8. Creating'
  <2>1. \A n \in walked : plain[n] # None
    BY <1>1 DEF Creating
  <2>2. \A n \in Names : plain[n] # None => n \in walked
    BY <1>1, <1>6 DEF Creating
  <2>3. made + 1 # 0
    BY <1>1
  <2> QED
    BY <1>1, <1>2, <1>3, <2>1, <2>2, <2>3 DEF Creating
<1>9. CreatedStays'
  BY <1>1, <1>2 DEF CreatedStays
<1>10. UsedAlone'
  BY <1>1, <1>2 DEF UsedAlone
<1> QED
  BY <1>4, <1>5, <1>7, <1>8, <1>9, <1>10 DEF Disk, Work

\* The object of the file that is being encrypted.
LEMMA CommitKeeps ==
  ASSUME IInv, NEW i \in Ids, CommitObject(i)
  PROVE  Disk' /\ Work' /\ UsedAlone'
<1> USE DEF IInv
<1>1. job = "create" /\ step = "staged" /\ manifest # 0 /\ i \notin Present
  BY DEF CommitObject, Creating
<1>2. cur \in walked /\ cur \in Names /\ staged = plain[cur] /\ plain[cur] # None /\ staged = files[cur]
  BY <1>1 DEF Creating, PlainTrue, TypeOK
<1>3. ~Held(cur)
  BY <1>1, <1>2 DEF Creating
<1>4. objs' = [objs EXCEPT ![i] = [name |-> cur, val |-> staged, key |-> manifest]]
      /\ UNCHANGED <<plain, manifest, files, made, op, job, walked, cur, outcome>> /\ step' = "unlink"
  BY DEF CommitObject, Put, histVars
<1>5. objs'[i] = [name |-> cur, val |-> staged, key |-> manifest] /\ \A k \in Ids \ {i} : objs'[k] = objs[k]
  BY <1>4 DEF TypeOK
<1>6. objs'[i] # NoObj
  BY <1>1, <1>5 DEF NoObj
<1>7. Present' = Present \cup {i} /\ Ours(manifest)' = Ours(manifest) \cup {i}
  BY <1>1, <1>4, <1>5, <1>6 DEF Present, Ours
<1>8. \A n : Held(n)' <=> Held(n) \/ n = cur
  BY <1>5, <1>7, <1>1 DEF Held, Ours, Present
<1>9. KeysAreMade'
  BY <1>1, <1>4, <1>5, <1>7, ObjectType DEF KeysAreMade, TypeOK, Present
<1>10. OneEach'
  <2>1. \A k \in Ours(manifest) : objs[k].name # cur /\ objs'[k] = objs[k]
    BY <1>1, <1>3, <1>5 DEF Held, Ours, Present
  <2> QED
    BY <1>5, <1>7, <2>1 DEF OneEach
<1>11. ObjectsTrue' /\ PlainTrue' /\ Somewhere'
  BY <1>1, <1>2, <1>4, <1>5, <1>7, <1>8 DEF ObjectsTrue, PlainTrue, Somewhere, Ours, Present
<1>12. AllPlain' /\ StepsOfJobs' /\ Removing' /\ CreatedStays'
  BY <1>1, <1>4 DEF AllPlain, StepsOfJobs, Removing, CreatedStays
<1>13. Creating'
  BY <1>1, <1>2, <1>4, <1>8 DEF Creating
<1>14. UsedAlone'
  BY <1>1, <1>4 DEF UsedAlone
<1> QED
  BY <1>9, <1>10, <1>11, <1>12, <1>13, <1>14 DEF Disk, Work

\* The plaintext of a file that is held.
LEMMA UnlinkKeeps ==
  ASSUME IInv, UnlinkPlain
  PROVE  Disk' /\ Work' /\ UsedAlone'
<1> USE DEF IInv
<1>1. job = "create" /\ step = "unlink" /\ manifest # 0 /\ cur \in walked /\ cur \in Names /\ Held(cur)
  BY DEF UnlinkPlain, Creating, TypeOK
<1>2. UNCHANGED <<manifest, objs, files, made, op, job, outcome>> /\ step' = "next" /\ walked' = walked \ {cur}
  BY DEF UnlinkPlain, histVars
<1>3. \A n \in Names : plain'[n] = IF n = cur THEN None ELSE plain[n]
  BY DEF UnlinkPlain, TypeOK
<1>4. Ours(manifest)' = Ours(manifest) /\ Present' = Present
  BY <1>2 DEF Ours, Present
<1>5. \A n : Held(n)' <=> Held(n)
  BY <1>2, <1>4 DEF Held
<1>6. KeysAreMade' /\ OneEach' /\ ObjectsTrue' /\ PlainTrue' /\ Somewhere'
  BY <1>1, <1>2, <1>3, <1>4, <1>5 DEF KeysAreMade, OneEach, ObjectsTrue, PlainTrue, Somewhere
<1>7. AllPlain' /\ StepsOfJobs' /\ Removing' /\ CreatedStays' /\ UsedAlone'
  BY <1>1, <1>2 DEF AllPlain, StepsOfJobs, Removing, CreatedStays, UsedAlone
<1>8. Creating'
  <2>1. walked' \subseteq Names
    BY <1>2 DEF TypeOK
  <2> QED
    BY <1>1, <1>2, <1>3, <1>5, <2>1 DEF Creating
<1> QED
  BY <1>6, <1>7, <1>8 DEF Disk, Work

\* The plaintext of an object.
LEMMA RestoreKeeps ==
  ASSUME IInv, CommitPlain
  PROVE  Disk' /\ Work' /\ UsedAlone'
<1> USE DEF IInv
<1>1. job = "remove" /\ step = "staged" /\ manifest # 0 /\ cur \in Names /\ staged = files[cur]
  BY DEF CommitPlain, Removing
<1>2. UNCHANGED <<manifest, objs, files, made, op, job, listed, outcome>> /\ step' = "next"
  BY DEF CommitPlain, histVars
<1>3. \A n \in Names : plain'[n] = IF n = cur THEN files[cur] ELSE plain[n]
  BY <1>1 DEF CommitPlain, TypeOK
<1>4. Ours(manifest)' = Ours(manifest) /\ Present' = Present
  BY <1>2 DEF Ours, Present
<1>5. \A n : Held(n)' <=> Held(n)
  BY <1>2, <1>4 DEF Held
<1>6. KeysAreMade' /\ OneEach' /\ ObjectsTrue'
  BY <1>2, <1>4 DEF KeysAreMade, OneEach, ObjectsTrue
<1>7. PlainTrue' /\ Somewhere'
  BY <1>1, <1>2, <1>3, <1>5 DEF PlainTrue, Somewhere
<1>8. AllPlain' /\ StepsOfJobs' /\ Creating' /\ CreatedStays' /\ UsedAlone'
  BY <1>1, <1>2 DEF AllPlain, StepsOfJobs, Creating, CreatedStays, UsedAlone
<1>9. Removing'
  <2>1. ASSUME NEW i \in Ours(manifest) PROVE i \in listed \/ plain'[objs[i].name] # None
    <3>1. objs[i].name \in Names /\ objs[i].val \in Vals /\ objs[i].val = files[objs[i].name]
      BY <2>1, ObjectType DEF ObjectsTrue, Ours
    <3>2. files[objs[i].name] # None
      BY <3>1, FolderAssumption
    <3> QED
      BY <1>1, <1>3, <2>1, <3>1, <3>2 DEF Removing
  <2> QED
    BY <1>1, <1>2, <1>4, <2>1 DEF Removing
<1> QED
  BY <1>6, <1>7, <1>8, <1>9 DEF Disk, Work

\* The vault is deleted piece by piece: all is plaintext by then.
LEMMA DropKeeps ==
  ASSUME IInv, DropManifest \/ \E i \in Ids : DropObject(i)
  PROVE  Disk' /\ Work' /\ UsedAlone'
<1> USE DEF IInv
<1>1. job = "remove" /\ step = "drop" /\ plain = files
  BY DEF DropManifest, DropObject, StepsOfJobs, AllPlain
<1>2. UNCHANGED <<plain, files, made, op, job, step, outcome>> /\ (manifest' = manifest \/ manifest' = 0)
  BY DEF DropManifest, DropObject, jobVars, histVars
<1>3. Present' \subseteq Present /\ \A i \in Present' : objs'[i] = objs[i]
  BY DEF DropManifest, DropObject, Present, TypeOK
<1>4. Ours(manifest)' \subseteq Ours(manifest)
  BY <1>2, <1>3, ObjectType DEF Ours
<1>5. KeysAreMade'
  BY <1>2, <1>3 DEF KeysAreMade
<1>6. OneEach' /\ ObjectsTrue'
  BY <1>2, <1>3, <1>4 DEF OneEach, ObjectsTrue, Ours
<1>7. PlainTrue' /\ Somewhere'
  BY <1>1, <1>2 DEF PlainTrue, Somewhere
<1>8. Work' /\ UsedAlone'
  BY <1>1, <1>2 DEF Work, AllPlain, StepsOfJobs, Creating, Removing, CreatedStays, UsedAlone
<1> QED
  BY <1>5, <1>6, <1>7, <1>8 DEF Disk

\* An edit of a folder without a vault.
LEMMA EditKeeps ==
  ASSUME IInv, NEW n \in Names, NEW v \in Vals, Edit(n, v)
  PROVE  Disk' /\ Work' /\ UsedAlone'
<1> USE DEF IInv
<1>1. job = "none" /\ manifest = 0 /\ plain = files /\ op = NoOp /\ op.kind = "none"
  BY DEF Edit, AllPlain, UsedAlone, TypeOK, Kinds, NoOp
<1>2. UNCHANGED <<manifest, objs, made, op, job, step, outcome>>
      /\ plain' = [plain EXCEPT ![n] = v] /\ files' = plain'
  BY <1>1 DEF Edit, jobVars
<1>3. Ours(manifest)' = {}
  BY <1>1, <1>2, NoneHeld DEF Ours, Present
<1>4. KeysAreMade' /\ OneEach' /\ ObjectsTrue' /\ PlainTrue' /\ Somewhere'
  BY <1>2, <1>3 DEF KeysAreMade, OneEach, ObjectsTrue, PlainTrue, Somewhere, Present
<1>5. Work'
  BY <1>1, <1>2 DEF Work, AllPlain, StepsOfJobs, Creating, Removing, CreatedStays
<1>6. UsedAlone'
  BY <1>1, <1>2 DEF UsedAlone
<1> QED
  BY <1>4, <1>5, <1>6 DEF Disk

\* A save ends: the vault has one object more.
LEMMA PutKeeps ==
  ASSUME IInv, NEW i \in Ids, EndPut(i)
  PROVE  Disk' /\ Work' /\ UsedAlone'
<1> USE DEF IInv
<1> DEFINE n == op.name
<1>1. /\ job = "none" /\ manifest # 0 /\ manifest = made /\ i \notin Present
      /\ n \in Names /\ op.val \in Vals /\ plain[n] = None /\ ~Held(n)
  BY DEF EndPut, UsedAlone, KeysAreMade
<1>2. /\ objs' = [objs EXCEPT ![i] = [name |-> n, val |-> op.val, key |-> manifest]]
      /\ files' = [files EXCEPT ![n] = op.val]
      /\ op' = NoOp /\ UNCHANGED <<plain, manifest, made, job, step, outcome>>
  BY <1>1 DEF EndPut, jobVars
<1>3. objs'[i] = [name |-> n, val |-> op.val, key |-> manifest] /\ \A k \in Ids \ {i} : objs'[k] = objs[k]
  BY <1>2 DEF TypeOK
<1>4. \A m \in Names : files'[m] = IF m = n THEN op.val ELSE files[m]
  BY <1>1, <1>2 DEF TypeOK
<1>5. Present' = Present \cup {i} /\ Ours(manifest)' = Ours(manifest) \cup {i}
  BY <1>1, <1>2, <1>3 DEF Present, Ours, NoObj
<1>6. \A m : Held(m)' <=> Held(m) \/ m = n
  BY <1>1, <1>3, <1>5 DEF Held, Ours, Present
<1>7. \A k \in Ours(manifest) : objs[k].name # n /\ objs'[k] = objs[k] /\ objs[k].name \in Names
  BY <1>1, <1>3, ObjectType DEF Held, Ours, Present
<1>8. KeysAreMade'
  BY <1>1, <1>2, <1>3, <1>5 DEF KeysAreMade, TypeOK, Present
<1>9. OneEach' /\ ObjectsTrue'
  BY <1>1, <1>2, <1>3, <1>4, <1>5, <1>7 DEF OneEach, ObjectsTrue
<1>10. PlainTrue' /\ Somewhere'
  BY <1>1, <1>2, <1>4, <1>6 DEF PlainTrue, Somewhere
<1>11. Work'
  <2>1. AllPlain' /\ StepsOfJobs' /\ Creating' /\ Removing'
    BY <1>1, <1>2 DEF AllPlain, StepsOfJobs, Creating, Removing, TypeOK
  <2>2. CreatedStays'
    BY <1>1, <1>2, <1>4, <1>6 DEF CreatedStays
  <2> QED
    BY <2>1, <2>2 DEF Work
<1>12. UsedAlone'
  BY <1>2 DEF UsedAlone, NoOp
<1> QED
  BY <1>8, <1>9, <1>10, <1>11, <1>12 DEF Disk

\* A delete ends: the only object of its name is gone, and had no plaintext.
LEMMA DeleteKeeps ==
  ASSUME IInv, EndDelete
  PROVE  Disk' /\ Work' /\ UsedAlone'
<1> USE DEF IInv
<1> DEFINE i == op.id  n == op.name
<1>1. /\ job = "none" /\ manifest # 0
      /\ i \in Ours(manifest) /\ plain[n] = None /\ n = objs[i].name /\ i \in Present
  BY DEF EndDelete, UsedAlone, Ours
<1>2. i \in Ids /\ n \in Names
  BY <1>1, ObjectType
<1>3. /\ objs' = [objs EXCEPT ![i] = NoObj]
      /\ files' = [files EXCEPT ![n] = None]
      /\ op' = NoOp /\ UNCHANGED <<plain, manifest, made, job, step, outcome>>
  BY <1>1 DEF EndDelete, jobVars
<1>4. \A k \in Ids : objs'[k] = IF k = i THEN NoObj ELSE objs[k]
  BY <1>2, <1>3 DEF TypeOK
<1>5. \A m \in Names : files'[m] = IF m = n THEN None ELSE files[m]
  BY <1>2, <1>3 DEF TypeOK
<1>6. Present' = Present \ {i} /\ Ours(manifest)' = Ours(manifest) \ {i}
  BY <1>2, <1>3, <1>4 DEF Present, Ours
<1>7. \A k \in Ours(manifest)' : objs'[k] = objs[k] /\ objs[k].name # n /\ objs[k].name \in Names
  <2>1. ASSUME NEW k \in Ours(manifest)' PROVE objs'[k] = objs[k] /\ objs[k].name # n /\ objs[k].name \in Names
    <3>1. k \in Ours(manifest) /\ k # i /\ k \in Present /\ k \in Ids
      BY <1>6, <2>1 DEF Ours, Present
    <3> QED
      BY <1>1, <1>4, <3>1, ObjectType DEF OneEach
  <2> QED
    BY <2>1
<1>8. \A m : m # n => (Held(m)' <=> Held(m))
  <2>1. ASSUME NEW m, m # n, NEW k \in Ours(manifest), objs[k].name = m PROVE k \in Ours(manifest)' /\ objs'[k].name = m
    BY <1>1, <1>6, <1>7, <2>1
  <2> QED
    BY <1>6, <1>7, <2>1 DEF Held
<1>9. KeysAreMade'
  BY <1>3, <1>4, <1>6 DEF KeysAreMade, Present
<1>10. OneEach' /\ ObjectsTrue'
  BY <1>3, <1>5, <1>6, <1>7 DEF OneEach, ObjectsTrue
<1>11. PlainTrue' /\ Somewhere'
  BY <1>1, <1>3, <1>5, <1>8 DEF PlainTrue, Somewhere
<1>12. Work'
  <2>1. AllPlain' /\ StepsOfJobs' /\ Creating' /\ Removing'
    BY <1>1, <1>3 DEF AllPlain, StepsOfJobs, Creating, Removing, TypeOK
  <2>2. CreatedStays'
    BY <1>1, <1>3, <1>5, <1>8 DEF CreatedStays
  <2> QED
    BY <2>1, <2>2 DEF Work
<1>13. UsedAlone'
  BY <1>3 DEF UsedAlone, NoOp
<1> QED
  BY <1>9, <1>10, <1>11, <1>12, <1>13 DEF Disk

\* A rename ends: the object has another name, which was free.
LEMMA RenameKeeps ==
  ASSUME IInv, EndRename
  PROVE  Disk' /\ Work' /\ UsedAlone'
<1> USE DEF IInv
<1>0. PICK i, n, o : i = op.id /\ n = op.name /\ o = objs[op.id].name
  OBVIOUS
<1>1. /\ job = "none" /\ manifest # 0 /\ manifest = made
      /\ i \in Ours(manifest) /\ i \in Present /\ plain[o] = None
      /\ n \in Names /\ op.val \in Vals /\ op.val = objs[i].val /\ plain[n] = None /\ ~Held(n)
  BY <1>0 DEF EndRename, UsedAlone, Ours, KeysAreMade
<1>2. i \in Ids /\ o \in Names /\ o # n
  BY <1>1, <1>0, ObjectType DEF Held
<1>3. /\ objs' = [objs EXCEPT ![i] = [name |-> n, val |-> op.val, key |-> manifest]]
      /\ op' = NoOp /\ UNCHANGED <<plain, manifest, made, job, step, outcome>>
  BY <1>1, <1>0 DEF EndRename, jobVars
<1>4. \A k \in Ids : objs'[k] = IF k = i THEN [name |-> n, val |-> op.val, key |-> manifest] ELSE objs[k]
  BY <1>2, <1>3 DEF TypeOK
<1>5. \A m \in Names : files'[m] = IF m = n THEN op.val ELSE IF m = o THEN None ELSE files[m]
  BY <1>0 DEF EndRename
<1>6. Present' = Present /\ Ours(manifest)' = Ours(manifest)
  BY <1>1, <1>2, <1>3, <1>4 DEF Present, Ours, NoObj
<1>7. \A k \in Ours(manifest) \ {i} : objs'[k] = objs[k] /\ objs[k].name \notin {n, o} /\ objs[k].name \in Names
  <2>1. ASSUME NEW k \in Ours(manifest) \ {i}
        PROVE objs'[k] = objs[k] /\ objs[k].name \notin {n, o} /\ objs[k].name \in Names
    <3>1. k \in Present /\ k \in Ids
      BY <2>1 DEF Ours, Present
    <3>2. objs[k].name # n /\ objs[k].name # o
      BY <1>1, <1>0, <2>1 DEF OneEach, Held
    <3> QED
      BY <1>4, <2>1, <3>1, <3>2, ObjectType
  <2> QED
    BY <2>1
<1>8. objs'[i].name = n /\ objs'[i].val = op.val /\ objs'[i].key = manifest
  BY <1>2, <1>4
<1>9. Held(n)' /\ \A m : m \notin {n, o} => (Held(m)' <=> Held(m))
  BY <1>1, <1>0, <1>6, <1>7, <1>8 DEF Held
<1>10. KeysAreMade'
  BY <1>1, <1>2, <1>3, <1>4, <1>6, <1>8 DEF KeysAreMade, Present, TypeOK
<1>11. OneEach' /\ ObjectsTrue'
  BY <1>1, <1>3, <1>5, <1>6, <1>7, <1>8 DEF OneEach, ObjectsTrue
<1>12. PlainTrue' /\ Somewhere'
  <2>1. PlainTrue'
    BY <1>1, <1>2, <1>3, <1>5 DEF PlainTrue
  <2>2. ASSUME NEW m \in Names, files'[m] # None PROVE (plain[m] # None \/ Held(m))'
    BY <1>1, <1>2, <1>3, <1>5, <1>9, <2>2 DEF Somewhere
  <2> QED
    BY <2>1, <2>2 DEF Somewhere
<1>13. Work'
  <2>1. AllPlain' /\ StepsOfJobs' /\ Creating' /\ Removing'
    BY <1>1, <1>3 DEF AllPlain, StepsOfJobs, Creating, Removing, TypeOK
  <2>2. CreatedStays'
    BY <1>1, <1>2, <1>3, <1>5, <1>9 DEF CreatedStays
  <2> QED
    BY <2>1, <2>2 DEF Work
<1>14. UsedAlone'
  BY <1>3 DEF UsedAlone, NoOp
<1> QED
  BY <1>10, <1>11, <1>12, <1>13, <1>14 DEF Disk

-----------------------------------------------------------------------------
(***************************************************************************)
(* The invariant, and what follows from it.                                 *)
(***************************************************************************)

LEMMA StepIInv == ASSUME Habits \subseteq {"direct"}, IInv, [Next]_vars PROVE IInv'
<1>1. TypeOK'
  BY TypeStep
<1>2. CASE Next
  <2>1. Disk' /\ Work' /\ UsedAlone'
    BY <1>2, Starts, Ends, Reads, Begins, ManifestKeeps, CommitKeeps, UnlinkKeeps, RestoreKeeps,
       DropKeeps, EditKeeps, PutKeeps, DeleteKeeps, RenameKeeps DEF Next, JobStep, UseStep
  <2> QED
    BY <1>1, <2>1 DEF IInv, Disk, Work
<1>3. CASE UNCHANGED vars
  <2>1. UNCHANGED <<diskVars, jobVars, op, outcome, made, files>>
    BY <1>3 DEF vars, histVars, jobVars
  <2>2. Disk' /\ Ours(manifest)' = Ours(manifest) /\ \A n : Held(n)' <=> Held(n)
    BY <2>1, DiskStays DEF Disk
  <2>3. Work' /\ UsedAlone'
    BY <2>1, <2>2 DEF IInv, Work, AllPlain, StepsOfJobs, Creating, Removing, CreatedStays, UsedAlone,
       diskVars, jobVars
  <2> QED
    BY <1>1, <2>2, <2>3 DEF IInv, Disk, Work
<1> QED
  BY <1>2, <1>3

\* What a name reads as: its plaintext, or its one object.
LEMMA ReadsTrue == IInv => ContentsKept
<1> SUFFICES ASSUME IInv, NEW n \in Names PROVE Readable(n) = files[n]
  BY DEF ContentsKept
<1> USE DEF IInv
<1>1. CASE plain[n] # None
  BY <1>1 DEF Readable, PlainTrue
<1>2. CASE plain[n] = None /\ Held(n)
  <2>1. PICK i \in Matches(manifest, n) : Min(Matches(manifest, n)) = i
    BY <1>2, HeldMatches, FirstIsIt
  <2>2. objs[i].val = files[n]
    BY <2>1 DEF Matches, ObjectsTrue
  <2> QED
    BY <1>2, <2>1, <2>2 DEF Readable, InVault
<1>3. CASE plain[n] = None /\ ~Held(n)
  BY <1>3, HeldMatches DEF Readable, InVault, Somewhere
<1> QED
  BY <1>1, <1>2, <1>3

LEMMA AtMostOne == IInv => NoTwins
<1> SUFFICES ASSUME IInv, NEW n \in Names PROVE Cardinality(Matches(manifest, n)) <= 1
  BY DEF NoTwins
<1>1. CASE Matches(manifest, n) = {}
  BY <1>1, FS_EmptySet
<1>2. ASSUME NEW i \in Matches(manifest, n) PROVE Cardinality(Matches(manifest, n)) <= 1
  <2>1. Matches(manifest, n) = {i}
    BY <1>2 DEF IInv, OneEach, Matches
  <2> QED
    BY <2>1, FS_Singleton
<1> QED
  BY <1>1, <1>2

\* The invariant of the specification.
THEOREM Inductive == ASSUME Habits \subseteq {"direct"} PROVE Spec => []IInv
BY InitIInv, StepIInv, PTL DEF Spec

\* TypeOK, for every folder and bound (create.go, remove.go, objects.go).
THEOREM TypeCorrect == ASSUME Habits \subseteq {"direct"} PROVE Spec => []TypeOK
<1>1. IInv => TypeOK
  BY DEF IInv
<1> QED
  BY <1>1, Inductive, PTL

\* Locking, unlocking and using a vault keep every file, whatever is cancelled,
\* fails or dies between any two steps (create.go, remove.go).
THEOREM NothingIsLost == ASSUME Habits \subseteq {"direct"} PROVE Spec => []ContentsKept
BY ReadsTrue, Inductive, PTL

\* A resumed create makes no second object of a name (CreateFolderVault).
THEOREM ResumeMakesNoTwins == ASSUME Habits \subseteq {"direct"} PROVE Spec => []NoTwins
BY AtMostOne, Inductive, PTL

\* A create that reports success has every file in the vault
\* (CreateFolderVault).
THEOREM SuccessIsComplete == ASSUME Habits \subseteq {"direct"} PROVE Spec => []CreatedIsComplete
<1>1. IInv => CreatedIsComplete
  BY HeldMatches DEF IInv, CreatedStays, CreatedIsComplete
<1> QED
  BY <1>1, Inductive, PTL
=============================================================================
