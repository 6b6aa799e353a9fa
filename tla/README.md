# Double Pane in TLA+

Double Pane is a dual-pane file manager: a Go backend (Wails services over a local
file system, SSH/SFTP, SMB and MEGA) and a React frontend. This directory holds TLA+
models of its core, the TLC configurations that check them, and theorems about them
with proofs for TLAPS. `PROJECT.json` is the machine-readable index: components,
runs, the source lines behind every definition, hazards, findings and theorems.

Paths below are relative to `src/`; `vault/` is `internal/vault/`, `service/` is
`internal/service/`, `filesystem/` is `internal/filesystem/`.

    tlc -workers 2 -config copy_batch.cfg MCCopyEngine   # one run
    tlapm VaultSessionProofs.tla                          # one module's proofs

## 1. Inventory

What runs concurrently: every call from the UI is a goroutine of its own; the
engines start workers; events go to the frontend on a channel that is not ordered
against the answers of the calls; the frontend's handlers and timeouts run one at a
time.

| Component | State | Operations | Hard part | Correct when |
|---|---|---|---|---|
| **Copier** (`filesystem/copy_conc.go`) | jobs channel, workers, first error, done roots | place/walk/enqueue, worker loop, fail, finish | placer and workers blocked on each other; one context for "cancelled" and "failed" | it ends; nothing is written after it reported |
| **Copy engine** (`CopyCtx`) | created, succeeded, cancelled targets, rows | loop over sources, deferred cleanup | cancel of one source while its files are queued; cleanup against running workers | a failure leaves nothing, success left everything |
| **Move engine** (`MoveCtx`, `filesystem/progress.go`) | what was renamed, what must be copied | rename, copy, delete, per source | cancel or error between copy and delete | each source is in one place, whole |
| **Transfer jobs** (`service/file_service.go`, `file_service_volumes.go`, `file_service_paste.go`; `frontend/src/features/transfers`) | job registry, gate channel, event stream, transfer bar | NewJobID, the four entry points, CancelJob, FinishJob, event and answer handlers | cancel against queueing, against the call's start; events after the answer | slots and handles neither leak nor are shared; rows disappear |
| **Vault sessions** (`vault/session.go`, `manifest.go`, `objects.go`) | session per root: key, inFlight, pendingLock; idle clock | Unlock, Lock, LockAll, AutoLockOutsidePaths, AdjustIdle, beginJob, endJob | a lock while the key is used, between two critical sections | the key outlives every use, and not by much |
| **Vault store** (`vault/create.go`, `remove.go`, `objio.go`, `objects.go`) | manifest, object files, plaintext files | create, remove (in place), put, delete, rename | crash, cancel or failure after any step, then a retry | every file stays readable, once |
| Vault object format (`vault/stream.go`, crypto) | headers, chunks | seal, open | byte layout | an object reads as it was written |
| Vault transfers (`service/file_service_vault_transfer.go`) | none of its own | copy in, out, within; save a text file | partial copies; a vault locked on the way | as the vault store, plus the copy engine's cleanup |
| **Trash** (`filesystem/trash*.go`, `trash_xdg.go`) | things put away, a note of each one's origin | put, list, restore, undo by origins, remove, empty | crash or failure between rename and note; names that are free again; two calls at once | nothing is lost, nothing comes back elsewhere |
| Remote connections (`internal/remote/ssh.go`, `shell.go`) | clients, host keys | dial, reuse, prompt, close | two dials of one host; a prompt nobody answers | one client per connection, none after close |
| Remote transfers (`internal/remote/transfer.go`, `xfer_pool.go`) | pool of file copies | download, upload, copy within | which error is told; cleanup | as the copy engine |
| Connection service (`service/connection_service.go`) | profiles, secrets | save, delete, connect | two stores, load-modify-save | profile and secret agree |
| **Terminal** (`service/terminal*.go`, `frontend/src/widgets/terminal`) | a shell per pane, the view | Start, SetCwd, Stop, write, resize; show and hide | Stop served while Start spawns; exit of a shell already replaced | a live shell is the one the next Stop of its pane ends, or about to be placed or closed |
| Duplicate scan, search (`service/file_service_dup.go`, `filesystem/search.go`) | running job and its results | start, cancel, events | cancel before start; late results | results belong to the running job |
| Settings (`internal/storage`) | SQLite tables | load, save, migrate | lost updates; crash in migration | no saved tab is lost |
| Progress reporter (`filesystem/progress.go`) | bytes, rows, throttle | add, done, status | stale events | a done row says done |
| Archives, volumes, disk images, previews, OCR, git, ports, updates | little or none | wrap tools and libraries | - | - |

The frontend (`frontend/src/`), where every handler is synchronous and every answer
comes whenever it comes:

| Component | State | Operations | Hard part | Correct when |
|---|---|---|---|---|
| **Panes and tabs** (`features/pane`, `widgets/file-pane`) | tabs with history, selection, cursor, active pane | navigation by a dozen ways, selection, tab strip, swap, drops | answers for a folder already left; indices at the ends | what would be acted on is in the folder shown |
| **File commands and dialogs** (`widgets/toolbar`, `FileContextMenu.tsx`) | a dialog, a request, the undo offer | copy, move, delete, rename, create, archive, paste, drop | the panes move while a dialog is open | the command acts on what its dialog listed |
| **Rows and columns** (`widgets/file-pane`, `features/ui`) | sort, column order, type-ahead, rows of a transfer | sort, hide, reorder, type, patch | saved orders of older versions; typing past the end | every column once, every row reachable |
| **Path bar** (`PathBar.tsx`) | links or a field with suggestions | edit, pick, leave | the path changes while it is edited | the field shows the path unless edited |
| **Folder sizes and pane jobs** (`features/folder-size`, `features/jobs`) | generation, sizes, the job shown | calculate, cancel, enter, swap | an answer for a pane that was swapped | sizes are of the folder shown |
| **Keyboard, palette, shortcuts** (`useFileManagerKeyboard`, `widgets/command-palette`) | focus, dialogs, bindings | press, record, save | one key, three handlers, bindings of the user's own | a field keeps its keys |
| **Connections** (`features/connections`, `useConnections.ts`) | dialog, request for a password, panes that connect | dial, log in, save, forget | two answers of two hosts in either order | nobody waits for what cannot come |
| **Duplicate finder** (`features/duplicates`) | phase, setup, estimate, groups, what is ticked | estimate, scan, choose, merge, undo | events of a scan given up | groups are of the scan shown |
| **Disk usage map** (`features/disk-treemap`) | crumbs, cache, generation | scan, zoom, back, close | id and result of a scan already left | no scan runs unseen |
| **Find in files** (`widgets/search`) | fields, delay, results, job | search, stop, replace | end of the last search after the next begins | the list stops searching |
| **Editor** (`features/editor`, `widgets/editor`) | text, dirty, question | open, type, save, close | read and save answered late | a text stays in its file |
| **Vault and image prompts** (`features/vault`, `features/dmg`) | prompt, what is typed, job of a pane | lock, unlock, remove, attach | a prompt left and another opened meanwhile | a password goes where it was typed for |
| Settings, tabs, themes, generated bindings | cached records | whole-record saves | two saves in flight | the last change of each field stays |

Interactions. The frontend calls a service method and gets an answer; the method
takes a context from the job registry, queues at the gate, and calls an engine. The
engines ask the context and `FileCancelRegistry` whether they are cancelled and
report rows through the progress reporter, whose events reach the transfer bar. The
vault service asks the session map for the root of a path before it decides which
engine runs, and the store asks it again for the key. In the frontend a command
takes its paths from the pane store, its dialog keeps them, and the answer refreshes
the panes; the windows over the panes each hold a job of the backend whose id,
events and end come in any order.

## 2. Modules

| Module | Models | Composition |
|---|---|---|
| `Copier` | worker pool, placing, cancellation, `UniquePath`, the destination | no specification of its own; extended by the two engines |
| `CopyEngine` | `CopyCtx` | extends `Copier` |
| `MoveEngine` | `MoveCtx` | extends `Copier` |
| `CopierProofs` | lemmas about the pool that both engines' proofs use | extends `Copier` |
| `CopyEngineProofs`, `MoveEngineProofs` | theorems | extend their engine and `CopierProofs` |
| `SlotPool` | what the gate promises (abstract) | - |
| `TransferJobs` | registry, gate, four entry points, events, transfer bar | implements `SlotPool` (`GateSpec`) |
| `VaultSession` | sessions, operations under a key, everything that locks | - |
| `VaultSessionProofs` | theorems | extends `VaultSession` |
| `VaultFolder` | a folder, its vault, create and remove, use in between | - |
| `VaultFolderProofs` | theorems | extends `VaultFolder` |
| `Trash` | the trash of a volume | in `Tools` |
| `Panes` | pane store and everything that drives it | - |
| `PanesProofs` | theorems | extends `Panes` |
| `FileOps` | commands, their dialogs, calls and undo | in `Desk`; the panes below it are any step of theirs |
| `PaneRows`, `PathField`, `PaneJobs`, `Keys` | table, path bar, folder sizes, keyboard | in `Desk` |
| `Connections` | connection dialog, menu, dialling panes | - |
| `Duplicates`, `Treemap`, `Search`, `Editor`, `Passwords` | the windows over the panes | in `Tools` |
| `Terminal` | terminal view and service | in `Tools` |
| `Desk` | the parts of a pane's window, one of them at a time | INSTANCE of each |
| `Tools` | the windows over the panes, the terminal and the trash, one at a time | INSTANCE of each |
| `ToolsProofs` | theorems | extends `TransferJobs` and `Tools` |
| `DeskProofs` | theorems | extends `Connections` and `Desk` |
| `MC*` | values of the constants for TLC | extend the module of that name |

Conventions. A definition keeps the name of what it models where it can. An action
is one step no other goroutine can see the middle of: a critical section, a channel
operation, a system call, or the local code between two of those. A definition whose
comment begins with "Fault:" is not part of the specification: it is an action as a
plausible bug would have it (a cleanup that runs early, a release that is
forgotten), and replaces the correct one to show that a property notices. Every
checked property notices at least one, and of a property that is a conjunction every
conjunct fails under some "Fault:" definition of its module.

### Copier, CopyEngine, MoveEngine

`pc`, `cur`, `next`, `ret` are the frame of the calling goroutine (where it is, the
source it is at, the next file below it, what `place` returns). `queue` and `closed`
are the jobs channel, of capacity `2 * Cardinality(Workers)` as in `newCopier`;
`worker[w]` is one worker's frame; `poolErr`/`poolDone` the first error and the
pool's context; `srcDone` the cancelled source contexts; `registry`
`FileCancelRegistry`; `roots` and `written` are the destination: the names in it
and, of each file below a target, whether it is there whole or partly. A source is a
sequence of leaves (files and symlinks) and is a directory when in `Dirs`.
`UniquePath` asks the disk only, as the code does. The code tries suffixes without
end; the model looks at those up to `MaxSuffix`, among which a free one is proved to
be.

The kernel's ways to copy (`clonefile`, `FICLONE`, `copy_file_range`, the user-space
ping-pong) are one write that leaves the file absent, partial or whole; a
whole-directory `clonefile` is `CloneRoot`. Any operation of the file system may
fail, and the variable `faults` remembers it, so that "only a real cause fails a
batch" can be said.

MoveEngine adds `origin`, what is left of each source, and `toCopy`, the sources
whose rename failed. `Delete` may stop halfway through a directory. After that
`MoveCtx` removes the finished copy, so `NothingLost` and `NoHalfMove` leave out a
source in that state: what was deleted is gone, and no text of the repository
promises otherwise.

### TransferJobs

`pc[j]` follows one call through `runTransfer`, `AttachDiskImage`, `pasteRemote` or
`ExtractBatch` (`Kind[j]`), with its deferred calls in the order they run. `handles`
is `FileService.jobs`; `holds[j]` is the context the call read, which is the
background context when the handle was gone; `gate` counts the channel's tokens.
`wire` is the ordered event stream; `replies` and `cancels` are answers and
CancelJob calls in flight, unordered against it. `rows`, `removed` and `timers` are
the frontend's store and its timeouts. A remote paste has no row of its own until an
event puts it up. What the engine does in between is one step with any outcome.

### VaultSession

`sessions[r]` is the session of a vault in the map, numbered as it was made;
`inFlight`, `pendingLock` and `wiped` are its fields; `doomed` are sessions out of
the map whose key is about to be wiped. An operation passes `Submit` (it is asked
for, and waits for the gate), `Route` (the service asks `RootFor`), `BeginJob`,
`ExpandKey` and `ReadVaultID` (it makes its cipher), `Use`, `EndJob` and, when a
lock waits, `Relock`. `todo[a]` are the `lockRoot` calls a locker has still to make
of a list it took earlier. `StaleRows` says whether Unlock may be asked for a vault
that is unlocked already (a row of the listing that is out of date).

### VaultFolder

`plain` and `objs` are the folder: plaintext by name, and objects by the position
the directory lists them at, each with a name, a content and the vault whose key it
is sealed with. `manifest` is the vault whose manifest is there. `job`, `step`,
`walked`, `listed`, `cur`, `staged` are a create or remove job; `op` a put, delete
or rename under way; `files` the history of what the user last stored. A job can be
cancelled or fail (`StopJob`) or die with the process (`Crash`) at any step.
`Habits` says what else happens: `"direct"` calls `CreateFolderVault` on a
half-converted folder as its tests do (`StartCreateVault` refuses those),
`"overwrite"` saves under names that exist, `"alongside"` uses a vault while its
password is being removed.

### Trash

`disk` is what is at the places, `files` and `info` the trash's two directories by
name (`base`, `base.2`, ...: all places share one last element, since names of
different ones never meet). A call's frame holds the step it is at and the items it
has still to do; the listing a restore works from is read once, at its start, as
`List` is. A content may be there in part: a copy across disks under way or failed,
a removal cut off. `PutFails`, `RestoreFails`, `RemoveFails`, `EmptyFails` do the
cleanup the code does at that step and no more; `Crash` does none. `Overlap` says
whether two calls, or the user, may come between two steps.

### Panes, FileOps and the window's parts

`Panes` keeps a record per tab (path, back, forward), and per pane the selection,
anchor and cursor; every handler that moves a pane is an action, and what waits for
an answer (`Exists` of a typed path, a transfer of a drop) sits in `calls` with the
values the handler closed over. `FileOps` opens a dialog with the paths of that
moment (`del`, `menu`, `typed`) while `Elsewhere`, any step of the panes, changes
`here` and `targets` under it. `PaneRows` computes rows and columns with the
comparisons of the code over a five-row listing; `PathField` has one action per
gesture on the bar; `PaneJobs` numbers calculations and answers them to the side
that asked; `Keys` passes a key from cell to grid to window as the event bubbles,
with the guards of each handler.

### Connections

One dialog in its modes, the request of a pane for a password, the panes that are
connecting, and `dials`: all calls under way, answered in any order, each with what
its closure remembers. `covered` is the editor over the panes, which unmounts the
menu (`FileManagerPage.tsx:103`): the dialog is lost, the request stays in its store,
a login refused meanwhile stores one without a dialog (`AskPassword`, `Prompt`), and
the menu that mounts when the editor closes opens a dialog for the request it finds
(`CloseEditor`). `heard` says of a call that the menu which made it is still there;
an answer that nobody hears still adds its session, moves its pane and drops or
stores a request. The submit that answers a request ends with the navigation it
starts (`PendingConnected`, then `Listed`, `Dialed`, `DialFails` or `AskPassword`),
and only then clears `busy`, of whatever dialog there is by then. Bounded are the
calls at a time, and of two equal calls the second waits for the answer of the first
(`Send`, `GoesOn`, `OpenEditor`).

### Duplicates, Treemap, Search, Editor, Passwords, Terminal

Each has the store of its window, the calls in flight (with the generation, job or
visit the closure remembers), and the backend's side as far as the window sees it:
which jobs run, and a queue, or a bag, of the events on their way. A view that is
unmounted and shown again starts from its initial state while its calls go on, as in
React. `Terminal` is both sides: a call is served in steps (`Start`, `Spawned`,
`Started`) because the code spawns the shell outside the mutex; `startSeq` and
`session` are the service's fields; `loops` are the goroutines that read each shell.

## 3. Runs

### Runs that hold

| Run | Instance | Shows |
|---|---|---|
| `copy_batch` | three sources (a directory of a file and a symlink; a file whose name is taken; a file), two workers, symmetric | `FailureLeavesNothing`, `NilMeansWhole`, `RowsAgreeWithDisk`, `OnlyRealCauses` under every interleaving of errors and cancels; the entries that were there before stay (part of `NilMeansWhole`) |
| `copy_full_queue` | one directory of four files, one worker, hence a channel of two | `Terminates`: with more files than channel and worker hold, the placer really blocks on a full channel |
| `move_batch` | three sources, each rename may fail, two workers | `NothingLost`, `NoHalfMove`, `DoneIsMoved`, `Terminates`; the entries that were there before stay (part of `NothingLost`) |
| `jobs` | one job of each kind, any two of them started, one slot, one progress event each | `GateCountsHolders`, `HandlesAreLive`, refinement of `SlotPool`, `EveryJobClears` |
| `vault_locks` | one vault, two operations, two unlocks, one tick of the clock | `CiphersMatch`, `KeyKeptInUse`, `InFlightExact`, `DeferredLockLands`, `KeysGetWiped` |
| `folder_lock` | two names, two contents, three objects, two vaults, two crashes | `ContentsKept`, `NoTwins`, `CreatedIsComplete` |
| `panes` | two panes restored from saved tabs, a tree with a remote folder and the trash, history capped at one, one call in flight, four gestures (306 thousand states) | `TargetsInView`, `HistoryIsKept`, `RemoteEntryHasNoShell` |
| `links` | a host of each protocol, two panes (symmetric), the editor, two calls in flight (7.4 million states, to the end) | `NobodyWaitsForNothing` |
| `desk` | `FileOps`, `PaneRows`, `PathField`, `PaneJobs`, `Keys`, one at a time (405 thousand states) | `DeletesWhatItListed`, `PaneIsWhole`, `KeysStayInFields` |
| `tools` | `Duplicates`, `Treemap`, `Search`, `Editor`, `Passwords`, `Terminal`, `Trash`, one at a time (2.8 million states) | `NothingIsMixedUp`, `WhatRunsIsTracked`, `TrashKeepsWhatItTook` |

Each but `copy_full_queue` also checks a type invariant.

Why the bounds are enough. *Engines*: the hazards are between one source and the
next, and between two workers in one source or in two; three sources put one before
and one after the one that goes wrong, and two workers are the first number that can
disagree. *Jobs*: with one slot two jobs of any kinds compete; a third would queue
like the second, and for any number of jobs and slots the gate is proved.
*Sessions*: a key is wiped too early by one operation's release taking effect on
another's session; two operations and two sessions of one vault are what that takes,
and vaults do not share state except the clock and the lockers' lists. *Folder*: two
names tell "this file" from "the others", the third object is room for one twin, and
with two crashes a retry can itself be cut short. The safety properties of these,
and of panes and links, are also proved, without bounds (section 5). *Panes*: a
gesture opens the hazard (a call leaves), a second and third change what it was
about (another folder, another tab, a swap), the fourth is the answer or the gesture
that misuses it; a cap of one makes every second step of history meet it. *Links*:
two answers of two attempts are what it takes to confuse dialog and request, and the
editor may open and close between any two steps; with the number of steps open,
every history of them is covered. *Desk and tools*: the
parts share no state that a property is about, so each is explored alone (`part` is
chosen in `Init`, the other parts wait at an initial state). Path bar, folder sizes,
map, terminal and trash are explored to the end. The others stop after a number of
steps (`BoundOf`): commands 7, rows 3, keyboard 5, finder 14, search 10, editor 16,
prompts 9 (three calls). Within it every "Fault:" of the part is noticed and every
disagreement below is found, and there are two scans, jobs, files or vaults so that
one can be taken for the other. *Trash*: three things of one name fill two names,
free one and use it again; one fault is a failure or a crash anywhere, also of a
call that meets what an earlier one left.

Without the deadlock check: `jobs`, because when every job has ended and every
answer arrived nothing is left to happen (a handle is used once); `panes`, `desk`
and `tools`, which stop at their bounds; and `links`, where the user may leave
everything as it is. The others have a step that is always possible.

### Runs that do not hold

Each shows one place where the code does something else than a comment, a test or a
specification of the repository says (`findings` quotes both).

| Run | The repository says | The code |
|---|---|---|
| `vault_waiting_copy` | copy into a vault: "Stream encrypt into new object" (`specs/folder-vault/v1.md:168`) | a copy that waits at the gate while the vault is auto-locked lands as plaintext |
| `links_prompt` | "so a later unrelated password prompt can't inherit it" (`useConnections.ts:327`) | a login refused late opens the password dialog over another host's request; what is typed goes to the request's host |

### Disagreements that are not runs

The following are smaller, or known from the same lines. Where a configuration is
named, TLC finds the property violated under it; when several share one, put the
property in the place of the one it lists. The others are violated when added to
`desk.cfg` or `tools.cfg` through a definition of that name in the MC module.

| Configuration | Property | Disagreement |
|---|---|---|
| `copy_twins` (MCCopyEngine) | `SiblingsStillCopy` | two sources of one base name can be given the same target; the cleanup of the cancelled one removes the other's copy (`copy_conc_test.go:96`: "sibling sources still copy") |
| | `CanceledNotPartial` | a source cancelled after `place` returned keeps its partial file and its row says done (`copy_conc.go:300`; `copy_conc_test.go:95`: "its partial dest removed") |
| `move_disagree` (MCMoveEngine) | `CanceledByUser` | a worker's real error cancels the same context; the row says cancelled, and MoveCtx goes on and returns nil (`progress.go:449`: "only this source was cancelled via FileCancelRegistry") |
| | `OnlyRealCauses` | a cancel after `place` returned ends the whole move (`progress.go:461`; `file_service.go:224`: "without cancelling the rest") |
| `jobs_lost_cancel` (MCTransferJobs) | `CancelReaches` | a cancel handled before the call reads its context deletes the handle; the call runs on under the background context (`file_service.go:213`: "cancels a long-running ... started with NewJobID") |
| `vault_disagree` (VaultSession) | `KeyKeptInUse` | a second Unlock replaces a session with operations in flight; their releases are counted on the new one, and a later lock wipes a key in use (`v1.md:177`: "do not yank DEK under an active encrypt") |
| | `ToldIsLocked` | `AutoLockOutsidePaths` returns roots whose lock was only deferred (`session.go:178`; comment at `:158`) |
| | `IdleCountsIO` | vault I/O does not reset the idle clock, only listings do (`objects.go:206`; `session.go:189`, `v1.md:156`) |
| `folder_disagree` (VaultFolder) | `SavedIsRead`, by the habit `"overwrite"` | a save makes a second object of the name; a reader takes whichever is listed first (`v1.md:174`: "re-encrypt and replace object") |
| | `CreatedIsCiphertext`, `"direct"` | a plaintext whose removal failed or was cut off has an object, so the retry skips it: create reports success and it stays in the clear (`create.go:113`; `v1.md:12`) |
| | `RetryAccepted`, no habit | a half-converted folder is refused by `StartCreateVault` (`file_service_vault.go:94`; `v1.md:134`: "User can retry") |
| | `RemoveRestores`, `"alongside"` | what is saved while the password is being removed is dropped with the objects (`remove.go:96`; comment at `:13`) |
| | `RemoveCanGoOn`, no habit | objects left of an earlier vault by a crash inside `RemoveAll` cannot be opened and stop every later removal (`remove.go:71`; `v1.md:181`) |
| `trash_disagree` (Trash) | `NothingTrashedIsLost` | two deletes at once of things of one name get one name in the trash, and the second replaces the first (`trash_xdg.go:53`) |
| | `UndoTakesBackTheDelete` | an undo names origins only; of several things of one origin it restores the one listed last, which is an older one when a name was free again (`trash_xdg.go:127`; `DeleteDialogs.tsx:16`: "Use Undo in the notification") |
| | `StaysRestorable` | a crash between rename and note, or a removal that fails, leaves a thing in the trash that no restore accepts (`trash_xdg.go:68`, `:158`; `DeleteDialogs.tsx:16`: "or open Trash to restore") |
| `panes_parent` (MCPanes) | `TargetsAreNotParent` | the ".." row carries the parent's path, so the filter on the last segment lets it through when it is selected or focused (`toolbar/helpers.ts:31`: "never includes `..`") |
| `dup_keep` (MCTools) | `KeptIsNotDeleted` | a photo may be in a visual and in an OCR group: what one keeps, the other deletes (`specs/duplicate-finder/v1.md:101`) |
| - (PaneJobs) | `ShownJobIsRunning`, `SizesAreOfTheFolder` | sizes that come after the panes were swapped go to the side that asked (`file-pane/hooks.ts:296`; `folderSizeStore.ts:67`: "must follow the directory to the other pane") |
| - (Editor) | `CleanIsSaved` | the answer of a save clears the mark of text typed since, or of another file (`useEditorFile.ts:100`) |
| - (Passwords) | `ImagePasswordsStayTheirs` | a late answer (an image is encrypted, an attach failed) puts its image into the open prompt, which keeps what was typed for another (`DmgPasswordDialog.tsx:45`, `:61`) |
| - (Passwords) | `ShownJobRuns` | the end of a vault job told before its id is answered leaves the job in the pane (`useVaultEvents.ts:28`, `LockDialog.tsx:59`) |
| `tools` with `MaxFaults = 2` (MCTools) | `TrashKeepsWhatItTook` | a note left by one crash is found again under a name that a second crash gives another file: the restore brings that file to a place it never was at (`trash_xdg.go:53`, `:68`; with one fault it holds and is proved) |
| - (Terminal) | `ShellFollows`, `HiddenHasNone` | a folder changed, or a Stop served, before Start was leaves a shell in the old folder or under a hidden terminal (`useXterm.ts:165`; `terminal_service.go:179`) |

Four more are told by the models without a property: a focused cell keeps Ctrl+→,
which the window is said to handle "so DataGrid does not steal the keys"
(`file-pane/hooks.ts:745`, `useFileManagerKeyboard.ts:142`); it keeps ArrowLeft as
well, in spite of "let window handler do history back" (`hooks.ts:755`); a
search result opened in the editor replaces unsaved text without the question
`EditorWorkspace.tsx:166` asks (`SearchDialog.tsx:146`); and the password of a
request is submitted until its pane has got there (`useConnections.ts:370`, `:496`),
so that another dialog, opened and submitted meanwhile, is given back with its call
still out, and can be closed or sent again.

## 4. Fairness

Only `Terminates`, `EveryJobClears`, `DeferredLockLands` and `KeysGetWiped` use it.
It is weak fairness everywhere, of

- each goroutine (caller, worker, call, operation, locker): Go's scheduler is
  preemptive, so one that stays runnable runs, and every system call returns, with an error
  if need be. A goroutine blocked on a channel, a mutex or the gate is
  not runnable, and the model's guard says so. A job waiting at the gate needs
  no strong fairness in these instances: with two jobs and one slot, the slot
  once free stays free until the other job takes it; Go's channels queue their
  senders, so more jobs are served in order too;
- answers, events and timeouts: the IPC between the frontend and the backend of one process delivers,
  and a set timeout fires.

No user action is fair: nobody has to start, cancel, lock or unlock, and nobody has
to let the clock run.

## 5. Theorems

TLC shows a property of an instance; these hold for every value of the constants
that satisfies the named assumption of the module. "From" names what else the
theorem assumes.

| Module | Theorem | States | From |
|---|---|---|---|
| `ToolsProofs`, on `TransferJobs` | `TypeCorrect` | `TypeOK` | - |
| | `GateCorrect` | `GateCountsHolders` | - |
| | `RegistryStaysClean` | `HandlesAreLive` | - |
| | `GateImplements` | `GateSpec` (refinement of `SlotPool`) | - |
| `ToolsProofs`, on `Tools` | `ToolsTypesCorrect` | `ToolsTypeOK` | - |
| | `NothingMixed` | `NothingIsMixedUp` | - |
| | `RunsAreTracked` | `WhatRunsIsTracked` | - |
| | `TrashLosesNothing` | `NothingTrashedIsLost` (part of `TrashKeepsWhatItTook`) | - |
| | `TrashKept` | `TrashKeepsWhatItTook` | `MaxFaults <= 1` |
| `CopyEngineProofs` | `TypeCorrect` | `TypeOK` | - |
| | `FailureCleansUp` | `FailureLeavesNothing` | - |
| | `RowsTellTheTruth` | `RowsAgreeWithDisk` | - |
| | `ErrorsHaveCauses` | `OnlyRealCauses` | - |
| | `NilIsWhole` | `NilMeansWhole` | `DistinctBases` |
| `MoveEngineProofs` | `TypeCorrect` | `TypeOK` | - |
| | `OthersStay` | `OthersUntouched` (part of `NothingLost`) | - |
| | `NothingIsLost` | `NothingLost` | `DistinctBases` |
| | `NoneIsHalfMoved` | `NoHalfMove` | `DistinctBases` |
| | `RowsTellWhatMoved` | `DoneIsMoved` | `DistinctBases` |
| `VaultSessionProofs` | `TypeCorrect` | `TypeOK` | - |
| | `KeyIsKept` | `KeyKeptInUse` | `~StaleRows` |
| | `CiphersAreRight` | `CiphersMatch` | `~StaleRows` |
| | `InFlightIsExact` | `InFlightExact` | `~StaleRows` |
| `VaultFolderProofs` | `TypeCorrect` | `TypeOK` | `Habits \subseteq {"direct"}` |
| | `NothingIsLost` | `ContentsKept` | same |
| | `ResumeMakesNoTwins` | `NoTwins` | same |
| | `SuccessIsComplete` | `CreatedIsComplete` | same |
| `PanesProofs` | `TypeCorrect` | `TypeOK` | - |
| | `TargetsAreInView` | `TargetsInView` | - |
| | `HistoryKept` | `HistoryIsKept` (action property) | - |
| | `NoShellFollows` | `RemoteEntryHasNoShell` (action property) | - |
| `DeskProofs`, on `Connections` | `TypeCorrect` | `TypeOK` | - |
| | `NobodyWaits` | `NobodyWaitsForNothing` | - |
| `DeskProofs`, on `Desk` | `DeletesListedOnly` | `DeletesWhatItListed` (action property) | - |
| | `KeysStay` | `KeysStayInFields` (action property) | - |
| | `DraftIsGivenUp` | `DraftIsGivenUp` (part of `PaneIsWhole`) | - |

What a theorem assumes is exactly the condition of a disagreement of section 3: with
`StaleRows` the configuration `vault_disagree` violates `KeyKeptInUse`; with
`"overwrite"` and `"alongside"` `folder_disagree` shows what breaks; and with two
sources of one base name (`DistinctBases` says there are none) `copy_twins` shows
the second given the first one's target, so that neither engine can promise that
each is whole. That a failure leaves nothing, that rows agree with the disk and that
nothing older is touched holds with such twins too. `Panes` assumes, besides the
types of its constants, that every restored tab has an id of its own
(`BootAssumption`: `newTabId`, `paneStore.ts:18`). `Tools` assumes that resolving a
path twice gives what resolving it once gives (`TreemapAssumption`:
`filesystem.Resolve` in `file_service_tree.go:37`), that a group of duplicates has
a file and a percentage is a number (`DuplicatesAssumption`), that a search text may
be empty and the settings hold one (`SearchAssumption`), and that the bounds are
numbers. Its instance of `Trash` lets no two calls overlap:
with `Overlap` `trash_disagree` violates `NothingTrashedIsLost`; and with two faults
`TrashKeepsWhatItTook` fails.

*Pool.* `CopierInv`, which both engines keep, says whose everything is: each name
given was free and is one of its source's base (`NamesFresh`), what the destination
holds beyond what was there lies below a name that was given (`DiskIsOurs`), each
job, queued or in hand, goes below the name of its source (`JobsSound`), and a
worker leaves a closed and drained channel only (`ExitsDrained`). That `UniquePath`
finds a free name (`FreeName`) is a matter of counting: the names on disk are those
that were there and at most one for each source, which is fewer than the suffixes
looked at.

*Copy engine.* `FailureLeavesNothing` holds in the last state only; what makes it so
is that the cleanup starts with the pool drained, removes what was `created`, and
nothing else is `DiskIsOurs` (`LoopSound`, `Cleaned`). `Causes` traces an error
through whoever hands it on: a worker that failed, the pool's first error, the
placer's, the batch's. For `NilMeansWhole` a leaf that the caller has passed must
not get lost: it is whole on disk, in the queue or in the hands of a worker
(`Covered`), unless its source was cancelled or something failed (`Accounted`); with
the queue empty and the workers gone only the first is left. A source that shares
its name with another is covered by nothing of its own, hence `DistinctBases`.

*Move engine.* A copier lives for one source: its jobs, its workers and the only
cancel that can arrive are of that source (`OneAtATime`, `CancelSound`).
`OriginSound` says that what is gone from where it was is whole at its target and
will not be copied again, so that no later cleanup is about it; `CopySound` that a
source is deleted only when every leaf of it was covered and the pool drained.

*Gate.* `GateCountsHolders` is not inductive alone: an extract never enters the
gate, and that is `ExtractsStayOut`; with it and the types every step either leaves
the holders alone, adds one together with a token, or takes one with it. The
refinement then is a case per action: only `Acquire` enters the pool, and it has
room because the channel counts the holders. For the registry the strengthening ties
a handle to its call or to the answer that is still coming.

*Sessions.* The invariant adds what no property mentions: a root whose password is
being checked is locked (`AskedIsLocked`), two vaults have two sessions
(`SessionsDiffer`), a wiped or doomed session is in the map of no vault
(`GoneIsGone`), and the session an operation holds is the one in the map now
(`HeldIsCurrent`). The last is the point: `endJob` finds the session by its root,
not by the one `beginJob` returned, so the count is right only if nothing replaces a
session in use.

*Folder.* `ContentsKept` speaks of plaintext and objects; by itself it does not say
which of two copies is right. The invariant says that every object under the
manifest's key holds the stored content (`ObjectsTrue`), so does every plaintext
(`PlainTrue`), every file is in at least one of the two (`Somewhere`), and no name
has two objects (`OneEach`); `Creating` and `Removing` say of the job's step which
copy it may touch next, and `AllPlain` that objects are dropped only once every name
is back in the clear. `CreatedStays` carries completeness from the last step of
create to every later state.

*Panes.* The cap of the history is the subtle part: `pushCapped` cuts the stack it
pushes on, and back and forward push as well. They never cut, because the two stacks
of a tab are together no longer than the cap (`Short`): only a step to a new folder
may drop the oldest entry, and it empties the other stack. With it the walk of a tab
(`Walk`) is the same sequence before and after a step back or forth (`GoingBack`).
That no two tabs share an id (`IdsDiffer`) lets a tab be followed through the strip;
a fresh id exists while there is room (`FreshId`). `TargetsInView` is inductive once
the cursor is taken in with the selection (`InView`), since it becomes the target
when the selection is cleared; each action either leaves the folder shown alone or
clears both.

*Connections.* Every wait is tied to a call in flight whose answer ends it: a pane
that shows it is connecting to a call to reach its host (`PanesWait`), a busy dialog
to a call that frees it and that the menu hears (`DialogWaits`), a request to a
password dialog, or to the editor, which gives it one when it closes (`DialogInv`).
That the editor drops the dialog with the calls that would free it keeps the second
one. The step that takes an answer ends the wait it was for, or leaves
another call that will.

*Trash.* One call at most is busy, and what its frame holds says where each thing is
between two steps (`TrashInv`): a thing being put away is whole at its place until it
is whole under its name in the trash (`PutSafe`), one being restored is whole in the
trash until it is whole outside (`RestoreSafe`). That a restore brings a thing home
is harder, because a note outlives its thing when a call is cut off between the two.
While nothing has failed no note is without its thing (`NoStrayNotes`), the name
given next has no note, and every note says where its thing came from (`NotesSay`).
The one fault may leave a stray note or a thing without one, and after it nothing
goes wrong that could give the stray note's name away before it is written anew.

*Windows.* What is told apart is a number that is given once. Of the terminal the
numbers of two Starts that spawn differ, and while the last one spawns the pane has
no shell (`ShellsInv`), so that a shell which comes late is placed or closed and
replaces none. Of the
map the jobs of two scans differ, the one not told to stop is the one shown, and the
scan shown is of the folder shown (`MapInv`). Of the editor a visit reads
one file; while the read is on its way the text is hidden, and after it the text is
that file's (`TextsInv`). For a search the list may wait only with its call, its job
or its job's end still on the way (`SearchInv`); for the finder an event on its way
names only groups that its scan found (`FinderInv`); for the prompts a password is typed in the prompt it is sent by
(`PromptsInv`). The types of these windows say more than the sets their variables
are from: a closed search shows and does nothing, however late a replacement or a
hit comes (`ClosedIsEmpty`, since a row can only be taken from a list that is
shown); the editor is open exactly on a file (`OpenWithFile`); a vault job in a pane
has the number of a call that was made for a vault (`JobsOfCalls`); a group shown
has a file that is kept (`FinderTypes`).

*Desk.* That a delete acts on what its dialog listed needs only that an open delete
dialog lists something and that nothing but the dialog sends a delete the panes can
hear (`CommandsInv`); the panes may do anything meanwhile. The path bar's invariant
is that suggestions are open only under the field (`BarInv`). The keyboard needs
none: in a field the ladder of the window's handler is left at its seventh rung at
the latest (`FieldsKeepKeys`), and the rungs above it run only what is meant to work
in a field, whatever bindings the user has.

Not proved, only model-checked: all liveness (fairness and ENABLED are outside the
prover's reach), and with it that the engines end; of `PaneIsWhole`, that columns
are whole and that typing goes round all names, and with them the types of `Desk`
(`SelectSeq` and `SortSeq` are recursive, and opaque to the provers). What recursion over data computes stays with TLC as well.

## 6. Plan

Done: the transfer engines, the jobs around them, vault sessions, the folder vault,
the trash, the terminal, the panes with their commands and windows, and the theorems
above. Proofs next: an abstract batch that `CopyEngine` implements, and an abstract
folder of contents that `VaultFolder` implements.

Models next: `VaultFile` (`.dpenc` files: `create_file.go`, `remove.go`),
`VaultTransfers` (copies into, out of and within a vault, with `VaultSession` and
the gate), `RemotePool` (the pool behind SFTP, SMB and MEGA transfers, and a batch
specification that it and `CopyEngine` implement), `RemoteConn` and
`ConnectionManager` (check-then-dial, host keys, profiles and secrets in two
stores), `Settings` (whole-record saves).

Bounds as above: two of everything that can interfere, one more of what a bystander
is. Related components share a run where their state is independent.

## 7. Not modelled

- Byte formats: the header and chunk layout of vault objects, archive formats,
  protocol encodings. Contents are whole values. The arithmetic of a file that
  changes its size while it is encrypted is lost with them.
- Cryptography: a key is right, wrong or wiped.
- Byte counts, speed and throttling of progress; rows have a status only.
- In `VaultFolder`: subdirectories with their marker objects, the free-space
  check, temporary files left by a crash (nothing reads them), and edits by other
  programs while a folder is being locked.
- In `TransferJobs`: `CancelTransferFile` for a job that still queues, and the
  dispatch of `runTransfer` to the engines. In `VaultSession`:
  `SetIdleLockMinutes` is a constant.
- In `Trash`: the leftover batches of older versions (`trash.go`, `Trash`), which of
  several volumes' trashes is used, and the trashes of macOS and Windows, which
  belong to the system.
- In `Connections`: what is typed into the SMB and MEGA forms beside the host they
  name, error texts, and of what the palette can do over an open dialog all but
  switching panes and opening the editor.
- In the frontend: what is typed into and printed by a shell, how suggestions are
  ranked, column widths, the layout of the map's rectangles, highlighting, the
  list of saved profiles, the folder tree, the text of git diffs, themes and the
  generated bindings. Settings are saved as whole records read from a cache
  (`entities/file/queries.ts:146`, `settings_service.go:105`), so of two saves at
  once the later can undo the earlier; no text of the repository promises more, and the
  fields are independent, so there is no model of it yet.
- How a duplicate scan or a search walks, hashes and matches; the windows' models
  have what it emits and when it ends.
- Thin wrappers (previews, OCR, git, ports, updates, volumes, disk images,
  clipboard): they keep no state that two actors share.

`PROJECT.json` lists every component with its status and the hazards no property
covers yet, each with the reason.
