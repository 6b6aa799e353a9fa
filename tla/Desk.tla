-------------------------------- MODULE Desk --------------------------------
(***************************************************************************)
(* The parts of a pane's window: the commands on its files, its rows, its    *)
(* path bar, the jobs it shows and the keys.  They share no state that their *)
(* properties are about, so each of them is taken alone: `part' says which.  *)
(***************************************************************************)
EXTENDS Integers, Sequences, FiniteSets

CONSTANTS
  Parts,
  Bound,                                        \* [part -> bound on its steps], for some
  Folders, RowsOf, KindOf, RemoteFolders, SmbFolders, Trash,
  InArchive, InVault, MaxCommands,              \* of FileOps
  Entries, SavedOrders, Letters, MaxBuffer,     \* of PaneRows
  Paths, Share,                                 \* of PathField
  SizedFolders, MaxSizes,                       \* of PaneJobs
  Catalog, Defaults, Presses, MaxTabs           \* of Keys

VARIABLES
  part, steps,
  here, targets, fileEditor, fileRequest, palette, open, typed, del, menu, undo, calls,
  listing, folderSizes, prefs, loaded, cursor, buffer, transfers, patched,
  path, draft, editing, inField, popup, picking, highlighted, options, goals,
  shown, sizes, job, asked, started, stopped,
  focus, editor, dialogs, query, index, map, stored, bindings, saving, keyPane, tabs,
  terminals, selected, ran

----------------------------------------------------------------------------
Commands == INSTANCE FileOps WITH
  Rows <- RowsOf, Kind <- KindOf, Remote <- RemoteFolders, Smb <- SmbFolders,
  MaxCalls <- MaxCommands, editor <- fileEditor, request <- fileRequest

Rows == INSTANCE PaneRows WITH Saved <- SavedOrders

Bar == INSTANCE PathField

Jobs == INSTANCE PaneJobs WITH Folders <- SizedFolders, MaxJobs <- MaxSizes

Keyboard == INSTANCE Keys WITH shown <- dialogs, draft <- bindings, active <- keyPane

ASSUME DeskAssumption == Commands!FileOpsAssumption

----------------------------------------------------------------------------
ofCommands == <<here, targets, fileEditor, fileRequest, palette, open, typed, del, menu, undo, calls>>
ofRows == <<listing, folderSizes, prefs, loaded, cursor, buffer, transfers, patched>>
ofBar == <<path, draft, editing, inField, popup, picking, highlighted, options, goals>>
ofJobs == <<shown, sizes, job, asked, started, stopped>>
ofKeyboard == <<focus, editor, dialogs, query, index, map, stored, bindings, saving, keyPane,
                tabs, terminals, selected, ran>>
deskVars == <<part, steps, ofCommands, ofRows, ofBar, ofJobs, ofKeyboard>>

(* A part that is not taken waits at one of its initial states.               *)
DeskInit ==
  /\ part \in Parts /\ steps = 0
  /\ Commands!Init /\ Rows!Init /\ Bar!Init /\ Jobs!Init /\ Keyboard!Init
  /\ part # "commands" => here = CHOOSE f \in Folders : TRUE
  /\ part # "bar" => path = CHOOSE p \in Paths : TRUE
  /\ part # "jobs" => shown = [p \in Jobs!Panes |-> CHOOSE f \in SizedFolders : TRUE]

DeskNext ==
  /\ part \in DOMAIN Bound => steps < Bound[part]
  /\ steps' = IF part \in DOMAIN Bound THEN steps + 1 ELSE 0
  /\ UNCHANGED part
  /\ \/ /\ part = "commands" /\ Commands!Next
        /\ UNCHANGED <<ofRows, ofBar, ofJobs, ofKeyboard>>
     \/ /\ part = "rows" /\ Rows!Next
        /\ UNCHANGED <<ofCommands, ofBar, ofJobs, ofKeyboard>>
     \/ /\ part = "bar" /\ Bar!Next
        /\ UNCHANGED <<ofCommands, ofRows, ofJobs, ofKeyboard>>
     \/ /\ part = "jobs" /\ Jobs!Next
        /\ UNCHANGED <<ofCommands, ofRows, ofBar, ofKeyboard>>
     \/ /\ part = "keyboard" /\ Keyboard!Next
        /\ UNCHANGED <<ofCommands, ofRows, ofBar, ofJobs>>

DeskSpec == DeskInit /\ [][DeskNext]_deskVars

----------------------------------------------------------------------------
DeskTypeOK ==
  /\ Commands!TypeOK /\ Rows!TypeOK /\ Bar!TypeOK /\ Jobs!TypeOK /\ Keyboard!TypeOK

(* A delete acts on what its dialog listed, and for good only where it said so *)
(* (useFileOpDialogs.ts:145), however the panes moved while it was open.        *)
DeletesWhatItListed == Commands!DeletesWhatItListed

(* Whatever is hidden, moved, patched in or still loading, the table has every *)
(* column once and typing a name goes round every row that begins with it; and *)
(* the path field holds the pane's path when it is not being edited            *)
(* (columns.ts, useTypeAhead.ts, PathBar.tsx).                               *)
PaneIsWhole == Rows!ColumnsWhole /\ Rows!TypeAheadVisitsAll /\ Bar!DraftIsGivenUp

(* A key pressed in a text field, or under an open dialog, never runs a command *)
(* on the files behind it (useFileManagerKeyboard.ts).                         *)
KeysStayInFields == Keyboard!KeysStayInFields
=============================================================================
