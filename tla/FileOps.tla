------------------------------ MODULE FileOps ------------------------------
(***************************************************************************)
(* The file commands: how they are asked for (toolbar, menus, keyboard,    *)
(* palette, context menu), the dialogs some of them open first, the call   *)
(* each of them makes and what its answer does.                            *)
(*                                                                         *)
(* The panes go on moving meanwhile (late answers, drops that end, the     *)
(* mouse's back button over a dialog's backdrop): Elsewhere is any of       *)
(* their steps, of which module Panes shows that the targets stay in the    *)
(* folder shown.                                                           *)
(***************************************************************************)
EXTENDS Integers, FiniteSets

CONSTANTS
  Folders, Rows,        \* the folders and [folder -> its rows but the ".."]
  Kind,                 \* [row -> "file" | "binary" | "zip" | "dir" | "locked" | "unlocked"]
  Remote, Smb, Trash,   \* remote folders, those of them on smb, the trash
  InArchive,            \* folders inside an archive
  InVault,              \* folders inside an unlocked vault
  MaxCalls              \* bound on the calls in flight

FileOpsAssumption ==
  /\ Rows \in [Folders -> SUBSET DOMAIN Kind]
  /\ Trash \in Folders /\ Smb \subseteq Remote
  /\ MaxCalls \in Nat \ {0}

None == "none"
NameDialogs == {"mkdir", "mkfile", "rename"}

VARIABLES
  here,                 \* the active pane's folder
  targets,              \* the paths a command acts on (realSelection)
  editor,               \* the editor covers the panes and the toolbar
  request,              \* fileOpsStore: the command waiting for the toolbar
  palette,              \* the command palette is open
  open,                 \* the dialogs that are open
  typed,                \* the name typed in the name dialog is not blank
  del,                  \* what the delete dialog was opened with
  menu,                 \* {}, or the context menu: its row (or None) and folder
  undo,                 \* {}, or the batch the notification's Undo restores
  calls                 \* the calls in flight

panes == <<here, targets>>
dialogs == <<open, typed, del>>
vars == <<panes, editor, request, palette, dialogs, menu, undo, calls>>

NoDelete == [paths |-> {}, permanent |-> FALSE]

----------------------------------------------------------------------------
(* What the toolbar, the menus and the context menu offer.                  *)

(* The Actions menu.                                                        *)
ActionsMenu ==
  IF here = Trash THEN {"restoreTrash", "delete", "emptyTrash"}
  ELSE {"copy", "move", "rename", "delete", "deletePermanent"}

(* The toolbar's own buttons.                                               *)
ToolbarButtons ==
  {"editFile", "gitDiff", "archive", "extract"} \cup ActionsMenu \cup
  (IF here = Trash THEN {} ELSE {"mkdir", "mkfile"})

(* The File menu.                                                           *)
FileMenu ==
  {"editFile", "gitDiff", "delete", "deletePermanent", "emptyTrash"} \cup
  (IF here = Trash THEN {} ELSE {"mkdir", "mkfile", "rename"})

(* What the vault items allow on a row, or on the folder itself.             *)
VaultItems(m) ==
  IF m.at \in Remote \cup InArchive \cup {Trash} \/ Cardinality(targets) > 1 THEN {}
  ELSE IF m.row = None THEN (IF m.at \in InVault THEN {"lockNow", "removePassword"} ELSE {})
  ELSE IF Kind[m.row] = "locked" THEN {"unlock"}
  ELSE IF Kind[m.row] = "unlocked" THEN {"lockNow", "removePassword"}
  ELSE {"lock"}

IsDir(row) == Kind[row] \in {"dir", "locked", "unlocked"}
PlainFile(m) == ~IsDir(m.row) /\ (Kind[m.row] = "zip" => m.at \in Remote)

(* The context menu's commands on a row, and on the empty space.             *)
TrashMenu(m) ==
  {"emptyTrash"} \cup (IF m.row = None THEN {} ELSE {"restoreTrash", "delete"})
RowMenu(m) ==
  {"open", "copy"} \cup
  {c \in {"editFile"} : PlainFile(m) /\ m.at \notin InArchive} \cup
  {c \in {"rename", "move", "delete"} : m.at \notin InArchive} \cup
  {c \in {"archive", "reveal"} : m.at \notin Remote \cup InArchive} \cup
  {c \in {"extract"} : m.at \notin Remote \cup InArchive /\ Kind[m.row] = "zip"}
FolderMenu(m) ==
  {c \in {"openOS"} : m.at \notin Remote \cup InArchive} \cup
  {c \in {"openTerminal"} : m.at \notin Smb \cup InArchive} \cup
  {c \in {"mkdir", "mkfile"} : m.at \notin InArchive}
ContextMenu(m) ==
  IF m.at = Trash THEN TrashMenu(m)
  ELSE (IF m.row = None THEN {} ELSE RowMenu(m)) \cup FolderMenu(m) \cup VaultItems(m)

(* The commands the palette hands to the toolbar.                           *)
FileOpsIds ==
  {"copy", "paste", "move", "delete", "deletePermanent", "restoreTrash", "emptyTrash",
   "rename", "mkdir", "mkfile", "editFile", "gitDiff", "archive", "extract"}

----------------------------------------------------------------------------
(* The commands.  Each either warns, or opens a dialog, or calls.           *)

(* What waits for these answers is the toolbar's hook: it no longer hears    *)
(* the one of a call when it unmounts or makes a newer call of the same kind. *)
Hooked == {"del", "delPermanent"} \cup NameDialogs
Deaf(ops) == {[c EXCEPT !.heard = @ /\ c.op \notin ops] : c \in calls}

Call(op, paths) ==
  /\ Cardinality(calls) < MaxCalls
  /\ calls' = Deaf(Hooked \cap {op}) \cup {[op |-> op, paths |-> paths, heard |-> TRUE]}
Warn == UNCHANGED <<dialogs, editor, calls>>
Ask(d) == open' = open \cup {d} /\ UNCHANGED <<editor, calls>>

(* Trash is not edited: rejectTrashEdit.                                    *)
Transfer(op) ==
  IF here = Trash \/ targets = {} THEN Warn
  ELSE Call(op, targets) /\ UNCHANGED <<dialogs, editor>>

Paste ==
  IF here = Trash \/ here \in InArchive THEN Warn
  ELSE Call("paste", {}) /\ UNCHANGED <<dialogs, editor>>

Delete(permanent) ==
  IF targets = {} THEN Warn
  ELSE /\ Ask("delete")
       /\ del' = [paths |-> targets, permanent |-> permanent]
       /\ UNCHANGED typed

RestoreTrash ==
  IF here # Trash \/ targets = {} THEN Warn
  ELSE Call("restoreTrash", targets) /\ UNCHANGED <<dialogs, editor>>

EmptyTrash == Ask("empty") /\ UNCHANGED <<typed, del>>

AskName(d) ==
  IF here = Trash \/ (d = "rename" /\ Cardinality(targets) # 1) THEN Warn
  ELSE Ask(d) /\ typed' = TRUE /\ UNCHANGED del

(* The editor takes the place of the panes, the toolbar and its dialogs.      *)
ShowEditor ==
  /\ editor' = TRUE
  /\ open' = {} /\ del' = NoDelete /\ typed' = TRUE
  /\ calls' = Deaf(Hooked)

(* A text file goes to the editor, any other to its program.                *)
Editable(row) == ~IsDir(row) /\ Kind[row] = "file"
EditFile ==
  IF Cardinality(targets) # 1 \/ ~\A row \in targets : Editable(row) THEN Warn
  ELSE ShowEditor

GitDiff ==
  IF Cardinality(targets) # 1 \/ here \in Remote THEN Warn
  ELSE ShowEditor

(* The list of formats is asked for before the archive dialog opens.         *)
AskArchive ==
  IF targets = {} THEN Warn
  ELSE Call("formats", {}) /\ UNCHANGED <<dialogs, editor>>

AskExtract ==
  IF targets = {} THEN Warn ELSE Ask("extract") /\ UNCHANGED <<typed, del>>

Handle(command) ==
  \/ command \in {"copy", "move"} /\ Transfer(command)
  \/ command = "paste" /\ Paste
  \/ command = "delete" /\ Delete(here = Trash)
  \/ command = "deletePermanent" /\ Delete(TRUE)
  \/ command = "restoreTrash" /\ RestoreTrash
  \/ command = "emptyTrash" /\ EmptyTrash
  \/ command \in NameDialogs /\ AskName(command)
  \/ command = "editFile" /\ EditFile
  \/ command = "gitDiff" /\ GitDiff
  \/ command = "archive" /\ AskArchive
  \/ command = "extract" /\ AskExtract

(* A button of the toolbar or an item of its menu.                          *)
Press(command) ==
  /\ ~editor /\ open = {} /\ menu = {} /\ ~palette
  /\ command \in ToolbarButtons
  /\ Handle(command)
  /\ UNCHANGED <<panes, request, palette, menu, undo>>

(* The File menu and the keyboard go through the store.                     *)
Trigger(command) ==
  /\ ~editor /\ open = {} /\ menu = {} /\ ~palette
  /\ command \in FileMenu \cup FileOpsIds
  /\ request' = command
  /\ UNCHANGED <<panes, editor, palette, dialogs, menu, undo, calls>>

(* The palette opens over the editor too.                                   *)
OpenPalette ==
  /\ palette' = TRUE /\ open = {} /\ menu = {}
  /\ UNCHANGED <<panes, editor, request, dialogs, menu, undo, calls>>

ClosePalette ==
  /\ palette /\ palette' = FALSE
  /\ UNCHANGED <<panes, editor, request, dialogs, menu, undo, calls>>

RunCommand(command) ==
  /\ palette /\ palette' = FALSE
  /\ request' = command
  /\ UNCHANGED <<panes, editor, dialogs, menu, undo, calls>>

(* The toolbar's effect: after a render with a request, and when it mounts.   *)
RunRequest ==
  /\ ~editor /\ request # None
  /\ request' = None
  /\ Handle(request)
  /\ UNCHANGED <<panes, palette, menu, undo>>

(* A double click on a row of the list.                                     *)
OpenRow(row) ==
  /\ ~editor /\ open = {} /\ menu = {} /\ ~palette
  /\ Editable(row)
  /\ ShowEditor
  /\ UNCHANGED <<panes, request, palette, menu, undo>>

CloseEditor ==
  /\ editor /\ editor' = FALSE
  /\ UNCHANGED <<panes, request, palette, dialogs, menu, undo, calls>>

(* A right click selects the row it lands on, unless it is selected.         *)
RightClick(row) ==
  /\ ~editor /\ open = {} /\ ~palette
  /\ menu' = {[row |-> row, at |-> here]}
  /\ targets' = IF row = None \/ row \in targets THEN targets ELSE {row}
  /\ UNCHANGED <<here, editor, request, palette, dialogs, undo, calls>>

ChooseItem(command) ==
  /\ command \in FileOpsIds
  /\ \E m \in menu : command \in ContextMenu(m)
  /\ menu' = {}
  /\ request' = command
  /\ UNCHANGED <<panes, editor, palette, dialogs, undo, calls>>

(* The other items (open, reveal, the vault's), or none.                     *)
ChooseOther ==
  /\ menu # {}
  /\ menu' = {}
  /\ UNCHANGED <<panes, editor, request, palette, dialogs, undo, calls>>

----------------------------------------------------------------------------
(* The dialogs.                                                             *)

Type(blank) ==
  /\ open \cap NameDialogs # {}
  /\ typed' = ~blank
  /\ UNCHANGED <<panes, editor, request, palette, open, del, menu, undo, calls>>

Cancel(d) ==
  /\ d \in open
  /\ open' = open \ {d}
  /\ del' = IF d = "delete" THEN NoDelete ELSE del
  /\ UNCHANGED <<panes, editor, request, palette, typed, menu, undo, calls>>

(* What the delete dialog says it will do.                                  *)
Listed == IF del.paths # {} THEN del.paths ELSE targets
SaysPermanent == del.permanent \/ here \in Remote

\* Fault: the delete takes the selection of the moment.
ConfirmDeleteLive ==
  /\ "delete" \in open /\ targets # {}
  /\ open' = open \ {"delete"} /\ del' = NoDelete
  /\ Call(IF SaysPermanent THEN "delPermanent" ELSE "del", targets)
  /\ UNCHANGED <<panes, editor, request, palette, typed, menu, undo>>

ConfirmDelete ==
  /\ "delete" \in open /\ Listed # {}
  /\ open' = open \ {"delete"} /\ del' = NoDelete
  /\ Call(IF SaysPermanent THEN "delPermanent" ELSE "del", Listed)
  /\ UNCHANGED <<panes, editor, request, palette, typed, menu, undo>>

ConfirmEmpty ==
  /\ "empty" \in open
  /\ open' = open \ {"empty"}
  /\ Call("emptyTrash", {})
  /\ UNCHANGED <<panes, editor, request, palette, typed, del, menu, undo>>

(* The folder, and for a rename the item, are those of the moment.           *)
ConfirmName(d) ==
  /\ d \in open /\ typed
  /\ open' = open \ {d}
  /\ IF d = "rename" THEN \E row \in targets : Call(d, {row}) ELSE Call(d, {})
  /\ UNCHANGED <<panes, editor, request, palette, typed, del, menu, undo>>

ConfirmArchive ==
  /\ "archive" \in open /\ targets # {}
  /\ open' = open \ {"archive"}
  /\ Call("archive", targets)
  /\ UNCHANGED <<panes, editor, request, palette, typed, del, menu, undo>>

ConfirmExtract ==
  /\ "extract" \in open /\ targets # {}
  /\ open' = open \ {"extract"}
  /\ Call("extract", targets)
  /\ UNCHANGED <<panes, editor, request, palette, typed, del, menu, undo>>

----------------------------------------------------------------------------
(* The answers.  Each shows a notification, which replaces the one before    *)
(* and its Undo.                                                            *)

(* clearSelection: at most the cursor is left to act on.                    *)
Cleared == {S \in SUBSET targets : Cardinality(S) <= 1}
Clears == {"copy", "move", "del", "delPermanent", "restoreTrash", "emptyTrash", "archive", "extract"} \cup NameDialogs

Succeed(c) ==
  /\ c.op # "formats"
  /\ calls' = calls \ {c}
  /\ IF c.heard
     THEN /\ targets' \in IF c.op \in Clears THEN Cleared ELSE {targets}
          /\ undo' \in IF c.op = "del" THEN {{}, {c.paths}} ELSE {{}}
     ELSE UNCHANGED <<targets, undo>>
  /\ UNCHANGED <<here, editor, request, palette, dialogs, menu>>

(* A delete, mkdir or rename that is refused explains why.                   *)
Fail(c, denied) ==
  /\ c.op # "formats"
  /\ calls' = calls \ {c}
  /\ IF c.heard /\ c.op \in Hooked /\ denied
     THEN open' = (open \ {"delete"}) \cup {"permission"} /\ UNCHANGED undo
     ELSE undo' = (IF c.heard THEN {} ELSE undo) /\ UNCHANGED open
  /\ UNCHANGED <<panes, editor, request, palette, typed, del, menu>>

(* The formats, or the default list when the call fails.                    *)
Formats(c) ==
  /\ c.op = "formats"
  /\ calls' = calls \ {c}
  /\ open' = IF editor THEN open ELSE open \cup {"archive"}
  /\ UNCHANGED <<panes, editor, request, palette, typed, del, menu, undo>>

Undo ==
  /\ undo' = {}
  /\ \E batch \in undo : Call("restoreDeleted", batch)
  /\ UNCHANGED <<panes, editor, request, palette, dialogs, menu>>

(* Ten seconds, or another notification.                                    *)
UndoGone ==
  /\ undo # {} /\ undo' = {}
  /\ UNCHANGED <<panes, editor, request, palette, dialogs, menu, calls>>

Elsewhere(a, S) ==
  /\ S \subseteq Rows[a]
  /\ here' = a /\ targets' = S
  /\ UNCHANGED <<editor, request, palette, dialogs, menu, undo, calls>>

Init ==
  /\ here \in Folders /\ targets = {}
  /\ editor = FALSE /\ request = None /\ palette = FALSE
  /\ open = {} /\ typed = TRUE /\ del = NoDelete
  /\ menu = {} /\ undo = {} /\ calls = {}

Dialogs ==
  \/ \E blank \in BOOLEAN : Type(blank)
  \/ \E d \in NameDialogs : ConfirmName(d)
  \/ \E d \in open : Cancel(d)
  \/ ConfirmDelete \/ ConfirmEmpty \/ ConfirmArchive \/ ConfirmExtract

Answers ==
  \/ \E c \in calls : Succeed(c) \/ Formats(c) \/ \E denied \in BOOLEAN : Fail(c, denied)
  \/ Undo \/ UndoGone

Next ==
  \/ \E command \in FileOpsIds :
       Press(command) \/ Trigger(command) \/ RunCommand(command) \/ ChooseItem(command)
  \/ OpenPalette \/ ClosePalette \/ RunRequest \/ CloseEditor
  \/ \E row \in Rows[here] : OpenRow(row)
  \/ \E row \in Rows[here] \cup {None} : RightClick(row)
  \/ ChooseOther
  \/ Dialogs \/ Answers
  \/ \E a \in Folders : \E S \in SUBSET Rows[a] : Elsewhere(a, S)

----------------------------------------------------------------------------
TypeOK ==
  /\ here \in Folders /\ targets \subseteq Rows[here]
  /\ request \in FileOpsIds \cup {None}
  /\ open \subseteq NameDialogs \cup {"delete", "empty", "permission", "archive", "extract"}
  /\ "delete" \in open => del.paths # {}

(* Whatever the panes do while the dialog is open, what is deleted is what    *)
(* it was opened with, and for good only when it says so                     *)
(* (DeleteDialogs.tsx:28); a dialog that is closing deletes nothing.          *)
DeletesWhatItListed ==
  [][\A c \in calls' \ calls : c.heard /\ c.op \in {"del", "delPermanent"} =>
       /\ "delete" \in open
       /\ c.paths = del.paths
       /\ c.op = "delPermanent" <=> SaysPermanent]_vars

(* While the editor is open the file commands wait for nothing: they are not  *)
(* accepted (useFileManagerKeyboard.ts:77).                                 *)
NoCommandUnderEditor == editor => request = None
=============================================================================
