------------------------------- MODULE MCDesk -------------------------------
(* Instances of Desk for TLC.                                               *)
EXTENDS Desk, TLC

BoundOf == ("commands" :> 7) @@ ("rows" :> 3) @@ ("keyboard" :> 5)

(* A folder with a file and a folder, a remote one, the trash.                *)
FolderRows == ("a" :> {"x", "d"}) @@ ("ssh" :> {"r"}) @@ ("trash" :> {"o"})
RowKinds == [r \in {"x", "r", "o"} |-> "file"] @@ ("d" :> "dir")

(* Two folders and two files beside the parent, and two broken column orders.  *)
Row(up, isDir, word, key, size, modTime, ext, access) ==
  [up |-> up, isDir |-> isDir, word |-> word, key |-> key,
   size |-> size, modTime |-> modTime, ext |-> ext, access |-> access]
FiveEntries == <<Row(TRUE, TRUE, <<>>, 0, 0, 0, 0, 0),
                 Row(FALSE, TRUE, <<"a", "b">>, 1, 0, 2, 0, 4),
                 Row(FALSE, TRUE, <<"b", "a">>, 2, 0, 1, 0, 0),
                 Row(FALSE, FALSE, <<"a", "a">>, 3, 5, 2, 1, 0),
                 Row(FALSE, FALSE, <<"a", "b">>, 4, 3, 1, 2, 1)>>
BrokenOrders == {<<>>, <<"size", "gone", "icon", "size">>, <<"access", "displayName">>}

(* The root, a share, a folder of it.                                       *)
ThreePaths == {<<>>, <<"s">>, <<"s", "x">>}

(* A command of each kind, and keys that are bound, free, or a field's own.    *)
Key(key, mods) == [key |-> key, mods |-> mods]
SixCommands == <<"selectAll", "delete", "openShortcuts", "commandPalette", "tabNew", "tabPrev">>
SixBindings == ("selectAll" :> {Key("a", {"mod"})}) @@ ("delete" :> {Key("Delete", {})})
               @@ ("openShortcuts" :> {Key("/", {"mod"})}) @@ ("commandPalette" :> {Key("k", {"mod"})})
               @@ ("tabNew" :> {Key("t", {"mod"})}) @@ ("tabPrev" :> {})
EightPresses == {Key("a", {"ctrl"}), Key("n", {"ctrl"}), Key("Right", {"ctrl"}), Key("Enter", {}),
                 Key("k", {"meta"}), Key("/", {"ctrl"}), Key("Escape", {}), Key("Down", {})}
=============================================================================
