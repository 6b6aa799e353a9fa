--------------------------------- MODULE Keys ---------------------------------
(***************************************************************************)
(* The keyboard (frontend: useFileManagerKeyboard, the handlers of the grid   *)
(* and of its cells, the command palette, the dialog for the shortcuts).  A   *)
(* key goes to the cell, the grid and the window in turn, until one of them   *)
(* keeps it.                                                                *)
(***************************************************************************)
EXTENDS Integers, Sequences, SequencesExt

CONSTANTS
  Catalog,       \* the commands, in the order they are matched
  Defaults,      \* [command -> {}, or its binding: [key, mods]]
  Presses,       \* the keys pressed: [key, mods]
  MaxTabs        \* bound on the tabs of a pane

Commands == ToSet(Catalog)
Bindings == {{[key |-> "n", mods |-> {"mod"}]}, {}}

VARIABLES
  focus,         \* where the keys go
  editor,        \* the editor covers the panes
  shown,         \* the dialogs commands opened, the last on top
  query, index,  \* the commands the palette finds, and the row marked
  map, stored,   \* the bindings in use, and those saved last
  draft, saving, \* those in the dialog, and {}, or those being saved
  active, tabs, terminals, \* the pane in use, its tabs: [n, i], open terminals
  selected,      \* the pane in use has a selection
  ran            \* what the last key did

places == <<focus, shown>>
palette == <<query, index>>
keymap == <<map, stored, draft, saving>>
desk == <<active, tabs, terminals>>
vars == <<places, editor, palette, keymap, desk, selected, ran>>

Panes == {"left", "right"}
Other(p) == IF p = "left" THEN "right" ELSE "left"
Dialogs == {"commandPalette", "goTo", "openSearch", "openSettings", "openShortcuts", "quickView", "treeUsage"}

----------------------------------------------------------------------------
(* Bindings.                                                                *)

EventMatches(e, b) ==
  /\ e.key = b.key
  /\ \A m \in {"ctrl", "meta"} : m \in b.mods => m \in e.mods
  /\ "mod" \in b.mods => e.mods \cap {"ctrl", "meta"} # {}
  /\ \A m \in {"ctrl", "meta"} : m \in e.mods => b.mods \cap {m, "mod"} # {}
  /\ e.mods \cap {"shift", "alt"} = b.mods \cap {"shift", "alt"}

(* The first command of the list, if two have the same keys.                 *)
FindMatchingAction(e) ==
  LET i == SelectInSeq(Catalog, LAMBDA id : \E b \in map[id] : EventMatches(e, b))
  IN IF i = 0 THEN {} ELSE {Catalog[i]}
IsCtrlBackquote(e) == e.key = "Backquote" /\ "ctrl" \in e.mods /\ e.mods \cap {"meta", "alt"} = {}

(* What the ladder below stops at first: pairs of a condition and its effect. *)
FirstOf(ladder) ==
  LET i == SelectInSeq(ladder, LAMBDA rung : rung[1]) IN IF i = 0 THEN <<>> ELSE ladder[i][2]

----------------------------------------------------------------------------
(* Who keeps a key.                                                         *)

\* Fault: popovers have no role "dialog".
IsEditableRole(place) == place \in {"field", "terminal", "dialog"}
IsEditableTarget(place) == place \in {"field", "terminal", "dialog", "popover", "ports"}

CellKeys == {"Down", "Up", "Left", "Right", "Enter", "Home", "End", "Space"}
IsTypeAheadKey(e) == e.key \in {"a", "n", "v", "k"} /\ e.mods \cap {"ctrl", "meta", "alt"} = {}

(* A cell takes every arrow, with or without Ctrl and Alt; the grid has the   *)
(* focus afterwards.                                                        *)
CellRan(e) == FirstOf(<<
  <<e.key \in {"Down", "Up"}, <<"cursor">> >>,
  <<e.key = "Right", <<"openFolder">> >>,
  <<e.key = "Enter", <<"open">> >>,
  <<e.key \in {"Home", "End"}, <<"cursor">> >>,
  <<e.key = "Space", <<"mark">> >>,
  <<IsTypeAheadKey(e), <<"jump">> >> >>)
CellStops(e) == e.key \in CellKeys \/ IsTypeAheadKey(e)

GridRan(e) == FirstOf(<<
  <<e.key \in {"Down", "Up", "Home", "End"}, <<"cursor">> >>,
  <<e.key = "Right", <<"openFolder">> >>,
  <<e.key = "Enter", <<"open">> >>,
  <<e.key = "Space", <<"mark">> >>,
  <<IsTypeAheadKey(e), <<"jump">> >> >>)
GridStops(e) == e.key \in {"Down", "Up", "Right", "Space"} \/ IsTypeAheadKey(e)

(* The rungs of the window's handler: the first that fits ends it.           *)
Globals(e, m) == <<
  <<m = {"commandPalette"}, IF focus \in {"terminal", "ports"} THEN <<>> ELSE <<"commandPalette">> >>,
  <<~editor /\ m = {"goTo"}, <<"goTo">> >>,
  <<m = {"openSearch"}, <<"openSearch">> >>,
  <<IsCtrlBackquote(e) \/ m = {"toggleTerminal"}, IF editor THEN <<>> ELSE <<"toggleTerminal">> >>,
  <<~editor /\ m = {"quickView"}, <<"quickView">> >>,
  <<editor /\ ~IsEditableTarget(focus) /\ m \in {{"openSettings"}, {"openShortcuts"}}, SetToSeq(m)>>,
  <<editor \/ IsEditableTarget(focus), <<>> >> >>

Chords(e, m) ==
  LET held == e.mods \cap {"ctrl", "meta"} # {} /\ e.mods \cap {"alt", "shift"} = {}
      Free(id) == id \notin Commands \/ map[id] = {} \/ m = {id}
  IN <<
  <<held /\ e.key = "a" /\ Free("selectAll"), <<"selectAll">> >>,
  <<held /\ e.key = "v" /\ Free("paste"), <<"paste">> >>,
  <<e.key = "Escape" /\ e.mods = {} /\ selected, <<"unselect">> >>,
  <<e.key = "Backspace" /\ e.mods \subseteq {"shift"}, <<"back">> >>,
  <<e.key = "Left" /\ e.mods \in {{"alt"}, {"alt", "shift"}}, <<"back">> >>,
  <<e.key = "Right" /\ e.mods \in {{"alt"}, {"alt", "shift"}}, <<"forward">> >>,
  <<e.key = "Left" /\ e.mods = {"ctrl"} /\ Free("sameDirLeft"), <<"sameDirLeft">> >>,
  <<e.key = "Right" /\ e.mods = {"ctrl"} /\ Free("sameDirRight"), <<"sameDirRight">> >> >>

Plain(e) ==
  LET plain == e.mods \subseteq {"shift"} IN <<
  <<plain /\ e.key \in {"Down", "Up", "Home", "End"}, <<"cursor">> >>,
  <<plain /\ e.key = "Left", <<"back">> >>,
  <<plain /\ e.key = "Right", <<"openFolder">> >>,
  <<plain /\ e.key = "Enter" /\ focus # "button", <<"open">> >>,
  <<plain /\ e.key = "Space" /\ focus # "button", <<"mark">> >> >>

WindowRan(e) ==
  LET m == FindMatchingAction(e) IN
  FirstOf(Globals(e, m) \o Chords(e, m) \o Plain(e) \o << <<m # {}, SetToSeq(m)>> >>)

Runs(e) ==
  IF focus = "cell" /\ CellStops(e) THEN CellRan(e)
  ELSE IF focus \in {"cell", "grid"}
       THEN GridRan(e) \o (IF GridStops(e) THEN <<>> ELSE WindowRan(e))
       ELSE WindowRan(e)

----------------------------------------------------------------------------
(* Commands.                                                                *)

(* A tab more, next to this one; the last stays; next and previous go round.   *)
TabAction(id, t) ==
  CASE id = "tabNew" /\ t.n < MaxTabs -> [n |-> t.n + 1, i |-> t.i + 1]
    [] id = "tabClose" /\ t.n > 1 -> [n |-> t.n - 1, i |-> IF t.i = 0 THEN 0 ELSE t.i - 1]
    [] id = "tabNext" /\ t.n > 1 -> [t EXCEPT !.i = (@ + 1) % t.n]
    [] id = "tabPrev" /\ t.n > 1 -> [t EXCEPT !.i = (@ - 1 + t.n) % t.n]
    [] OTHER -> t

(* The dialogs once a command has run over those open before.                *)
Opened(id, open) ==
  IF id \notin Dialogs THEN open
  ELSE IF ~Contains(open, id) THEN Append(open, id)
  ELSE IF id = "quickView" THEN Remove(open, id) ELSE open

(* The dialog for the shortcuts starts from those in use, each time.  The     *)
(* other commands are passed on: ran says so.                                *)
RunShortcutAction(id, open) ==
  /\ shown' = Opened(id, open)
  /\ focus' = IF shown' # <<>> THEN "dialog" ELSE IF shown # <<>> THEN "body" ELSE focus
  /\ draft' = IF id = "openShortcuts" /\ ~Contains(open, id) THEN map ELSE draft
  /\ terminals' = IF id # "toggleTerminal" THEN terminals
                  ELSE IF active \in terminals THEN terminals \ {active} ELSE terminals \cup {active}
  /\ active' = IF id = "switchPane" THEN Other(active) ELSE active
  /\ tabs' = [tabs EXCEPT ![active] = TabAction(id, @)]
  /\ UNCHANGED <<editor, map, stored, saving>>

Press(e) ==
  /\ ran' = Runs(e)
  /\ selected' = (selected /\ ran' # <<"unselect">>)
  /\ IF ran' # <<>> /\ Last(ran') \in Commands \cup Dialogs
     THEN RunShortcutAction(Last(ran'), shown)
     ELSE /\ focus' = IF focus = "cell" /\ e.key \in CellKeys THEN "grid" ELSE focus
          /\ UNCHANGED <<shown, editor, keymap, desk>>
  /\ UNCHANGED palette

(* The side buttons of a mouse: both events of a click are listened to.       *)
MouseBack ==
  /\ ~IsEditableTarget(focus) /\ ran' = <<"back", "back">>
  /\ UNCHANGED <<places, editor, palette, keymap, desk, selected>>

Focus(place) ==
  /\ shown = <<>> /\ focus' = place /\ ran' = <<>>
  /\ selected' \in BOOLEAN
  /\ UNCHANGED <<shown, editor, palette, keymap, desk>>

ToggleEditor ==
  /\ shown = <<>> /\ editor' = ~editor /\ focus' = "body" /\ ran' = <<>>
  /\ UNCHANGED <<shown, palette, keymap, desk, selected>>

CloseDialog ==
  /\ shown # <<>> /\ shown' = Front(shown) /\ ran' = <<>>
  /\ focus' = IF shown' = <<>> THEN "body" ELSE "dialog"
  /\ query' = IF Last(shown) = "commandPalette" THEN Commands ELSE query
  /\ index' = IF Last(shown) = "commandPalette" THEN 1 ELSE index
  /\ UNCHANGED <<editor, keymap, desk, selected>>

OnTop(dialog) == shown # <<>> /\ Last(shown) = dialog

----------------------------------------------------------------------------
(* The palette: rows are counted from one; none is marked with none found.    *)

FilterCommands == SelectSeq(Catalog, LAMBDA id : id \in query)

PaletteType(found) ==
  /\ OnTop("commandPalette") /\ query' = found /\ index' = 1 /\ ran' = <<>>
  /\ UNCHANGED <<places, editor, keymap, desk, selected>>

PaletteMove(d) ==
  /\ OnTop("commandPalette") /\ ran' = <<>>
  /\ index' = IF d > 0 THEN (IF index < Len(FilterCommands) THEN index + 1 ELSE Len(FilterCommands))
              ELSE (IF index > 1 THEN index - 1 ELSE 1)
  /\ UNCHANGED <<places, editor, query, keymap, desk, selected>>

(* The palette closes before the command runs.                               *)
PaletteRun ==
  /\ OnTop("commandPalette") /\ index \in DOMAIN FilterCommands
  /\ ran' = <<FilterCommands[index]>>
  /\ RunShortcutAction(FilterCommands[index], Front(shown))
  /\ query' = Commands /\ index' = 1
  /\ UNCHANGED selected

----------------------------------------------------------------------------
(* The shortcuts.                                                           *)

SetBinding(id, b) ==
  /\ OnTop("openShortcuts")
  /\ draft' = [draft EXCEPT ![id] = b] /\ ran' = <<>>
  /\ UNCHANGED <<places, editor, palette, map, stored, saving, desk, selected>>

Save ==
  /\ OnTop("openShortcuts") /\ saving = {} /\ saving' = {draft} /\ ran' = <<>>
  /\ UNCHANGED <<places, editor, palette, map, stored, draft, desk, selected>>

(* Saved, the dialog closes; the bindings are read anew later.               *)
Saved ==
  /\ saving # {} /\ stored' \in saving /\ saving' = {} /\ ran' = <<>>
  /\ shown' = Remove(shown, "openShortcuts")
  /\ focus' = IF shown' = <<>> /\ shown # <<>> THEN "body" ELSE focus
  /\ UNCHANGED <<editor, palette, map, draft, desk, selected>>

SaveFails ==
  /\ saving # {} /\ saving' = {} /\ ran' = <<>>
  /\ UNCHANGED <<places, editor, palette, map, stored, draft, desk, selected>>

Refetched ==
  /\ map # stored /\ map' = stored /\ ran' = <<>>
  /\ draft' = IF Contains(shown, "openShortcuts") THEN stored ELSE draft
  /\ UNCHANGED <<places, editor, palette, stored, saving, desk, selected>>

----------------------------------------------------------------------------
Places == {"cell", "grid", "body", "button", "field", "terminal", "popover", "ports"}
Init ==
  /\ focus = "body" /\ editor = FALSE /\ shown = <<>> /\ query = Commands /\ index = 1
  /\ map = Defaults /\ stored = Defaults /\ draft = Defaults /\ saving = {}
  /\ active = "left" /\ tabs = [p \in Panes |-> [n |-> 1, i |-> 0]] /\ terminals = {}
  /\ selected = FALSE /\ ran = <<>>

Next ==
  \/ \E e \in Presses : Press(e)
  \/ MouseBack
  \/ \E f \in Places : Focus(f)
  \/ ToggleEditor \/ CloseDialog
  \/ \E found \in {{}} \cup {{id} : id \in Commands} : PaletteType(found)
  \/ (\E d \in {-1, 1} : PaletteMove(d)) \/ PaletteRun
  \/ \E id \in Commands, b \in Bindings : SetBinding(id, b)
  \/ Save \/ Saved \/ SaveFails \/ Refetched

TypeOK ==
  /\ focus \in Places \cup {"dialog"} /\ (focus = "dialog") = (shown # <<>>)
  /\ DOMAIN map = Commands /\ DOMAIN draft = Commands
  /\ \A p \in Panes : tabs[p].i \in 0..tabs[p].n - 1 /\ tabs[p].n <= MaxTabs
  /\ terminals \subseteq Panes /\ index \in 0..Len(Catalog)

(* Whatever keys the user gave the commands, one pressed in a field, a dialog, *)
(* a popover or a terminal runs none but those meant to work there: "global   *)
(* shortcuts would otherwise leak into them" (pages/file-manager/helpers.ts:28). *)
KeysStayInFields ==
  [][~OnTop("commandPalette") /\ focus \in {"field", "terminal", "dialog", "popover", "ports"}
       => ToSet(ran') \subseteq {"commandPalette", "goTo", "openSearch", "quickView", "toggleTerminal"}]_vars
===============================================================================
