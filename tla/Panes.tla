------------------------------- MODULE Panes -------------------------------
(***************************************************************************)
(* The two panes of the window: the zustand store of their tabs, history,  *)
(* selection and keyboard cursor (features/pane/paneStore.ts), and every    *)
(* handler that drives it: the pane's hooks, the path bar, the tab strip,   *)
(* the keyboard, drops, the treemap, the unmount menu.                      *)
(*                                                                         *)
(* A path is the sequence of its segments.  A listing is the sequence of   *)
(* row paths the backend returns; its ".." row carries the path of the     *)
(* parent directory (internal/filesystem/filesystem.go:115), not a path    *)
(* that ends in "..".  A navigation is two steps: the Exists call, and its *)
(* answer, between which anything else may happen.                         *)
(***************************************************************************)
EXTENDS Integers, Sequences, FiniteSets, SequencesExt

CONSTANTS
  Listing,        \* [directory -> the rows of its listing, ".." row first]
  Home,           \* the home directory
  Trash,          \* the trash folder
  Remote,         \* the directories reached over ssh, smb or mega
  Saved,          \* [pane -> the tabs saved by the last run that still exist]
  SavedActive,    \* [pane -> the active index saved with them]
  MaxHistory,     \* MAX_HISTORY
  TabIds,         \* tab ids (bounds the number of open tabs)
  BootId,         \* [pane -> the ids of its restored tabs]
  MaxCalls        \* bound on the calls in flight

Dirs  == DOMAIN Listing
PaneIds == {"left", "right"}
Nowhere == <<>>                        \* the empty path, ''

ASSUME PanesAssumption ==
  /\ \A d \in Dirs : Listing[d] \in Seq(Seq(STRING))
  /\ Home \in Dirs /\ Nowhere \notin Dirs
  /\ Trash \in Dirs /\ Remote \subseteq Dirs \ {Home}
  /\ Saved \in [PaneIds -> Seq(Dirs)] /\ SavedActive \in [PaneIds -> Int]
  /\ MaxHistory \in Nat \ {0} /\ MaxCalls \in Nat
  /\ IsFiniteSet(TabIds)

VARIABLES
  tabs,           \* [pane -> its tabs, each with its history]
  index,          \* [pane -> the active tab, from 1]
  selection,      \* [pane -> the multi-select targets]
  focus,          \* [pane -> the keyboard cursor]
  anchor,         \* [pane -> where a shift range starts]
  active,         \* the active pane
  term,           \* [pane -> its terminal is open]
  calls           \* the calls whose answer moves a pane

store == <<tabs, index, selection, focus, anchor, active, term>>
vars == <<store, calls>>

Other(p) == IF p = "left" THEN "right" ELSE "left"
Tab(p) == tabs[p][index[p]]
Path(p) == Tab(p).path
Rows(d) == Range(Listing[d])

(* The store takes a path for the ".." row when its last segment is "..".  *)
IsParentEntry(r) == r # Nowhere /\ Last(r) = ".."
Real(S) == {r \in S : ~IsParentEntry(r)}

(* The path the row named ".." carries.                                     *)
UpRow(d) == IF d = Trash THEN Home ELSE Front(d)

(* Paths for copy, move, delete, archive: multi-select if any, else focus.  *)
ActionPaths(p) ==
  IF Real(selection[p]) # {} THEN Real(selection[p])
  ELSE Real({focus[p]} \ {Nowhere})

PushCapped(stack, d) ==
  LET next == Append(stack, d) IN
  IF Len(next) > MaxHistory THEN Tail(next) ELSE next

FreshTab(d) ==
  [id |-> CHOOSE t \in TabIds : \A p \in PaneIds : \A i \in DOMAIN tabs[p] : tabs[p][i].id # t,
   path |-> d, back |-> <<>>, forward |-> <<>>]
RoomForTab == Len(tabs["left"]) + Len(tabs["right"]) < Cardinality(TabIds)

----------------------------------------------------------------------------
(* The steps of the store the handlers are made of.                         *)

ClearSel(p) ==
  /\ selection' = [selection EXCEPT ![p] = {}]
  /\ focus' = [focus EXCEPT ![p] = Nowhere]
  /\ anchor' = [anchor EXCEPT ![p] = Nowhere]

KeepSel == UNCHANGED <<selection, focus, anchor>>

(* enterPaneTab: a terminal cannot follow its pane to a remote directory.   *)
EnterPaneTab(p, d) == term' = [term EXCEPT ![p] = @ /\ d \notin Remote]

(* What a tab becomes when it opens a folder, goes back, goes forward.       *)
GoesTo(t, d) == [t EXCEPT !.path = d, !.back = PushCapped(@, t.path), !.forward = <<>>]
GoesBack(t) == [t EXCEPT !.path = Last(t.back), !.back = Front(@),
                         !.forward = PushCapped(@, t.path)]
GoesForward(t) == [t EXCEPT !.path = Last(t.forward), !.forward = Front(@),
                            !.back = PushCapped(@, t.path)]

\* Fault: navigating to the folder already shown pushes it.
NavigateAgain(p, d) ==
  /\ tabs' = [tabs EXCEPT ![p][index[p]] = GoesTo(Tab(p), d)]
  /\ ClearSel(p)

Navigate(p, d) ==
  IF d = Path(p)
  THEN UNCHANGED tabs /\ KeepSel
  ELSE /\ tabs' = [tabs EXCEPT ![p][index[p]] = GoesTo(Tab(p), d)]
       /\ ClearSel(p)

Land(p, d) == EnterPaneTab(p, d) /\ Navigate(p, d) /\ UNCHANGED index

SetFocus(p, r) ==
  /\ focus' = [focus EXCEPT ![p] = r]
  /\ anchor' = [anchor EXCEPT ![p] = r]

ToggleMulti(p, r) ==
  selection' = IF IsParentEntry(r) THEN selection
               ELSE [selection EXCEPT ![p] = IF r \in @ THEN @ \ {r} ELSE @ \cup {r}]

(* The rows between the anchor and r, in listing order, either way round.   *)
RangeTo(p, r) ==
  LET rows == Listing[Path(p)]
      at(x) == {i \in DOMAIN rows : rows[i] = x}
      from == IF at(anchor[p]) # {} THEN at(anchor[p]) ELSE at(r)
  IN {rows[k] : k \in {k \in DOMAIN rows :
        \E i \in from, j \in at(r) : (i <= k /\ k <= j) \/ (j <= k /\ k <= i)}}
SelectRange(p, r) ==
  /\ selection' = [selection EXCEPT ![p] = Real(RangeTo(p, r))]
  /\ focus' = [focus EXCEPT ![p] = r]

----------------------------------------------------------------------------
(* Navigation.  A pane asks whether the directory exists and moves when the *)
(* answer comes, whatever it shows by then.                                 *)

Ask(p, d) ==
  /\ Cardinality(calls) < MaxCalls
  /\ calls' = calls \cup {[kind |-> "exists", pane |-> p, dir |-> d]}

(* The path bar, its breadcrumbs, the home button and the ".." button.      *)
ParentOf(d) == IF d # Trash /\ Front(d) \in Dirs THEN Front(d) ELSE Home
GoUp(p) ==
  /\ Ask(p, ParentOf(Path(p)))
  /\ active' = p
  /\ UNCHANGED <<tabs, index, selection, focus, anchor, term>>
PathBar(p, d) ==
  /\ Ask(p, d)
  /\ active' = p
  /\ UNCHANGED <<tabs, index, selection, focus, anchor, term>>

(* The toolbar's parent and home buttons act on the pane that is active now.  *)
ToolbarUp ==
  /\ \E d \in {ParentOf(Path(active)), Home} : Ask(active, d)
  /\ UNCHANGED store

(* Enter, a double click or the right arrow opens the row under the cursor;  *)
(* a directory inside the trash is not entered.                             *)
OpenRow ==
  /\ focus[active] \in Dirs
  /\ Path(active) = Trash => focus[active] = UpRow(Trash)
  /\ Ask(active, focus[active])
  /\ UNCHANGED store

Answer(c) ==
  /\ c.kind = "exists"
  /\ calls' = calls \ {c}
  /\ \/ Land(c.pane, c.dir) /\ UNCHANGED active
     \/ UNCHANGED store                \* gone: "Path not found"

\* Fault: the pane goes back without the side effects of its arrival.
GoBackPlain ==
  /\ Tab(active).back # <<>>
  /\ tabs' = [tabs EXCEPT ![active][index[active]] = GoesBack(Tab(active))]
  /\ ClearSel(active)
  /\ UNCHANGED <<index, active, term, calls>>

(* Back and forward: the move first, then the side effects of its arrival.  *)
GoBack ==
  /\ Tab(active).back # <<>>
  /\ tabs' = [tabs EXCEPT ![active][index[active]] = GoesBack(Tab(active))]
  /\ ClearSel(active)
  /\ EnterPaneTab(active, Last(Tab(active).back))
  /\ UNCHANGED <<index, active, calls>>

\* Fault: going forward forgets the folder it leaves.
GoForwardForgets ==
  /\ Tab(active).forward # <<>>
  /\ tabs' = [tabs EXCEPT ![active][index[active]] =
                [GoesForward(Tab(active)) EXCEPT !.back = Tab(active).back]]
  /\ ClearSel(active)
  /\ EnterPaneTab(active, Last(Tab(active).forward))
  /\ UNCHANGED <<index, active, calls>>

GoForward ==
  /\ Tab(active).forward # <<>>
  /\ tabs' = [tabs EXCEPT ![active][index[active]] = GoesForward(Tab(active))]
  /\ ClearSel(active)
  /\ EnterPaneTab(active, Last(Tab(active).forward))
  /\ UNCHANGED <<index, active, calls>>

(* Trash button, a volume of the drives menu: at once, no Exists.           *)
GoDirect(d) ==
  /\ Land(active, d)
  /\ UNCHANGED <<active, calls>>

(* The inactive pane opens the active pane's folder.                        *)
SameDir ==
  /\ Land(Other(active), Path(active))
  /\ UNCHANGED <<active, calls>>

(* A volume is unmounted: every pane under it goes home.                     *)
Under(d, v) == IsPrefix(v, d)
Unmounted(v) ==
  LET gone == {p \in PaneIds : Under(Path(p), v) /\ Path(p) # Home} IN
  /\ tabs' = [p \in PaneIds |-> IF p \in gone THEN [tabs[p] EXCEPT ![index[p]] = GoesTo(Tab(p), Home)] ELSE tabs[p]]
  /\ selection' = [p \in PaneIds |-> IF p \in gone THEN {} ELSE selection[p]]
  /\ focus' = [p \in PaneIds |-> IF p \in gone THEN Nowhere ELSE focus[p]]
  /\ anchor' = [p \in PaneIds |-> IF p \in gone THEN Nowhere ELSE anchor[p]]
  /\ UNCHANGED <<index, active, term, calls>>

----------------------------------------------------------------------------
(* Tabs.                                                                    *)

SelectTab(p, i) ==
  /\ i \in DOMAIN tabs[p]
  /\ EnterPaneTab(p, tabs[p][i].path)
  /\ index' = [index EXCEPT ![p] = i]
  /\ ClearSel(p)
  /\ active' = p
  /\ UNCHANGED <<tabs, calls>>

AddTab(p, d) ==
  /\ RoomForTab
  /\ EnterPaneTab(p, d)
  /\ tabs' = [tabs EXCEPT ![p] = InsertAt(@, index[p] + 1, FreshTab(d))]
  /\ index' = [index EXCEPT ![p] = @ + 1]
  /\ ClearSel(p)
  /\ active' = p
  /\ UNCHANGED calls

\* Fault: the index stays where it is when a tab closes.
NextIndexStays(p, i) == index[p]

(* The pane computes the tab that becomes active before the store does; the  *)
(* two must agree for the side effects to be those of the right directory.  *)
NextIndex(p, i) ==
  IF i = index[p] THEN (IF i = 1 THEN 1 ELSE i - 1)
  ELSE IF i < index[p] THEN index[p] - 1 ELSE index[p]

\* Fault: closing a tab leaves the selection of the folder that was shown.
CloseTabKeeps(p, i) ==
  /\ Len(tabs[p]) > 1 /\ i \in DOMAIN tabs[p]
  /\ tabs' = [tabs EXCEPT ![p] = RemoveAt(@, i)]
  /\ index' = [index EXCEPT ![p] = NextIndex(p, i)]
  /\ KeepSel
  /\ UNCHANGED <<active, term, calls>>

CloseTab(p, i) ==
  /\ Len(tabs[p]) > 1 /\ i \in DOMAIN tabs[p]
  /\ IF i = index[p]
     THEN EnterPaneTab(p, RemoveAt(tabs[p], i)[IF i = 1 THEN 1 ELSE i - 1].path)
     ELSE UNCHANGED term
  /\ tabs' = [tabs EXCEPT ![p] = RemoveAt(@, i)]
  /\ index' = [index EXCEPT ![p] = NextIndex(p, i)]
  /\ ClearSel(p)
  /\ UNCHANGED <<active, calls>>

----------------------------------------------------------------------------
(* Selection and cursor.  Rows are those of the directory the pane shows.    *)

Click(p, r) ==
  /\ active' = p
  /\ SetFocus(p, r)
  /\ selection' = [selection EXCEPT ![p] = Real({r})]
  /\ UNCHANGED <<tabs, index, term, calls>>

CtrlClick(p, r) ==
  /\ active' = p
  /\ SetFocus(p, r)
  /\ ToggleMulti(p, r)
  /\ UNCHANGED <<tabs, index, term, calls>>

ShiftClick(p, r) ==
  /\ active' = p
  /\ SelectRange(p, r)
  /\ UNCHANGED <<tabs, index, anchor, term, calls>>

(* Arrow keys move the cursor one row, Home, End and typed letters jump;     *)
(* with shift an arrow extends the range.                                   *)
MoveFocus(r, extend) ==
  /\ IF extend THEN SelectRange(active, r) /\ UNCHANGED anchor
     ELSE SetFocus(active, r) /\ UNCHANGED selection
  /\ UNCHANGED <<tabs, index, active, term, calls>>

Space ==
  /\ focus[active] # Nowhere
  /\ ToggleMulti(active, focus[active])
  /\ UNCHANGED <<tabs, index, focus, anchor, active, term, calls>>

(* Mod+A takes the rows that are not named "..".                             *)
SelectAll ==
  /\ selection' = [selection EXCEPT ![active] = {r \in Rows(Path(active)) : r # UpRow(Path(active))}]
  /\ UNCHANGED <<tabs, index, focus, anchor, active, term, calls>>

(* A row that is not selected becomes the selection before the menu opens.   *)
RightClick(p, r) ==
  /\ r # UpRow(Path(p))
  /\ active' = p
  /\ SetFocus(p, r)
  /\ selection' = IF r \in selection[p] THEN selection ELSE [selection EXCEPT ![p] = Real({r})]
  /\ UNCHANGED <<tabs, index, term, calls>>

Escape ==
  /\ selection[active] # {}
  /\ selection' = [selection EXCEPT ![active] = {}]
  /\ UNCHANGED <<tabs, index, focus, anchor, active, term, calls>>

SwitchPane ==
  /\ active' = Other(active)
  /\ UNCHANGED <<tabs, index, selection, focus, anchor, term, calls>>

(* The panes trade places; the terminals stay.                               *)
Swap ==
  LET swapped(f) == [p \in PaneIds |-> f[Other(p)]] IN
  /\ tabs' = swapped(tabs) /\ index' = swapped(index)
  /\ selection' = swapped(selection) /\ focus' = swapped(focus) /\ anchor' = swapped(anchor)
  /\ active' = Other(active)
  /\ UNCHANGED <<term, calls>>

ToggleTerminal(p) ==
  /\ term' = [term EXCEPT ![p] = ~@]
  /\ active' = p
  /\ UNCHANGED <<tabs, index, selection, focus, anchor, calls>>

----------------------------------------------------------------------------
(* Drops.  A transfer that ends well clears both selections, activates the   *)
(* pane it was dropped on and takes it to the destination.                  *)

CanDropInto(S, dest) ==
  /\ ~\E r \in S : IsPrefix(r, dest)
  /\ ~\A r \in S : Front(r) = dest

(* What is dragged: the selection when the row is part of it, else the row.  *)
DragItem(p, r) == IF r \in selection[p] THEN selection[p] ELSE {r}

(* What can be dropped on: the pane, and its folder rows but the "..".        *)
DropTargets(to) ==
  {Path(to)} \cup {d \in Dirs : d \in Rows(Path(to)) /\ d # UpRow(Path(to))}

Drop(from, r, to, dest) ==
  /\ r # UpRow(Path(from))
  /\ dest \in DropTargets(to)
  /\ CanDropInto(DragItem(from, r), dest)
  /\ Cardinality(calls) < MaxCalls
  /\ calls' = calls \cup {[kind |-> "drop", pane |-> to, dir |-> dest, shown |-> Path(to)]}
  /\ UNCHANGED store

(* The pane's hook compares with the path it had when the drop began.        *)
Dropped(c) ==
  /\ c.kind = "drop"
  /\ selection' = [p \in PaneIds |-> {}]
  /\ active' = c.pane
  /\ calls' = (calls \ {c}) \cup
       (IF c.dir = c.shown THEN {} ELSE {[kind |-> "exists", pane |-> c.pane, dir |-> c.dir]})
  /\ UNCHANGED <<tabs, index, focus, anchor, term>>

(* Files dropped from another program: always a copy, and its end compares   *)
(* with the path of that moment and moves without asking.                    *)
DropExternal(to, dest) ==
  /\ dest \in DropTargets(to)
  /\ Cardinality(calls) < MaxCalls
  /\ calls' = calls \cup {[kind |-> "external", pane |-> to, dir |-> dest]}
  /\ UNCHANGED store

DroppedExternal(c) ==
  /\ c.kind = "external"
  /\ IF c.dir = Path(c.pane) THEN UNCHANGED <<tabs, index, selection, focus, anchor, term>>
     ELSE Land(c.pane, c.dir)
  /\ active' = c.pane
  /\ calls' = calls \ {c}

TransferFails(c) ==
  /\ c.kind \in {"drop", "external"}
  /\ calls' = calls \ {c}
  /\ UNCHANGED store

(* A file picked in the treemap is shown in the active pane, selected.  The   *)
(* store moves without enterPaneTab; the treemap scans local folders only.    *)
RevealFile(r) ==
  LET d == Front(r) IN
  /\ d \in Dirs \ Remote /\ r \in Rows(d)
  /\ tabs' = IF Path(active) = d THEN tabs
             ELSE [tabs EXCEPT ![active][index[active]] = GoesTo(Tab(active), d)]
  /\ SetFocus(active, r)
  /\ selection' = [selection EXCEPT ![active] = Real({r})]
  /\ UNCHANGED <<index, active, term, calls>>

----------------------------------------------------------------------------
(* The saved tabs of both panes, those that still exist; home when none is   *)
(* left.  The saved index is clamped to what is left.                        *)
Restored(p) == IF Saved[p] = <<>> THEN <<Home>> ELSE Saved[p]
Clamp(i, n) == IF i < 1 THEN 1 ELSE IF i > n THEN n ELSE i

(* Every tab restored is given an id of its own.                             *)
ASSUME BootAssumption ==
  /\ \A p \in PaneIds : \A i \in DOMAIN Restored(p) : BootId[p][i] \in TabIds
  /\ \A p, q \in PaneIds : \A i \in DOMAIN Restored(p), j \in DOMAIN Restored(q) :
       BootId[p][i] = BootId[q][j] => p = q /\ i = j

Init ==
  /\ tabs = [p \in PaneIds |-> [i \in DOMAIN Restored(p) |->
       [id |-> BootId[p][i], path |-> Restored(p)[i], back |-> <<>>, forward |-> <<>>]]]
  /\ index = [p \in PaneIds |-> Clamp(SavedActive[p], Len(Restored(p)))]
  /\ selection = [p \in PaneIds |-> {}]
  /\ focus = [p \in PaneIds |-> Nowhere]
  /\ anchor = [p \in PaneIds |-> Nowhere]
  /\ active = "left"
  /\ term = [p \in PaneIds |-> FALSE]
  /\ calls = {}

Navigation ==
  \/ \E p \in PaneIds : GoUp(p)
  \/ ToolbarUp \/ OpenRow \/ GoBack \/ GoForward
  \/ \E p \in PaneIds, d \in Dirs : PathBar(p, d)
  \/ \E d \in Dirs : GoDirect(d) \/ Unmounted(d)
  \/ SameDir
  \/ \E c \in calls : Answer(c)

TabStrip ==
  \E p \in PaneIds :
    \/ \E i \in DOMAIN tabs[p] : SelectTab(p, i) \/ CloseTab(p, i)
    \/ \E d \in Dirs : AddTab(p, d)

Selecting ==
  \/ \E p \in PaneIds : \E r \in Rows(Path(p)) :
       Click(p, r) \/ CtrlClick(p, r) \/ ShiftClick(p, r) \/ RightClick(p, r)
  \/ \E r \in Rows(Path(active)), extend \in BOOLEAN : MoveFocus(r, extend)
  \/ Space \/ SelectAll \/ Escape \/ SwitchPane \/ Swap
  \/ \E p \in PaneIds : ToggleTerminal(p)

Transfers ==
  \/ \E p, q \in PaneIds, d \in Dirs : \E r \in Rows(Path(p)) : Drop(p, r, q, d)
  \/ \E q \in PaneIds, d \in Dirs : DropExternal(q, d)
  \/ \E c \in calls : Dropped(c) \/ DroppedExternal(c) \/ TransferFails(c)
  \/ \E d \in Dirs : \E r \in Rows(d) : RevealFile(r)

Next == Navigation \/ TabStrip \/ Selecting \/ Transfers

Spec == Init /\ [][Next]_vars

----------------------------------------------------------------------------
TabType ==
  [id : TabIds, path : Dirs, back : Seq(Dirs), forward : Seq(Dirs)]
CallType ==
  [kind : {"exists", "external"}, pane : PaneIds, dir : Dirs]
    \cup [kind : {"drop"}, pane : PaneIds, dir : Dirs, shown : Dirs]

(* Every pane has an open tab, and its cursor state is made of paths.        *)
TypeOK ==
  /\ tabs \in [PaneIds -> Seq(TabType)] /\ index \in [PaneIds -> Nat]
  /\ \A p \in PaneIds : index[p] \in DOMAIN tabs[p]
  /\ selection \in [PaneIds -> SUBSET Seq(STRING)]
  /\ focus \in [PaneIds -> Seq(STRING)] /\ anchor \in [PaneIds -> Seq(STRING)]
  /\ active \in PaneIds
  /\ term \in [PaneIds -> BOOLEAN]
  /\ calls \subseteq CallType /\ Cardinality(calls) <= MaxCalls

(* What copy, move, delete and archive would act on are rows of the folder   *)
(* the pane shows, after any order of tab switches, late answers, swaps,     *)
(* drops and range selections (features/pane/paneStore.ts:227: closing the   *)
(* active tab must not leave paths of the old directory).                   *)
TargetsInView ==
  \A p \in PaneIds : ActionPaths(p) \subseteq Rows(Path(p))

(* They never include ".." (widgets/toolbar/helpers.ts:31).                  *)
TargetsAreNotParent ==
  \A p \in PaneIds : UpRow(Path(p)) \notin ActionPaths(p)

(* The walk a tab remembers: where back leads, the folder, where forward.     *)
Walk(t) == t.back \o <<t.path>> \o Reverse(t.forward)
OpenTabs == UNION {Range(tabs[p]) : p \in PaneIds}

(* No step of history revisits the folder already shown, and the stacks stay  *)
(* within their cap.                                                        *)
HistoryIsAWalk ==
  \A t \in OpenTabs :
    /\ Len(t.back) <= MaxHistory /\ Len(t.forward) <= MaxHistory
    /\ \A i \in 1 .. Len(Walk(t)) - 1 : Walk(t)[i] # Walk(t)[i + 1]

(* Back and forward lose nothing and stay a walk (HistoryIsAWalk): a tab's walk *)
(* is the one it had, or what led to the folder it leaves, then the new one.   *)
(* Closing, adding and swapping tabs leaves the walks of the others alone      *)
(* (features/pane/paneStore.ts:13, :139).                                    *)
Extends(t, u) ==
  /\ u.forward = <<>>
  /\ Walk(u) = PushCapped(t.back, t.path) \o <<u.path>>
HistoryIsKept ==
  [][/\ HistoryIsAWalk'
     /\ \A t \in OpenTabs : \A u \in OpenTabs' :
          t.id = u.id => Walk(u) = Walk(t) \/ Extends(t, u)]_vars

(* A pane that moves to a remote directory, by any way in, has no terminal    *)
(* open (widgets/file-pane/helpers.ts:18); swapping leaves the terminals.     *)
Swapped == Path("left")' = Path("right") /\ Path("right")' = Path("left")
RemoteEntryHasNoShell ==
  [][\A p \in PaneIds :
       Path(p)' # Path(p) /\ Path(p)' \in Remote => ~term'[p] \/ Swapped]_vars
=============================================================================
