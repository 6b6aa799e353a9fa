------------------------------- MODULE PaneRows -------------------------------
(***************************************************************************)
(* The table of a pane (frontend: widgets/file-pane, features/ui): how the   *)
(* entries of a listing become rows, the columns and their saved             *)
(* preferences, the jump to the name being typed, and the rows a running     *)
(* transfer adds to the table without a new listing.                         *)
(***************************************************************************)
EXTENDS Integers, Sequences, SequencesExt, TLC

CONSTANTS
  Entries,       \* the entries of the folder, as listed: see Entry
  Saved,         \* the column orders the settings may hold
  Letters,       \* the keys typed
  MaxBuffer      \* bound on what is typed before the pause

(* word: its name, ext and key: its type and name as numbers to sort by.      *)
Entry == [up : BOOLEAN, isDir : BOOLEAN, word : Seq(Letters), key : Nat,
          size : Nat, modTime : Nat, ext : Nat, access : 0..4]

VARIABLES
  listing,       \* the entries listed, in order
  folderSizes,   \* [folder -> the size calculated for it]
  prefs, loaded, \* [sortField, sortDir, hidden, order], once they are read
  cursor,        \* {}, or the entry the cursor is on
  buffer,        \* what has been typed
  transfers,     \* [entry, canceled]: the destinations of the transfers shown
  patched        \* the entries the table shows without being listed

vars == <<listing, folderSizes, prefs, loaded, cursor, buffer, transfers, patched>>

----------------------------------------------------------------------------
(* Rows.                                                                    *)

SizeValue(e) == IF e.isDir /\ e \in DOMAIN folderSizes THEN folderSizes[e] ELSE e.size
SortKey(e, field) ==
  CASE field = "size" -> SizeValue(e)
    [] field = "modTime" -> e.modTime
    [] field = "ext" -> IF e.isDir THEN 0 ELSE e.ext
    [] field = "access" -> e.access
    [] OTHER -> e.key

(* The parent first, then folders, then files; what the column does not tell  *)
(* apart stays as listed, by name.                                          *)
SortRowsPinParent(S) ==
  LET Before(a, b) ==
        IF prefs.sortDir = "asc" THEN SortKey(a, prefs.sortField) < SortKey(b, prefs.sortField)
                                 ELSE SortKey(a, prefs.sortField) > SortKey(b, prefs.sortField)
      Less(a, b) == IF a.up # b.up THEN a.up
                    ELSE IF a.isDir # b.isDir THEN a.isDir
                    ELSE Before(a, b) \/ (~Before(b, a) /\ a.key < b.key)
  IN SortSeq(S, Less)
Rows == SortRowsPinParent(listing)

----------------------------------------------------------------------------
(* Columns.                                                                 *)

DefaultOrder == <<"icon", "displayName", "size", "modTime", "ext", "access">>
NeverHide == {"icon", "displayName"}
DefaultPrefs == [sortField |-> "displayName", sortDir |-> "asc", hidden |-> {}, order |-> <<>>]

\* Fault: a column is shown as often as the order names it.
OrderColumnsTwice(cols, order) ==
  IF order = <<>> THEN cols
  ELSE LET wanted == (IF Contains(order, "icon") THEN <<>> ELSE <<"icon">>) \o order
       IN SelectSeq(wanted, LAMBDA c : c \in ToSet(cols))
          \o SelectSeq(cols, LAMBDA c : c \notin ToSet(wanted))

(* An order puts the columns it names first, but the icon, when it does not.  *)
OrderColumns(cols, order) ==
  IF order = <<>> THEN cols
  ELSE LET wanted == (IF Contains(order, "icon") THEN <<>> ELSE <<"icon">>) \o order \o cols
           First(i) == wanted[i] \in ToSet(cols) /\ \A j \in 1..i-1 : wanted[j] # wanted[i]
           kept == SelectSeq([i \in DOMAIN wanted |-> i], First)
       IN [n \in DOMAIN kept |-> wanted[kept[n]]]
VisualOrder(order) == OrderColumns(DefaultOrder, order)

(* The trash has one column more.                                           *)
Columns(inTrash) ==
  OrderColumns(IF inTrash THEN <<"icon", "displayName", "size", "modTime", "origin", "ext", "access">>
               ELSE DefaultOrder, prefs.order)

\* Fault: the columns that must be shown are not taken out of the hidden ones.
NormalizeKeeps(p) == p

Normalize(p) == [p EXCEPT !.hidden = @ \ NeverHide]
Hydrate(p) ==
  /\ ~loaded /\ loaded' = TRUE
  /\ prefs' = Normalize(p)
  /\ UNCHANGED <<listing, folderSizes, cursor, buffer, transfers, patched>>
HydrateFails ==
  /\ ~loaded /\ loaded' = TRUE /\ prefs' = DefaultPrefs
  /\ UNCHANGED <<listing, folderSizes, cursor, buffer, transfers, patched>>

(* Sorted by no column is sorted by name.                                    *)
SetSort(field, dir) ==
  /\ field \notin {"icon"}
  /\ prefs' = [prefs EXCEPT !.sortField = field, !.sortDir = dir]
  /\ UNCHANGED <<listing, folderSizes, loaded, cursor, buffer, transfers, patched>>

SetHidden(fields) ==
  /\ prefs' = [prefs EXCEPT !.hidden = fields \ NeverHide]
  /\ UNCHANGED <<listing, folderSizes, loaded, cursor, buffer, transfers, patched>>

At(order, field) == SelectInSeq(order, LAMBDA f : f = field)
CanMove(field, dir) == LET order == VisualOrder(prefs.order) IN
                       At(order, field) > 0 /\ At(order, field) + dir \in DOMAIN order

Moved(order, i, j) == [order EXCEPT ![i] = order[j], ![j] = order[i]]
MoveColumn(field, dir) ==
  /\ CanMove(field, dir)
  /\ LET order == VisualOrder(prefs.order) IN
     prefs' = [prefs EXCEPT !.order = Moved(order, At(order, field), At(order, field) + dir)]
  /\ UNCHANGED <<listing, folderSizes, loaded, cursor, buffer, transfers, patched>>

----------------------------------------------------------------------------
(* The cursor.                                                              *)

StartsWith(S, typed) == SelectSeq(S, LAMBDA e : ~e.up /\ IsPrefix(typed, e.word))

\* Fault: the next match is counted from the whole table.
FindTypeAheadInRows(S, typed, from) ==
  LET matches == StartsWith(S, typed)
      i == SelectInSeq(S, LAMBDA e : e \in from)
  IN IF matches = <<>> THEN {} ELSE {matches[(i % Len(matches)) + 1]}

(* The first match, or the one after the cursor's when that is a match too.   *)
FindTypeAhead(S, typed, from) ==
  LET matches == StartsWith(S, typed)
      i == SelectInSeq(matches, LAMBDA e : e \in from)
  IN IF matches = <<>> THEN {} ELSE {matches[(i % Len(matches)) + 1]}

(* The same letter again asks for the next name that begins with it.         *)
TypeAhead(letter) ==
  LET cycling == buffer = <<letter>>  \* the same letter again
      typed == IF cycling THEN buffer ELSE Append(buffer, letter)
      found == FindTypeAhead(Rows, typed, IF cycling THEN cursor ELSE {})
  IN /\ Len(typed) <= MaxBuffer
     /\ buffer' = typed
     /\ cursor' = IF found = {} THEN cursor ELSE found
     /\ UNCHANGED <<listing, folderSizes, prefs, loaded, transfers, patched>>

TypeAheadPause ==
  /\ buffer # <<>> /\ buffer' = <<>>
  /\ UNCHANGED <<listing, folderSizes, prefs, loaded, cursor, transfers, patched>>

MoveFocus(delta) ==
  /\ Rows # <<>>
  /\ LET rows == Rows
         i == SelectInSeq(rows, LAMBDA e : e \in cursor)
         j == IF i = 0 THEN (IF delta > 0 THEN 1 ELSE Len(rows)) ELSE i + delta
     IN cursor' = {rows[IF j < 1 THEN 1 ELSE IF j > Len(rows) THEN Len(rows) ELSE j]}
  /\ UNCHANGED <<listing, folderSizes, prefs, loaded, buffer, transfers, patched>>

Relist(S) ==
  /\ listing' = S
  /\ patched' = {t.entry : t \in transfers} \ ToSet(S)
  /\ UNCHANGED <<folderSizes, prefs, loaded, cursor, buffer, transfers>>

SizesCalculated(sizes) ==
  /\ folderSizes' = sizes
  /\ UNCHANGED <<listing, prefs, loaded, cursor, buffer, transfers, patched>>

----------------------------------------------------------------------------
(* Rows ahead of the listing: those of the transfers into this folder.        *)

OpShown(e) ==
  /\ ~\E t \in transfers : t.entry = e
  /\ transfers' = transfers \cup {[entry |-> e, canceled |-> FALSE]}
  /\ patched' = patched \cup ({e} \ ToSet(listing))
  /\ UNCHANGED <<listing, folderSizes, prefs, loaded, cursor, buffer>>

OpFileCanceled(t) ==
  /\ t \in transfers /\ ~t.canceled
  /\ transfers' = (transfers \ {t}) \cup {[t EXCEPT !.canceled = TRUE]}
  /\ patched' = patched \ {t.entry}
  /\ UNCHANGED <<listing, folderSizes, prefs, loaded, cursor, buffer>>

OpDismissed(t) ==
  /\ t \in transfers /\ transfers' = transfers \ {t}
  /\ UNCHANGED <<listing, folderSizes, prefs, loaded, cursor, buffer, patched>>

----------------------------------------------------------------------------
Init ==
  /\ listing = Entries /\ folderSizes = <<>>
  /\ prefs = DefaultPrefs /\ loaded = FALSE
  /\ cursor = {} /\ buffer = <<>> /\ transfers = {} /\ patched = {}

Fields == {DefaultOrder[i] : i \in DOMAIN DefaultOrder}
Prefs == [sortField : {"displayName", "size"}, sortDir : {"asc", "desc"}, hidden : {{}, {"icon", "ext"}}, order : Saved]

Next ==
  \/ \E p \in Prefs : Hydrate(p)
  \/ HydrateFails
  \/ \E f \in Fields, d \in {"asc", "desc"} : SetSort(f, d)
  \/ \E S \in {{}, {"ext"}, {"displayName"}} : SetHidden(S)
  \/ \E f \in Fields, d \in {-1, 1} : MoveColumn(f, d)
  \/ \E k \in Letters : TypeAhead(k)
  \/ TypeAheadPause
  \/ \E d \in {-1, 1} : MoveFocus(d)
  \/ \E e \in ToSet(Entries) : ~e.up /\ (Relist(Remove(Entries, e)) \/ OpShown(e))
  \/ Relist(Entries)
  \/ SizesCalculated([e \in {x \in ToSet(listing) : x.isDir /\ ~x.up} |-> 10 - e.key])
  \/ \E t \in transfers : OpFileCanceled(t) \/ OpDismissed(t)

----------------------------------------------------------------------------
TypeOK ==
  /\ ToSet(listing) \cup cursor \cup patched \subseteq ToSet(Entries)
  /\ prefs.sortField \in Fields /\ prefs.hidden \cap NeverHide = {}
  /\ loaded \in BOOLEAN /\ Len(buffer) <= MaxBuffer

(* However the saved order came about and was moved since, every column of    *)
(* the table is there once (gridPrefsStore.ts:38).                           *)
ColumnsWhole ==
  \A inTrash \in BOOLEAN :
    LET cols == Columns(inTrash) IN
    /\ ToSet(cols) = Fields \cup (IF inTrash THEN {"origin"} ELSE {})
    /\ \A i, j \in DOMAIN cols : cols[i] = cols[j] => i = j

(* Pressing a letter again and again stops at every name it begins, however   *)
(* the table is sorted and wherever the cursor was (helpers.ts:162).         *)
TypeAheadVisitsAll ==
  \A k \in Letters :
    LET rows == Rows
        jump[n \in 0..Len(rows)] ==
          IF n = 0 THEN cursor ELSE FindTypeAhead(rows, <<k>>, jump[n-1])
    IN ToSet(StartsWith(rows, <<k>>)) \subseteq UNION {jump[n] : n \in 1..Len(rows)}
===============================================================================
