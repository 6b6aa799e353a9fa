------------------------------ MODULE PathField -------------------------------
(***************************************************************************)
(* The path bar of a pane (frontend: widgets/file-pane/PathBar.tsx): the path *)
(* as links, or a field with suggestions while it is edited.  Where the pane  *)
(* goes, and when, is decided elsewhere: the path may change at any time.     *)
(***************************************************************************)
EXTENDS Integers, Sequences

CONSTANTS
  Paths,         \* sequences of names
  Share          \* a share: the crumbs of a path begin with it, not above

VARIABLES
  path,          \* where the pane is
  draft,         \* what the field holds
  editing, inField, \* the field is shown; it has the focus
  popup,         \* the suggestions are open
  picking,       \* the mouse went down on them
  highlighted,   \* {}, or the suggestion marked
  options,       \* the suggestions for the draft
  goals          \* the paths the pane was sent to and has not reached

vars == <<path, draft, editing, inField, popup, picking, highlighted, options, goals>>

ends == <<popup, picking, highlighted>>

(* The folders above a path, each a link to it; the last one is the path.     *)
Crumbs(p) ==
  LET top == IF p # <<>> /\ p[1] = Share THEN 1 ELSE 0
  IN [i \in 1..Len(p) - top + 1 |-> SubSeq(p, 1, top + i - 1)]

GoTo(p) == goals' = goals \cup {p}

ClickCrumb(i) ==
  /\ ~editing /\ i \in 1..Len(Crumbs(path)) - 1
  /\ GoTo(Crumbs(path)[i])
  /\ UNCHANGED <<path, draft, editing, inField, ends, options>>

(* The field gets the focus in the next frame.                               *)
BeginEdit ==
  /\ ~editing /\ editing' = TRUE
  /\ UNCHANGED <<path, draft, inField, ends, options, goals>>

Focus ==
  /\ ~inField /\ inField' = TRUE /\ editing' = TRUE
  /\ UNCHANGED <<path, draft, ends, options, goals>>

EndEdit ==
  /\ picking' = FALSE /\ draft' = path /\ popup' = FALSE
  /\ highlighted' = {} /\ editing' = FALSE /\ options' = {}

\* Fault: a field left while it is no longer edited keeps its draft.
BlurKeeps ==
  /\ inField /\ inField' = FALSE
  /\ IF picking \/ ~editing
     THEN popup' = FALSE /\ highlighted' = {} /\ UNCHANGED <<draft, editing, picking, options>>
     ELSE EndEdit
  /\ UNCHANGED <<path, goals>>

(* The mouse on the list does not end the editing; the list closes.          *)
Blur ==
  /\ inField /\ inField' = FALSE
  /\ IF picking
     THEN popup' = FALSE /\ highlighted' = {} /\ UNCHANGED <<draft, editing, picking, options>>
     ELSE EndEdit
  /\ UNCHANGED <<path, goals>>

Escape ==
  /\ inField /\ inField' = FALSE
  /\ EndEdit
  /\ UNCHANGED <<path, goals>>

Type(text) ==
  /\ inField /\ draft' = text
  /\ popup' = (popup \/ text # path) /\ options' = {}
  /\ UNCHANGED <<path, editing, inField, picking, highlighted, goals>>

Completed(found) ==
  /\ options = {} /\ options' = found
  /\ UNCHANGED <<path, draft, editing, inField, ends, goals>>

OpenList ==
  /\ inField /\ ~popup /\ popup' = TRUE
  /\ UNCHANGED <<path, draft, editing, inField, picking, highlighted, options, goals>>

CloseList ==
  /\ popup /\ popup' = FALSE /\ highlighted' = {}
  /\ UNCHANGED <<path, draft, editing, inField, picking, options, goals>>

Highlight(option) ==
  /\ popup /\ option \in options /\ highlighted' = {option}
  /\ UNCHANGED <<path, draft, editing, inField, popup, picking, options, goals>>

MouseOnList ==
  /\ popup /\ picking' = TRUE
  /\ UNCHANGED <<path, draft, editing, inField, popup, highlighted, options, goals>>

Submit(p) ==
  /\ GoTo(p) /\ draft' = p
  /\ picking' = FALSE /\ popup' = FALSE /\ highlighted' = {} /\ editing' = FALSE /\ options' = {}
  /\ UNCHANGED <<path, inField>>

ClickOption(option) == popup /\ picking /\ option \in options /\ Submit(option)

(* An exact match of what was typed, else the best one.                      *)
PickFromOptions(p) == p \in options /\ (draft \in options => p = draft)

(* The suggestion marked, the best one for what was typed, or that itself.    *)
Enter ==
  /\ inField
  /\ IF popup /\ highlighted # {} THEN \E p \in highlighted : Submit(p)
     ELSE IF options # {} /\ draft # path THEN \E p \in options : PickFromOptions(p) /\ Submit(p)
     ELSE Submit(draft)

(* The pane gets there, or elsewhere, or tells that there is no such path.    *)
PathChanges(p) ==
  /\ p # path /\ path' = p
  /\ draft' = p /\ editing' = FALSE /\ options' = {}
  /\ goals' = goals \ {p}
  /\ UNCHANGED <<inField, ends>>

NotFound(p) ==
  /\ p \in goals /\ goals' = goals \ {p}
  /\ UNCHANGED <<path, draft, editing, inField, ends, options>>

----------------------------------------------------------------------------
Init ==
  /\ path \in Paths /\ draft = path /\ editing = FALSE /\ inField = FALSE
  /\ popup = FALSE /\ picking = FALSE /\ highlighted = {} /\ options = {} /\ goals = {}

Next ==
  \/ \E i \in 1..2 : ClickCrumb(i)
  \/ BeginEdit \/ Focus \/ Blur \/ Escape \/ OpenList \/ CloseList \/ MouseOnList \/ Enter
  \/ \E p \in Paths : Type(p) \/ Highlight(p) \/ ClickOption(p) \/ PathChanges(p) \/ NotFound(p)
  \/ \E found \in SUBSET Paths : Completed(found)

TypeOK ==
  /\ {path, draft} \cup highlighted \cup options \cup goals \subseteq Paths
  /\ {editing, inField, popup, picking} \subseteq BOOLEAN

(* What was typed and not taken is given up with the field: unless the mouse  *)
(* went down on the suggestions and did not choose one, a bar that is not     *)
(* being used holds the pane's path (PathBar.tsx:65).                        *)
DraftIsGivenUp == ~inField /\ ~editing /\ ~picking => draft = path
===============================================================================
