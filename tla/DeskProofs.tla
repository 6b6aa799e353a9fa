----------------------------- MODULE DeskProofs -----------------------------
(***************************************************************************)
(* Proofs about Connections for any hosts, profiles, panes and files and    *)
(* any number of calls in flight: however the calls are answered, nothing   *)
(* waits for a call that has ended.  Then about Desk, for any folders, rows,  *)
(* paths and bindings: a delete takes what its dialog listed, the path bar   *)
(* gives its draft up, and keys pressed in fields run nothing behind them.   *)
(***************************************************************************)
EXTENDS Connections, Desk, TLAPS, FiniteSetTheorems, SequenceTheorems, WellFoundedInduction

NamesHost(d) ==
  d.mode \in {"password", "workdir", "smb_shares", "smb_confirm"} => d.to \in Hosts

\* A dialog that acts on a host names one; a request goes with its dialog but
\* where the editor takes the menu away, and there is never more than one.
DialogInv ==
  /\ form \in Form /\ NamesHost(form) /\ covered \in BOOLEAN
  /\ request \subseteq [pane : Panes, to : Hosts] /\ Cardinality(request) <= 1
  /\ request # {} => covered \/ form.mode = "password"

\* A call is for a host, but for those that read the SSH config.
Addressed(c) ==
  /\ c.op \notin {"paths", "load"} => c.to \in Hosts
  /\ c.op = "load" => c.to \in Files \cup {None}
CallsInv == dials \subseteq Calls /\ \A c \in dials : Addressed(c)

PanesInv ==
  /\ connecting \subseteq Panes /\ sessions \subseteq Hosts
  /\ at \in [Panes -> Hosts \cup {Local}] /\ active \in Panes

\* The calls a pane waits for, and those the dialog waits for and will hear.
Dials(c, p) == c.pane = p /\ c.op \in {"nav", "dial"}
Frees(c) == c.heard /\ c.op \in Connects \cup {"pending", "recents"}
PanesWait == \A p \in connecting : \E c \in dials : Dials(c, p)
DialogWaits == form.busy => \E c \in dials : Frees(c)

IInv == DialogInv /\ CallsInv /\ PanesInv /\ PanesWait /\ DialogWaits

-----------------------------------------------------------------------------
\* Where Become takes the dialog, its request goes along.
LEMMA DialogBecomes ==
  ASSUME DialogInv, NEW d \in Form, NamesHost(d), Become(d), UNCHANGED covered
  PROVE  DialogInv'
<1>1. form' \in Form /\ NamesHost(form')
  BY DEF Become
<1>2. NamesHost(form)'
  BY <1>1 DEF NamesHost
<1>3. CASE form.mode = "password" /\ d.mode # "password"
  BY <1>1, <1>2, <1>3, FS_EmptySet DEF Become, DialogInv
<1>4. CASE ~(form.mode = "password" /\ d.mode # "password")
  BY <1>1, <1>2, <1>4 DEF Become, DialogInv
<1> QED
  BY <1>3, <1>4

\* An answer that asks for a password replaces the dialog and the request both.
LEMMA RequestBecomes ==
  ASSUME NEW r \in [pane : Panes, to : Hosts], form' \in Form, NamesHost(form)',
         covered \/ form'.mode = "password", request' = {r},
         covered \in BOOLEAN, UNCHANGED covered
  PROVE  DialogInv'
<1>1. Cardinality({r}) = 1
  BY FS_Singleton
<1> QED
  BY <1>1 DEF DialogInv

LEMMA DialogStays ==
  ASSUME DialogInv, UNCHANGED <<form, request, covered>>
  PROVE  DialogInv'
BY DEF DialogInv, NamesHost

\* The dialogs there are: each names a host where it has to.
LEMMA Dialogs ==
  /\ Closed \in Form /\ NamesHost(Closed) /\ ~Closed.busy /\ Closed.mode = "none"
  /\ \A m \in {"add", "add_smb", "add_mega", "ssh_config"} :
       Opened(m) \in Form /\ NamesHost(Opened(m)) /\ ~Opened(m).busy
  /\ \A h \in Hosts : /\ OpenPassword(h) \in Form /\ NamesHost(OpenPassword(h))
                      /\ ~OpenPassword(h).busy /\ OpenPassword(h).mode = "password"
BY DEF Closed, Opened, OpenPassword, Form, Modes, NamesHost

LEMMA DialogsAfter ==
  ASSUME form \in Form, NamesHost(form), NEW h \in Hosts
  PROVE  /\ OpenWorkdir(h) \in Form /\ NamesHost(OpenWorkdir(h)) /\ ~OpenWorkdir(h).busy
         /\ \A p \in {"share", "blank"} :
              /\ OpenShares(h, p) \in Form /\ NamesHost(OpenShares(h, p))
              /\ ~OpenShares(h, p).busy
         /\ NeedPassword \in Form /\ NamesHost(NeedPassword) /\ ~NeedPassword.busy
         /\ Unbusy \in Form /\ NamesHost(Unbusy) /\ ~Unbusy.busy
BY DEF OpenWorkdir, OpenShares, NeedPassword, Unbusy, Plain, Form, Modes, NamesHost

-----------------------------------------------------------------------------
\* A call sent leaves everybody the call he waits for.
LEMMA Sent ==
  ASSUME CallsInv, NEW c \in Calls, Addressed(c), Send(c)
  PROVE  /\ CallsInv' /\ c \in dials'
         /\ PanesWait /\ UNCHANGED connecting => PanesWait'
         /\ DialogWaits /\ (form'.busy => form.busy \/ Frees(c)) => DialogWaits'
<1>1. dials' = dials \cup {c}
  BY DEF Send
<1> QED
  BY <1>1 DEF CallsInv, PanesWait, DialogWaits

\* A call whose answer is taken is missed by those only who wait for it.
LEMMA Taken ==
  ASSUME CallsInv, NEW c \in dials, Took(c)
  PROVE  /\ CallsInv'
         /\ PanesWait /\ UNCHANGED connecting /\ c.op \notin {"nav", "dial"} => PanesWait'
         /\ PanesWait /\ connecting' = connecting \ {c.pane} => PanesWait'
         /\ DialogWaits /\ (form'.busy => form.busy /\ ~Frees(c)) => DialogWaits'
<1>1. dials' = dials \ {c}
  BY DEF Took
<1>2. CallsInv'
  BY <1>1 DEF CallsInv
<1>3. ASSUME PanesWait, UNCHANGED connecting, c.op \notin {"nav", "dial"} PROVE PanesWait'
  BY <1>1, <1>3 DEF PanesWait, Dials
<1>4. ASSUME PanesWait, connecting' = connecting \ {c.pane} PROVE PanesWait'
  BY <1>1, <1>4 DEF PanesWait, Dials
<1>5. ASSUME DialogWaits, form'.busy => form.busy /\ ~Frees(c) PROVE DialogWaits'
  BY <1>1, <1>5 DEF DialogWaits
<1> QED
  BY <1>2, <1>3, <1>4, <1>5

\* A call may be answered by the next one.
LEMMA Followed ==
  ASSUME CallsInv, NEW c \in dials, NEW e \in Calls, Addressed(e),
         dials' = (dials \ {c}) \cup {e}
  PROVE  /\ CallsInv' /\ e \in dials'
         /\ PanesWait /\ UNCHANGED connecting /\ (\A p : Dials(c, p) => Dials(e, p))
              => PanesWait'
         /\ DialogWaits /\ (form'.busy => form.busy /\ (Frees(c) => Frees(e)))
              => DialogWaits'
<1>1. CallsInv' /\ e \in dials'
  BY DEF CallsInv
<1>2. ASSUME PanesWait, UNCHANGED connecting, \A p : Dials(c, p) => Dials(e, p)
      PROVE  PanesWait'
  BY <1>1, <1>2 DEF PanesWait
<1>3. ASSUME DialogWaits, form'.busy => form.busy /\ (Frees(c) => Frees(e))
      PROVE  DialogWaits'
  BY <1>1, <1>3 DEF DialogWaits
<1> QED
  BY <1>1, <1>2, <1>3

LEMMA CallsStay ==
  ASSUME UNCHANGED dials
  PROVE  /\ CallsInv => CallsInv'
         /\ PanesWait /\ UNCHANGED connecting => PanesWait'
         /\ DialogWaits /\ (form'.busy => form.busy) => DialogWaits'
BY DEF CallsInv, PanesWait, DialogWaits

\* Where a pane lands is a host or the local disk.
LEMMA Lands ==
  ASSUME PanesInv, NEW p \in Panes, NEW h \in Hosts \cup {Local}, Land(p, h),
         connecting' \subseteq Panes, sessions' \subseteq Hosts, active' \in Panes
  PROVE  PanesInv'
BY DEF PanesInv, Land

LEMMA PanesStay ==
  ASSUME PanesInv, UNCHANGED at,
         connecting' \subseteq Panes, sessions' \subseteq Hosts, active' \in Panes
  PROVE  PanesInv'
BY DEF PanesInv

\* What the calls of each kind are made of.
LEMMA CallTypes ==
  ASSUME NEW op \in Connects \cup {"nav", "dial", "paths", "load", "remember", "recents", "pending"},
         NEW h \in Hosts \cup Files \cup {None}, NEW p \in Panes, NEW b \in BOOLEAN
  PROVE  /\ Call(op, h, p, b) \in Calls
         /\ Call(op, h, p, b).op = op /\ Call(op, h, p, b).to = h /\ Call(op, h, p, b).pane = p
         /\ Addressed(Call(op, h, p, b)) <=>
              (/\ op \notin {"paths", "load"} => h \in Hosts
               /\ op = "load" => h \in Files \cup {None})
BY DEF Call, Calls, Addressed

\* An answer is that of a call to a host from a pane.
LEMMA CallFields ==
  ASSUME CallsInv, NEW c \in dials
  PROVE  /\ c \in Calls /\ c.pane \in Panes /\ c.pass \in BOOLEAN /\ c.heard \in BOOLEAN
         /\ c.op \notin {"paths", "load"} => c.to \in Hosts
         /\ c.op = "load" => c.to \in Files \cup {None}
         /\ \A op \in Connects \cup {"nav", "dial", "recents"} :
              /\ [c EXCEPT !.op = op] \in Calls /\ [c EXCEPT !.op = op].op = op
              /\ [c EXCEPT !.op = op].to = c.to /\ [c EXCEPT !.op = op].pane = c.pane
              /\ [c EXCEPT !.op = op, !.pass = FALSE] \in Calls
              /\ [c EXCEPT !.op = op, !.pass = FALSE].op = op
              /\ [c EXCEPT !.op = op, !.pass = FALSE].to = c.to
              /\ [c EXCEPT !.op = op, !.pass = FALSE].pane = c.pane
              /\ [c EXCEPT !.op = op, !.pass = FALSE].heard = c.heard
BY DEF CallsInv, Calls, Addressed

\* A call nobody hears is the same call, but that it frees no dialog.
LEMMA UnheardFields ==
  ASSUME NEW c \in Calls
  PROVE  /\ Unheard(c) \in Calls /\ ~Unheard(c).heard /\ ~Frees(Unheard(c))
         /\ Unheard(c).op = c.op /\ Unheard(c).to = c.to /\ Unheard(c).pane = c.pane
         /\ Addressed(c) => Addressed(Unheard(c))
BY DEF Unheard, Calls, Addressed, Frees

-----------------------------------------------------------------------------
\* A step of the dialog alone does not make it busy.
LEMMA DialogStep ==
  ASSUME IInv, NEW d \in Form, NamesHost(d), Become(d), d.busy => form.busy,
         UNCHANGED <<connecting, sessions, at, active, covered, dials>>
  PROVE  IInv'
<1>1. UNCHANGED <<connecting, sessions, at, active, covered, dials>> /\ form' = d
  BY DEF Become
<1>2. DialogInv'
  BY DialogBecomes DEF IInv
<1>3. CallsInv' /\ PanesWait' /\ DialogWaits'
  BY <1>1, CallsStay DEF IInv
<1>4. PanesInv'
  BY <1>1 DEF IInv, PanesInv
<1> QED
  BY <1>2, <1>3, <1>4 DEF IInv

\* It becomes busy with the call that will free it.
LEMMA DialogSends ==
  ASSUME IInv, NEW d \in Form, NamesHost(d), Become(d),
         NEW c \in Calls, Addressed(c), Send(c), d.busy => form.busy \/ Frees(c),
         UNCHANGED <<connecting, sessions, at, active, covered>>
  PROVE  IInv'
<1>1. UNCHANGED <<connecting, sessions, at, active, covered>> /\ form' = d
  BY DEF Become
<1>2. DialogInv'
  BY DialogBecomes DEF IInv
<1>3. CallsInv' /\ PanesWait' /\ DialogWaits'
  BY <1>1, Sent DEF IInv
<1>4. PanesInv'
  BY <1>1 DEF IInv, PanesInv
<1> QED
  BY <1>2, <1>3, <1>4 DEF IInv

\* A dialog hears an answer as itself or as what the answer makes of it.
LEMMA Heard ==
  ASSUME IInv, NEW c \in dials, NEW x \in Form, NamesHost(x), Hears(c, x), UNCHANGED covered,
         x.busy => form.busy /\ ~Frees(c)
  PROVE  DialogInv' /\ (form'.busy => form.busy /\ ~Frees(c))
<1> DEFINE d == IF c.heard THEN x ELSE form
<1>1. form \in Form /\ NamesHost(form)
  BY DEF IInv, DialogInv
<1>2. d \in Form /\ NamesHost(d) /\ Become(d)
  BY <1>1 DEF Hears
<1>3. DialogInv' /\ form' = d
  BY <1>2, DialogBecomes DEF IInv, Become
<1>4. CASE c.heard
  BY <1>3, <1>4
<1>5. CASE ~c.heard
  BY <1>3, <1>5 DEF Frees
<1> QED
  BY <1>3, <1>4, <1>5

\* The answer that was to free it frees it.
LEMMA DialogTakes ==
  ASSUME IInv, NEW c \in dials, Took(c), c.op \notin {"nav", "dial"},
         NEW x \in Form, NamesHost(x), Hears(c, x), x.busy => form.busy /\ ~Frees(c),
         UNCHANGED <<connecting, sessions, at, active, covered>>
  PROVE  IInv'
<1>1. UNCHANGED <<connecting, sessions, at, active, covered>>
  OBVIOUS
<1>2. DialogInv' /\ (form'.busy => form.busy /\ ~Frees(c))
  BY <1>1, Heard
<1>3. CallsInv' /\ PanesWait' /\ DialogWaits'
  BY <1>1, <1>2, Taken DEF IInv
<1>4. PanesInv'
  BY <1>1 DEF IInv, PanesInv
<1> QED
  BY <1>2, <1>3, <1>4 DEF IInv

\* A way to a host that ends leaves no pane waiting for it, nor a dialog.
LEMMA DialEnds ==
  ASSUME IInv, NEW c \in dials, Ends(c), c.op \in {"nav", "dial"}, Hears(c, Unbusy),
         UNCHANGED covered
  PROVE  DialogInv' /\ CallsInv' /\ PanesWait' /\ DialogWaits'
<1>1. Took(c) /\ connecting' = connecting \ {c.pane} /\ ~Frees(c)
  BY DEF Ends, Frees, Connects
<1>2. Unbusy \in Form /\ NamesHost(Unbusy) /\ ~Unbusy.busy
  BY DEF IInv, DialogInv, Unbusy, Form, NamesHost
<1>3. DialogInv' /\ (form'.busy => form.busy /\ ~Frees(c))
  BY <1>2, Heard
<1>4. CallsInv' /\ PanesWait' /\ DialogWaits'
  BY <1>1, <1>3, Taken DEF IInv
<1> QED
  BY <1>3, <1>4

-----------------------------------------------------------------------------
\* A pane that is sent to a host waits for the call that was made for it.
LEMMA NavigateStep ==
  ASSUME IInv, NEW p \in Panes, NEW h \in Hosts \cup {Local}, Navigate(p, h)
  PROVE  IInv'
<1> DEFINE k == Call("nav", h, p, FALSE)
           c == Unheard(k)
<1>1. UNCHANGED <<form, request, sessions, active, covered>>
  BY DEF Navigate
<1>2. DialogInv'
  BY <1>1, DialogStays DEF IInv
<1>3. CASE h = Local
  <2>1. Land(p, Local) /\ UNCHANGED <<connecting, dials>>
    BY <1>3 DEF Navigate
  <2>2. PanesInv'
    BY <2>1, <1>1, Lands DEF IInv, PanesInv
  <2>3. CallsInv' /\ PanesWait' /\ DialogWaits'
    BY <2>1, <1>1, CallsStay DEF IInv
  <2> QED
    BY <1>2, <2>2, <2>3 DEF IInv
<1>4. CASE h # Local
  <2>1. Send(c) /\ connecting' = connecting \cup {p} /\ UNCHANGED at
    BY <1>4 DEF Navigate
  <2>2. c \in Calls /\ Addressed(c) /\ Dials(c, p) /\ ~Frees(c)
    <3>1. h \in Hosts /\ FALSE \in BOOLEAN
      BY <1>4
    <3>2. k \in Calls /\ k.op = "nav" /\ k.pane = p /\ Addressed(k)
      BY <3>1 DEF Call, Calls, Addressed
    <3>3. c \in Calls /\ c.op = "nav" /\ c.pane = p /\ Addressed(c) /\ ~Frees(c)
      BY <3>2, UnheardFields
    <3> QED
      BY <3>3 DEF Dials
  <2>3. PanesInv'
    BY <2>1, <1>1, PanesStay DEF IInv, PanesInv
  <2>4. CallsInv' /\ DialogWaits' /\ c \in dials'
    BY <2>1, <2>2, <1>1, Sent DEF IInv
  <2>5. dials \subseteq dials'
    BY <2>1 DEF Send
  <2>6. PanesWait'
    BY <2>1, <2>2, <2>4, <2>5 DEF IInv, PanesWait
  <2> QED
    BY <1>2, <2>3, <2>4, <2>6 DEF IInv
<1> QED
  BY <1>3, <1>4

LEMMA ReconnectStep == ASSUME IInv, NEW p \in Panes, Reconnect(p) PROVE IInv'
BY NavigateStep DEF Reconnect

\* The list of sessions is answered: the pane lands, or a dial follows.
LEMMA ListedStep == ASSUME IInv, NEW c \in dials, Listed(c) PROVE IInv'
<1>1. UNCHANGED <<sessions, active, covered>> /\ c.op = "nav"
  BY DEF Listed
<1>2. c \in Calls /\ c.pane \in Panes /\ c.to \in Hosts /\ ~Frees(c)
  BY <1>1, CallFields DEF IInv, Frees, Connects
<1>3. CASE c.to \in sessions
  <2>1. Ends(c) /\ Hears(c, Unbusy) /\ Land(c.pane, c.to)
    BY <1>3 DEF Listed
  <2>2. DialogInv' /\ CallsInv' /\ PanesWait' /\ DialogWaits'
    BY <2>1, <1>1, DialEnds
  <2>3. PanesInv'
    BY <2>1, <1>1, <1>2, Lands DEF IInv, PanesInv, Ends
  <2> QED
    BY <2>2, <2>3 DEF IInv
<1>4. CASE c.to \notin sessions
  <2> DEFINE e == [c EXCEPT !.op = "dial"]
  <2>1. dials' = (dials \ {c}) \cup {e} /\ UNCHANGED <<form, request, at, connecting>>
    BY <1>4 DEF Listed, GoesOn
  <2>2. e \in Calls /\ e.op = "dial" /\ e.to = c.to /\ e.pane = c.pane
    BY CallFields DEF IInv
  <2>3. Addressed(e) /\ \A p : Dials(c, p) => Dials(e, p)
    BY <2>2, <1>2 DEF Addressed, Dials
  <2>4. CallsInv' /\ PanesWait' /\ DialogWaits'
    BY <2>1, <2>2, <2>3, <1>1, <1>2, Followed DEF IInv
  <2>5. DialogInv'
    BY <2>1, <1>1, DialogStays DEF IInv
  <2>6. PanesInv'
    BY <2>1, <1>1, PanesStay DEF IInv, PanesInv
  <2> QED
    BY <2>4, <2>5, <2>6 DEF IInv
<1> QED
  BY <1>3, <1>4

\* A dial ends one way or another, and its pane stops waiting.
LEMMA DialedStep ==
  ASSUME IInv, NEW c \in dials, Dialed(c) \/ DialFails(c)
  PROVE  IInv'
<1>1. /\ UNCHANGED <<active, covered>> /\ Ends(c) /\ Hears(c, Unbusy)
      /\ connecting' = connecting \ {c.pane} /\ c.op \in {"nav", "dial"}
  BY DEF Dialed, DialFails, Ends
<1>2. c.pane \in Panes /\ c.to \in Hosts
  BY <1>1, CallFields DEF IInv
<1>3. DialogInv' /\ CallsInv' /\ PanesWait' /\ DialogWaits'
  BY <1>1, DialEnds
<1>4. CASE Dialed(c)
  <2>1. Land(c.pane, c.to) /\ sessions' \subseteq Hosts
    BY <1>4, <1>2 DEF Dialed, IInv, PanesInv
  <2> QED
    BY <2>1, <1>1, <1>2, <1>3, Lands DEF IInv, PanesInv
<1>5. CASE DialFails(c)
  <2>1. UNCHANGED <<sessions, at>>
    BY <1>5 DEF DialFails
  <2> QED
    BY <2>1, <1>1, <1>3, PanesStay DEF IInv, PanesInv
<1> QED
  BY <1>4, <1>5

\* A host that wants a password puts its request in the place of the last one,
\* and the menu that is there opens the dialog for it.
LEMMA AskPasswordStep == ASSUME IInv, NEW c \in dials, AskPassword(c) PROVE IInv'
<1>1. /\ UNCHANGED <<sessions, at, active, covered>> /\ Took(c) /\ c.op = "dial"
      /\ connecting' = connecting \ {c.pane}
      /\ form' = IF covered THEN form ELSE OpenPassword(c.to)
      /\ request' = {[pane |-> c.pane, to |-> c.to]}
  BY DEF AskPassword, Ends, Prompt
<1>2. /\ c.pane \in Panes /\ c.to \in Hosts /\ ~Frees(c)
      /\ form \in Form /\ NamesHost(form) /\ covered \in BOOLEAN
  BY <1>1, CallFields DEF IInv, DialogInv, Frees, Connects
<1>3. /\ OpenPassword(c.to) \in Form /\ NamesHost(OpenPassword(c.to))
      /\ ~OpenPassword(c.to).busy /\ OpenPassword(c.to).mode = "password"
  BY <1>2, Dialogs
<1>4. /\ form' \in Form /\ NamesHost(form)' /\ (covered \/ form'.mode = "password")
      /\ form'.busy => form.busy
      /\ [pane |-> c.pane, to |-> c.to] \in [pane : Panes, to : Hosts]
  BY <1>1, <1>2, <1>3 DEF NamesHost
<1>5. DialogInv'
  BY <1>1, <1>2, <1>4, RequestBecomes
<1>6. CallsInv' /\ PanesWait' /\ DialogWaits'
  BY <1>1, <1>2, <1>4, Taken DEF IInv
<1>7. PanesInv'
  BY <1>1, PanesStay DEF IInv, PanesInv
<1> QED
  BY <1>5, <1>6, <1>7 DEF IInv

-----------------------------------------------------------------------------
(* The editor.                                                               *)

\* Whoever waits for a pane waits on; the dialog that waited is gone.
LEMMA OpenEditorStep == ASSUME IInv, OpenEditor PROVE IInv'
<1>1. /\ covered' = TRUE /\ form' = Closed /\ dials' = {Unheard(c) : c \in dials}
      /\ UNCHANGED <<request, connecting, sessions, at, active>>
  BY DEF OpenEditor
<1>2. Closed \in Form /\ NamesHost(Closed) /\ ~Closed.busy
  BY Dialogs
<1>3. DialogInv'
  BY <1>1, <1>2 DEF IInv, DialogInv, NamesHost
<1>4. \A c \in dials : /\ Unheard(c) \in Calls /\ Addressed(Unheard(c))
                       /\ Unheard(c).op = c.op /\ Unheard(c).pane = c.pane
  BY UnheardFields DEF IInv, CallsInv
<1>5. CallsInv'
  BY <1>1, <1>4 DEF CallsInv
<1>6. PanesWait'
  <2> SUFFICES ASSUME NEW p \in connecting' PROVE \E e \in dials' : Dials(e, p)
    BY DEF PanesWait
  <2>1. PICK c \in dials : Dials(c, p)
    BY <1>1 DEF IInv, PanesWait
  <2>2. Unheard(c) \in dials' /\ Dials(Unheard(c), p)
    BY <2>1, <1>1, <1>4 DEF Dials
  <2> QED
    BY <2>2
<1>7. DialogWaits' /\ PanesInv'
  BY <1>1, <1>2 DEF DialogWaits, IInv, PanesInv
<1> QED
  BY <1>3, <1>5, <1>6, <1>7 DEF IInv

\* The menu that mounts opens the dialog of the request that stands.
LEMMA CloseEditorStep == ASSUME IInv, CloseEditor PROVE IInv'
<1>1. /\ covered' = FALSE /\ UNCHANGED <<request, connecting, sessions, at, active, dials>>
      /\ form' \in (IF request = {} THEN {Closed} ELSE {OpenPassword(r.to) : r \in request})
  BY DEF CloseEditor
<1>2. \A r \in request : r.to \in Hosts
  BY DEF IInv, DialogInv
<1>3. /\ form' \in Form /\ NamesHost(form') /\ ~form'.busy
      /\ request # {} => form'.mode = "password"
  BY <1>1, <1>2, Dialogs
<1>4. DialogInv'
  BY <1>1, <1>3 DEF IInv, DialogInv, NamesHost
<1>5. CallsInv' /\ PanesWait' /\ DialogWaits'
  BY <1>1, <1>3, CallsStay DEF IInv
<1>6. PanesInv'
  BY <1>1, PanesStay DEF IInv, PanesInv
<1> QED
  BY <1>4, <1>5, <1>6 DEF IInv

-----------------------------------------------------------------------------
(* The gestures in the dialog.                                               *)

LEMMA OpenStep == ASSUME IInv, OpenAdd \/ OpenAddSMB \/ OpenAddMEGA PROVE IInv'
<1>1. PICK m \in {"add", "add_smb", "add_mega"} : Open(m)
  BY DEF OpenAdd, OpenAddSMB, OpenAddMEGA
<1>2. Opened(m) \in Form /\ NamesHost(Opened(m)) /\ ~Opened(m).busy
  BY Dialogs
<1> QED
  BY <1>1, <1>2, DialogStep DEF Open

LEMMA CloseStep == ASSUME IInv, Close PROVE IInv'
BY Dialogs, DialogStep DEF Close

\* What is typed, named or chosen leaves the dialog as busy as it was.
LEMMA EnterStep ==
  ASSUME IInv, \/ \E h \in Hosts : EnterSpec(h) \/ EnterSMB(h) \/ EnterMEGA(h)
               \/ \E f \in Files : EnterFile(f)
               \/ EnterPassword \/ SubmitSMB
  PROVE  IInv'
<1>1. form \in Form /\ NamesHost(form)
  BY DEF IInv, DialogInv
<1>2. CASE \E h \in Hosts : EnterSpec(h) \/ EnterSMB(h) \/ EnterMEGA(h)
  <2>1. PICK h \in Hosts : EnterSpec(h) \/ EnterSMB(h) \/ EnterMEGA(h)
    BY <1>2
  <2> DEFINE d == [form EXCEPT !.to = h]
  <2>2. d \in Form /\ NamesHost(d) /\ d.busy = form.busy
    BY <1>1 DEF Form, NamesHost
  <2>3. Become(d) /\ UNCHANGED <<connecting, sessions, at, active, covered, dials>>
    BY <2>1 DEF EnterSpec, EnterSMB, EnterMEGA, Enter
  <2> QED
    BY <2>2, <2>3, DialogStep
<1>3. CASE \E f \in Files : EnterFile(f)
  <2>1. PICK f \in Files : EnterFile(f)
    BY <1>3
  <2> DEFINE d == [form EXCEPT !.file = f, !.hosts = None]
  <2>2. d \in Form /\ NamesHost(d) /\ d.busy = form.busy
    BY <1>1 DEF Form, NamesHost
  <2>3. Become(d) /\ UNCHANGED <<connecting, sessions, at, active, covered, dials>>
    BY <2>1 DEF EnterFile
  <2> QED
    BY <2>2, <2>3, DialogStep
<1>4. CASE EnterPassword
  <2> DEFINE d == [form EXCEPT !.typed = ~@]
  <2>1. d \in Form /\ NamesHost(d) /\ d.busy = form.busy
    BY <1>1 DEF Form, NamesHost
  <2>2. Become(d) /\ UNCHANGED <<connecting, sessions, at, active, covered, dials>>
    BY <1>4 DEF EnterPassword
  <2> QED
    BY <2>1, <2>2, DialogStep
<1>5. CASE SubmitSMB
  <2> DEFINE d == [form EXCEPT !.mode = "smb_confirm"]
  <2>1. form.to \in Hosts
    BY <1>1, <1>5 DEF SubmitSMB, CanConnect, FormOk, Form
  <2>2. d \in Form /\ NamesHost(d) /\ d.busy = form.busy
    BY <1>1, <2>1 DEF Form, Modes, NamesHost
  <2>3. Become(d) /\ UNCHANGED <<connecting, sessions, at, active, covered, dials>>
    BY <1>5 DEF SubmitSMB
  <2> QED
    BY <2>2, <2>3, DialogStep
<1> QED
  BY <1>2, <1>3, <1>4, <1>5

LEMMA ChooseStep ==
  ASSUME IInv, (\E p : ChooseWorkdir(p) \/ ChooseShare(p)) \/ ForgetRecent
  PROVE  IInv'
<1>1. form \in Form /\ NamesHost(form)
  BY DEF IInv, DialogInv
<1>2. PICK p \in {"home", "recent", "custom", "blank", "share"} :
        /\ Become([form EXCEPT !.pick = p])
        /\ UNCHANGED <<connecting, sessions, at, active, covered, dials>>
  BY DEF ChooseWorkdir, ChooseShare, ForgetRecent
<1> DEFINE d == [form EXCEPT !.pick = p]
<1>3. d \in Form /\ NamesHost(d) /\ d.busy = form.busy
  BY <1>1 DEF Form, NamesHost
<1> QED
  BY <1>2, <1>3, DialogStep

\* The SSH config is proposed and read.
LEMMA ConfigStep == ASSUME IInv, OpenSSHConfig \/ LoadSSHConfig PROVE IInv'
<1>1. form \in Form /\ NamesHost(form) /\ active \in Panes /\ FALSE \in BOOLEAN
  BY DEF IInv, DialogInv, PanesInv
<1>2. CASE OpenSSHConfig
  <2> DEFINE c == Call("paths", None, active, FALSE)
  <2>1. c \in Calls /\ Addressed(c)
    BY <1>1, CallTypes
  <2>2. /\ Opened("ssh_config") \in Form /\ NamesHost(Opened("ssh_config"))
        /\ ~Opened("ssh_config").busy
    BY Dialogs
  <2>3. Become(Opened("ssh_config")) /\ Send(c) /\ UNCHANGED <<connecting, sessions, at, active, covered>>
    BY <1>2 DEF OpenSSHConfig
  <2> QED
    BY <2>1, <2>2, <2>3, DialogSends
<1>3. CASE LoadSSHConfig
  <2> DEFINE c == Call("load", form.file, active, FALSE)
             d == [form EXCEPT !.loading = TRUE]
  <2>1. form.file \in Files \cup {None}
    BY <1>1 DEF Form
  <2>2. c \in Calls /\ Addressed(c)
    BY <1>1, <2>1, CallTypes
  <2>3. d \in Form /\ NamesHost(d) /\ d.busy = form.busy
    BY <1>1 DEF Form, NamesHost
  <2>4. Become(d) /\ Send(c) /\ UNCHANGED <<connecting, sessions, at, active, covered>>
    BY <1>3 DEF LoadSSHConfig
  <2> QED
    BY <2>2, <2>3, <2>4, DialogSends
<1> QED
  BY <1>2, <1>3

\* Whatever is submitted makes the dialog busy with a call that frees it.
LEMMA SubmitsStep ==
  ASSUME IInv, NEW op \in Connects, NEW h \in Hosts, Submit(op, h)
  PROVE  IInv'
<1> DEFINE pass == form.typed /\ op \in Asks
           c == Call(op, h, active, pass)
           d == [form EXCEPT !.busy = TRUE]
<1>1. form \in Form /\ NamesHost(form) /\ active \in Panes
  BY DEF IInv, DialogInv, PanesInv
<1>2. d \in Form /\ NamesHost(d) /\ pass \in BOOLEAN
  BY <1>1 DEF Form, NamesHost
<1>3. c \in Calls /\ c.op = op /\ Addressed(c)
  <2>1. \A b \in BOOLEAN : LET k == Call(op, h, active, b)
                          IN  k \in Calls /\ k.op = op /\ Addressed(k)
    BY <1>1, CallTypes DEF Connects
  <2> HIDE DEF pass
  <2> QED
    BY <1>2, <2>1
<1>4. Frees(c)
  <2>1. c.heard
    BY DEF Call
  <2> QED
    BY <1>3, <2>1 DEF Frees
<1>5. Become(d) /\ Send(c) /\ UNCHANGED <<connecting, sessions, at, active, covered>>
  BY DEF Submit
<1> QED
  BY <1>2, <1>3, <1>4, <1>5, DialogSends

LEMMA SubmitStep ==
  ASSUME IInv, SubmitConfig \/ SubmitAdd \/ SubmitMEGA \/ SubmitConfirm
  PROVE  IInv'
<1>1. form.to \in Hosts \cup {None} /\ (form.mode = "smb_confirm" => form.to \in Hosts)
  BY DEF IInv, DialogInv, Form, NamesHost
<1>2. form.to \in Hosts
  BY <1>1 DEF SubmitConfig, SubmitAdd, SubmitMEGA, SubmitConfirm, CanConnect, FormOk
<1>3. \E op \in Connects : Submit(op, form.to)
  BY DEF SubmitConfig, SubmitAdd, SubmitMEGA, SubmitConfirm, Connects
<1> QED
  BY <1>2, <1>3, SubmitsStep

LEMMA PickHostStep == ASSUME IInv, NEW h \in Hosts, PickHost(h) PROVE IInv'
<1> DEFINE c == Call("config", h, active, FALSE)
           d == [form EXCEPT !.to = h, !.busy = TRUE]
<1>1. form \in Form /\ NamesHost(form) /\ active \in Panes /\ FALSE \in BOOLEAN
  BY DEF IInv, DialogInv, PanesInv
<1>2. d \in Form /\ NamesHost(d)
  BY <1>1 DEF Form, NamesHost
<1>3. "config" \in Connects
  BY DEF Connects
<1>4. c \in Calls /\ c.op = "config" /\ Addressed(c)
  BY <1>1, <1>3, CallTypes
<1>5. Frees(c)
  <2>1. c.heard
    BY DEF Call
  <2> QED
    BY <1>3, <1>4, <2>1 DEF Frees
<1>6. Become(d) /\ Send(c) /\ UNCHANGED <<connecting, sessions, at, active, covered>>
  BY DEF PickHost
<1> QED
  BY <1>2, <1>4, <1>5, <1>6, DialogSends

\* A password goes to the host of the request, or else to the dialog's.
LEMMA SubmitPasswordStep == ASSUME IInv, SubmitPassword PROVE IInv'
<1>1. /\ form \in Form /\ NamesHost(form) /\ active \in Panes
      /\ request \subseteq [pane : Panes, to : Hosts]
  BY DEF IInv, DialogInv, PanesInv
<1>2. CASE request = {}
  <2>1. form.to \in Hosts /\ "profile" \in Connects /\ "spec" \in Connects
    BY <1>1 DEF SubmitPassword, NamesHost, Connects
  <2>2. Submit("profile", form.to) \/ Submit("spec", form.to)
    BY <1>2 DEF SubmitPassword
  <2> QED
    BY <2>1, <2>2, SubmitsStep
<1>3. CASE request # {}
  <2>1. PICK r \in request :
          /\ Become([form EXCEPT !.busy = TRUE])
          /\ Send(Call("pending", r.to, r.pane, TRUE))
          /\ UNCHANGED <<connecting, sessions, at, active, covered>>
    BY <1>3 DEF SubmitPassword
  <2> DEFINE c == Call("pending", r.to, r.pane, TRUE)
             d == [form EXCEPT !.busy = TRUE]
  <2>2. r.to \in Hosts /\ r.pane \in Panes /\ TRUE \in BOOLEAN
    BY <1>1
  <2>3. c \in Calls /\ c.op = "pending" /\ Addressed(c)
    BY <2>2, CallTypes
  <2>4. Frees(c)
    <3>1. c.heard
      BY DEF Call
    <3> QED
      BY <2>3, <3>1 DEF Frees
  <2>5. d \in Form /\ NamesHost(d)
    BY <1>1 DEF Form, NamesHost
  <2> QED
    BY <2>1, <2>3, <2>4, <2>5, DialogSends
<1> QED
  BY <1>2, <1>3

-----------------------------------------------------------------------------
(* The folder or share is chosen, at once or once it is saved.               *)

\* The dialog closes over the pane it has sent to a host.
LEMMA ArriveStep ==
  ASSUME IInv, NEW c \in dials, c.pane \in Panes, c.to \in Hosts, Arrive(c),
         sessions' \subseteq Hosts, UNCHANGED <<connecting, active, covered>>
  PROVE  DialogInv' /\ PanesInv' /\ (form'.busy => form.busy /\ ~Frees(c))
<1>1. Closed \in Form /\ NamesHost(Closed) /\ ~Closed.busy
  BY Dialogs
<1>2. Land(c.pane, c.to) /\ Hears(c, Closed)
  BY DEF Arrive
<1>3. DialogInv' /\ (form'.busy => form.busy /\ ~Frees(c))
  BY <1>1, <1>2, Heard
<1> QED
  BY <1>2, <1>3, Lands DEF IInv, PanesInv

LEMMA OpenCloudStep == ASSUME IInv, OpenCloud PROVE IInv'
<1>1. /\ Land(active, Local) /\ active \in Panes
      /\ UNCHANGED <<form, request, connecting, sessions, active, covered, dials>>
  BY DEF OpenCloud, IInv, PanesInv
<1>2. DialogInv' /\ CallsInv' /\ PanesWait' /\ DialogWaits'
  BY <1>1, DialogStays, CallsStay DEF IInv
<1>3. PanesInv'
  BY <1>1, Lands DEF IInv, PanesInv
<1> QED
  BY <1>2, <1>3 DEF IInv

LEMMA ConfirmStep ==
  ASSUME IInv, NEW b \in BOOLEAN, ConfirmWorkdir(b) \/ ConfirmSMBShare(b)
  PROVE  IInv'
<1>1. /\ form \in Form /\ form.to \in Hosts /\ active \in Panes
      /\ UNCHANGED <<connecting, sessions, active, covered>> /\ OpenChosen(b)
  BY DEF ConfirmWorkdir, ConfirmSMBShare, OpenChosen, IInv, DialogInv, PanesInv, NamesHost
<1>2. CASE b
  <2> DEFINE c == Call("remember", form.to, active, FALSE)
  <2>1. Send(c) /\ UNCHANGED <<form, request, at>>
    BY <1>1, <1>2 DEF OpenChosen
  <2>2. c \in Calls /\ Addressed(c)
    BY <1>1, CallTypes
  <2>3. CallsInv' /\ PanesWait' /\ DialogWaits'
    BY <2>1, <2>2, <1>1, Sent DEF IInv
  <2>4. DialogInv' /\ PanesInv'
    BY <2>1, <1>1, DialogStays, PanesStay DEF IInv, PanesInv
  <2> QED
    BY <2>3, <2>4 DEF IInv
<1>3. CASE ~b
  <2>1. Land(active, form.to) /\ Become(Closed) /\ UNCHANGED dials
    BY <1>1, <1>3 DEF OpenChosen, Arrive, Hears
  <2>2. Closed \in Form /\ NamesHost(Closed) /\ ~Closed.busy
    BY Dialogs
  <2>3. DialogInv' /\ ~form'.busy
    BY <2>1, <2>2, <1>1, DialogBecomes DEF IInv, Become
  <2>4. PanesInv'
    BY <2>1, <1>1, Lands DEF IInv, PanesInv
  <2>5. CallsInv' /\ PanesWait' /\ DialogWaits'
    BY <2>1, <2>3, <1>1, CallsStay DEF IInv
  <2> QED
    BY <2>3, <2>4, <2>5 DEF IInv
<1> QED
  BY <1>2, <1>3

LEMMA RememberedStep == ASSUME IInv, NEW c \in dials, Remembered(c) PROVE IInv'
<1>1. /\ c.op = "remember" /\ Took(c) /\ Arrive(c)
      /\ UNCHANGED <<connecting, sessions, active, covered>>
  BY DEF Remembered
<1>2. c.pane \in Panes /\ c.to \in Hosts
  BY <1>1, CallFields DEF IInv
<1>3. DialogInv' /\ PanesInv' /\ (form'.busy => form.busy /\ ~Frees(c))
  BY <1>1, <1>2, ArriveStep DEF IInv, PanesInv
<1>4. CallsInv' /\ PanesWait' /\ DialogWaits'
  BY <1>1, <1>3, Taken DEF IInv
<1> QED
  BY <1>3, <1>4 DEF IInv

-----------------------------------------------------------------------------
(* The menu, and what is answered to the dialog.                             *)

LEMMA MenuStep ==
  ASSUME IInv, \/ \E h \in Hosts : MenuConnect(h) \/ Disconnect(h)
               \/ \E p \in Panes : Activate(p)
  PROVE  IInv'
<1>1. UNCHANGED <<form, request, connecting, at, covered>>
  BY DEF MenuConnect, Disconnect, Activate
<1>2. DialogInv' /\ active \in Panes /\ FALSE \in BOOLEAN
  BY <1>1, DialogStays DEF IInv, PanesInv
<1>3. CASE \E h \in Hosts : MenuConnect(h)
  <2>1. PICK h \in Hosts : MenuConnect(h)
    BY <1>3
  <2> DEFINE c == Call("profile", h, active, FALSE)
  <2>2. c \in Calls /\ Addressed(c)
    <3>1. "profile" \in Connects
      BY DEF Connects
    <3> QED
      BY <3>1, <1>2, CallTypes
  <2>3. Send(c) /\ UNCHANGED <<sessions, active>>
    BY <2>1 DEF MenuConnect
  <2>4. CallsInv' /\ PanesWait' /\ DialogWaits'
    BY <2>2, <2>3, <1>1, Sent DEF IInv
  <2> QED
    BY <1>1, <1>2, <2>3, <2>4, PanesStay DEF IInv, PanesInv
<1>4. CASE (\E h \in Hosts : Disconnect(h)) \/ \E p \in Panes : Activate(p)
  <2>1. UNCHANGED dials /\ sessions' \subseteq Hosts /\ active' \in Panes
    BY <1>4 DEF Disconnect, Activate, IInv, PanesInv
  <2>2. CallsInv' /\ PanesWait' /\ DialogWaits'
    BY <2>1, <1>1, CallsStay DEF IInv
  <2> QED
    BY <1>1, <1>2, <2>1, <2>2, PanesStay DEF IInv, PanesInv
<1> QED
  BY <1>3, <1>4

\* What is read of the SSH config goes into whatever the dialog is by then.
LEMMA ConfigAnswerStep ==
  ASSUME IInv, NEW c \in dials,
         HostsLoaded(c) \/ LoadFails(c) \/ \E f \in Files \cup {None} : PathsAnswered(c, f)
  PROVE  IInv'
<1>1. form \in Form /\ NamesHost(form)
  BY DEF IInv, DialogInv
<1>2. Took(c) /\ UNCHANGED <<connecting, sessions, at, active, covered>> /\ c.op \in {"paths", "load"}
  BY DEF HostsLoaded, LoadFails, PathsAnswered
<1>3. c.op \notin {"nav", "dial"} /\ ~Frees(c)
  BY <1>2 DEF Frees, Connects
<1>4. CASE HostsLoaded(c)
  <2> DEFINE d == IF form.mode # "ssh_config" THEN form
                  ELSE [form EXCEPT !.hosts = c.to, !.loading = FALSE]
  <2>1. c.to \in Files \cup {None}
    BY <1>4, CallFields DEF IInv, HostsLoaded
  <2>2. d \in Form /\ NamesHost(d) /\ d.busy = form.busy
    BY <1>1, <2>1 DEF Form, NamesHost
  <2>3. Hears(c, d)
    BY <1>4 DEF HostsLoaded
  <2> QED
    BY <2>2, <2>3, <1>2, <1>3, DialogTakes
<1>5. CASE LoadFails(c)
  <2>1. Unbusy \in Form /\ NamesHost(Unbusy) /\ ~Unbusy.busy
    BY <1>1 DEF Unbusy, Form, NamesHost
  <2>2. Hears(c, Unbusy)
    BY <1>5 DEF LoadFails
  <2> QED
    BY <2>1, <2>2, <1>2, <1>3, DialogTakes
<1>6. CASE \E f \in Files \cup {None} : PathsAnswered(c, f)
  <2>1. PICK f \in Files \cup {None} : PathsAnswered(c, f)
    BY <1>6
  <2> DEFINE d == IF f = None \/ form.mode # "ssh_config" THEN form
                  ELSE [form EXCEPT !.file = f, !.hosts = None]
  <2>2. d \in Form /\ NamesHost(d) /\ d.busy = form.busy
    BY <1>1 DEF Form, NamesHost
  <2>3. Hears(c, d)
    BY <2>1 DEF PathsAnswered
  <2> QED
    BY <2>2, <2>3, <1>2, <1>3, DialogTakes
<1> QED
  BY <1>4, <1>5, <1>6

\* However an attempt fails, the dialog it leaves is not busy.
LEMMA FailStep ==
  ASSUME IInv, NEW c \in dials, AuthFails(c) \/ ConnectFails(c)
  PROVE  IInv'
<1>1. form \in Form /\ NamesHost(form)
  BY DEF IInv, DialogInv
<1>2. /\ Took(c) /\ UNCHANGED <<connecting, sessions, at, active, covered>>
      /\ c.op \in Connects \cup {"pending"}
  BY DEF AuthFails, ConnectFails
<1>3. c.op \notin {"nav", "dial", "paths", "load"}
  BY <1>2 DEF Connects
<1>4. c.to \in Hosts
  BY <1>3, CallFields DEF IInv
<1>5. CASE AuthFails(c)
  <2> DEFINE d == AfterRefusal(c)
             e == [Plain EXCEPT !.mode = "add_smb", !.busy = FALSE]
  <2>1. e \in Form /\ NamesHost(e) /\ ~e.busy
    BY <1>1 DEF Plain, Form, Modes, NamesHost
  <2>2. d \in {OpenPassword(c.to), NeedPassword, e, Unbusy}
    BY DEF AfterRefusal
  <2>3. \A f \in {OpenPassword(c.to), NeedPassword, e, Unbusy} :
          f \in Form /\ NamesHost(f) /\ ~f.busy
    BY <2>1, <1>1, <1>4, Dialogs, DialogsAfter
  <2>4. Hears(c, d)
    BY <1>5 DEF AuthFails
  <2> QED
    BY <2>2, <2>3, <2>4, <1>2, <1>3, DialogTakes
<1>6. CASE ConnectFails(c)
  <2>1. Hears(c, Unbusy)
    BY <1>6 DEF ConnectFails
  <2> QED
    BY <2>1, <1>1, <1>2, <1>3, <1>4, DialogsAfter, DialogTakes
<1> QED
  BY <1>5, <1>6

LEMMA RecentsStep == ASSUME IInv, NEW c \in dials, RecentsAnswered(c) PROVE IInv'
<1>1. /\ c.op = "recents" /\ Took(c) /\ Hears(c, OpenWorkdir(c.to))
      /\ UNCHANGED <<connecting, sessions, at, active, covered>>
  BY DEF RecentsAnswered
<1>2. c.to \in Hosts /\ c.op \notin {"nav", "dial"} /\ form \in Form /\ NamesHost(form)
  BY <1>1, CallFields DEF IInv, DialogInv
<1> QED
  BY <1>1, <1>2, DialogsAfter, DialogTakes

\* After a connection the dialog asks on, with a call that keeps it busy, or not.
LEMMA ConnectedStep ==
  ASSUME IInv, NEW c \in dials, NEW b \in BOOLEAN, Connected(c, b)
  PROVE  IInv'
<1>1. /\ c.op \in Connects /\ sessions' = sessions \cup {c.to}
      /\ UNCHANGED <<connecting, active, covered>>
  BY DEF Connected
<1>2. c.op \notin {"nav", "dial", "paths", "load"}
  BY <1>1 DEF Connects
<1>3. /\ c.pane \in Panes /\ c.to \in Hosts /\ form \in Form /\ NamesHost(form)
      /\ sessions' \subseteq Hosts
  BY <1>1, <1>2, CallFields DEF IInv, DialogInv, PanesInv
<1>4. CASE /\ GoesOn(c, [c EXCEPT !.op = "recents", !.pass = FALSE])
           /\ UNCHANGED <<form, request, at>>
  <2> DEFINE e == [c EXCEPT !.op = "recents", !.pass = FALSE]
  <2>1. /\ e \in Calls /\ e.op = "recents" /\ e.to = c.to /\ e.heard = c.heard
        /\ dials' = (dials \ {c}) \cup {e}
    BY <1>4, CallFields DEF IInv, GoesOn
  <2>2. Addressed(e) /\ (Frees(c) => Frees(e)) /\ \A p : Dials(c, p) => Dials(e, p)
    BY <2>1, <1>2, <1>3 DEF Addressed, Frees, Dials
  <2>3. CallsInv' /\ PanesWait' /\ DialogWaits'
    BY <2>1, <2>2, <1>1, <1>4, Followed DEF IInv
  <2>4. DialogInv' /\ PanesInv'
    BY <1>1, <1>3, <1>4, DialogStays, PanesStay DEF IInv, PanesInv
  <2> QED
    BY <2>3, <2>4 DEF IInv
<1>5. CASE Took(c) /\ (\E p \in {"share", "blank"} : Hears(c, OpenShares(c.to, p))) /\ UNCHANGED at
  <2>1. PICK p \in {"share", "blank"} : Hears(c, OpenShares(c.to, p))
    BY <1>5
  <2>2. /\ OpenShares(c.to, p) \in Form /\ NamesHost(OpenShares(c.to, p))
        /\ ~OpenShares(c.to, p).busy
    BY <1>3, DialogsAfter
  <2>3. DialogInv' /\ (form'.busy => form.busy /\ ~Frees(c))
    BY <2>1, <2>2, <1>1, Heard
  <2>4. CallsInv' /\ PanesWait' /\ DialogWaits'
    BY <2>3, <1>1, <1>2, <1>5, Taken DEF IInv
  <2>5. PanesInv'
    BY <1>1, <1>3, <1>5, PanesStay DEF IInv, PanesInv
  <2> QED
    BY <2>3, <2>4, <2>5 DEF IInv
<1>6. CASE Took(c) /\ Arrive(c)
  <2>1. DialogInv' /\ PanesInv' /\ (form'.busy => form.busy /\ ~Frees(c))
    BY <1>1, <1>3, <1>6, ArriveStep
  <2>2. CallsInv' /\ PanesWait' /\ DialogWaits'
    BY <2>1, <1>1, <1>2, <1>6, Taken DEF IInv
  <2> QED
    BY <2>1, <2>2 DEF IInv
<1> QED
  BY <1>4, <1>5, <1>6 DEF Connected

\* A pending attempt that succeeds gives its pane a call to wait for.
LEMMA PendingStep == ASSUME IInv, NEW c \in dials, PendingConnected(c) PROVE IInv'
<1> DEFINE e == [c EXCEPT !.op = "nav", !.pass = FALSE]
<1>1. /\ c.op = "pending" /\ sessions' = sessions \cup {c.to}
      /\ form' = (IF c.heard THEN Closed ELSE form) /\ request' = {}
      /\ connecting' = connecting \cup {c.pane}
      /\ dials' = (dials \ {c}) \cup {e} /\ UNCHANGED <<at, active, covered>>
  BY DEF PendingConnected, GoesOn
<1>2. /\ c.pane \in Panes /\ c.to \in Hosts /\ e \in Calls /\ e.op = "nav"
      /\ e.to = c.to /\ e.pane = c.pane
  BY <1>1, CallFields DEF IInv
<1>3. Addressed(e)
  BY <1>2 DEF Addressed
<1>4. Closed \in Form /\ NamesHost(Closed) /\ ~Closed.busy
  BY Dialogs
<1>5. /\ form' \in Form /\ NamesHost(form') /\ covered \in BOOLEAN
      /\ form'.busy => form.busy /\ ~Frees(c)
  BY <1>1, <1>4 DEF IInv, DialogInv, Frees
<1>6. DialogInv'
  BY <1>1, <1>5, FS_EmptySet DEF DialogInv, NamesHost
<1>7. CallsInv' /\ DialogWaits' /\ e \in dials'
  BY <1>1, <1>2, <1>3, <1>5, Followed DEF IInv
<1>8. \A p \in connecting : \E d \in dials' : Dials(d, p)
  BY <1>1 DEF IInv, PanesWait, Dials
<1>9. PanesWait'
  BY <1>1, <1>2, <1>7, <1>8 DEF PanesWait, Dials
<1>10. PanesInv'
  BY <1>1, <1>2, PanesStay DEF IInv, PanesInv
<1> QED
  BY <1>6, <1>7, <1>9, <1>10 DEF IInv

-----------------------------------------------------------------------------
LEMMA InitIInv == Init => IInv
<1> SUFFICES ASSUME Init PROVE IInv
  OBVIOUS
<1>1. Closed \in Form /\ NamesHost(Closed) /\ ~Closed.busy
  BY Dialogs
<1>2. DialogInv
  <2>1. form = Closed /\ request = {} /\ covered = FALSE
    BY DEF Init
  <2>2. covered \in BOOLEAN /\ Cardinality(request) = 0
    BY <2>1, FS_EmptySet
  <2> QED
    BY <1>1, <2>1, <2>2 DEF DialogInv
<1>3. CallsInv /\ PanesInv /\ PanesWait /\ DialogWaits
  BY <1>1 DEF Init, CallsInv, PanesInv, PanesWait, DialogWaits
<1> QED
  BY <1>2, <1>3 DEF IInv

LEMMA GestureStep == ASSUME IInv, Gestures PROVE IInv'
<1>1. CASE \E p \in Panes : (\E h \in Hosts \cup {Local} : Navigate(p, h)) \/ Reconnect(p) \/ Activate(p)
  BY <1>1, NavigateStep, ReconnectStep, MenuStep
<1>2. CASE \E h \in Hosts : MenuConnect(h) \/ Disconnect(h)
  BY <1>2, MenuStep
<1>3. CASE \E h \in Hosts : PickHost(h)
  BY <1>3, PickHostStep
<1>4. CASE \/ \E h \in Hosts : EnterSpec(h) \/ EnterSMB(h) \/ EnterMEGA(h)
           \/ \E f \in Files : EnterFile(f)
           \/ EnterPassword \/ SubmitSMB
  BY <1>4, EnterStep
<1>5. CASE OpenAdd \/ OpenAddSMB \/ OpenAddMEGA \/ OpenCloud \/ Close
  BY <1>5, OpenStep, OpenCloudStep, CloseStep
<1>6. CASE OpenSSHConfig \/ LoadSSHConfig
  BY <1>6, ConfigStep
<1>7. CASE SubmitConfig \/ SubmitAdd \/ SubmitMEGA \/ SubmitConfirm \/ SubmitPassword
  BY <1>7, SubmitStep, SubmitPasswordStep
<1>8. CASE \/ \E p \in {"home", "recent", "custom", "blank", "share"} : ChooseWorkdir(p) \/ ChooseShare(p)
           \/ ForgetRecent
  BY <1>8, ChooseStep
<1>9. CASE \E b \in BOOLEAN : ConfirmWorkdir(b) \/ ConfirmSMBShare(b)
  BY <1>9, ConfirmStep
<1>10. CASE OpenEditor \/ CloseEditor
  BY <1>10, OpenEditorStep, CloseEditorStep
<1> QED
  BY <1>1, <1>2, <1>3, <1>4, <1>5, <1>6, <1>7, <1>8, <1>9, <1>10 DEF Gestures

LEMMA AnswerStep == ASSUME IInv, Answers PROVE IInv'
<1>1. PICK c \in dials :
        \/ Listed(c) \/ Dialed(c) \/ DialFails(c) \/ AskPassword(c)
        \/ \E f \in Files \cup {None} : PathsAnswered(c, f)
        \/ HostsLoaded(c) \/ LoadFails(c) \/ Remembered(c)
        \/ \E b \in BOOLEAN : Connected(c, b)
        \/ RecentsAnswered(c) \/ PendingConnected(c) \/ AuthFails(c) \/ ConnectFails(c)
  BY DEF Answers
<1>2. CASE Listed(c) \/ Dialed(c) \/ DialFails(c) \/ AskPassword(c)
  BY <1>2, ListedStep, DialedStep, AskPasswordStep
<1>3. CASE (\E f \in Files \cup {None} : PathsAnswered(c, f)) \/ HostsLoaded(c) \/ LoadFails(c)
  BY <1>3, ConfigAnswerStep
<1>4. CASE \E b \in BOOLEAN : Connected(c, b)
  BY <1>4, ConnectedStep
<1>5. CASE Remembered(c) \/ RecentsAnswered(c) \/ PendingConnected(c)
  BY <1>5, RememberedStep, RecentsStep, PendingStep
<1>6. CASE AuthFails(c) \/ ConnectFails(c)
  BY <1>6, FailStep
<1> QED
  BY <1>1, <1>2, <1>3, <1>4, <1>5, <1>6

LEMMA StepIInv == IInv /\ [Next]_vars => IInv'
<1> SUFFICES ASSUME IInv, [Next]_vars PROVE IInv'
  OBVIOUS
<1>1. CASE Next
  BY <1>1, GestureStep, AnswerStep DEF Next
<1>2. CASE UNCHANGED vars
  <2>1. UNCHANGED <<form, request, connecting, sessions, at, active, covered, dials>>
    BY <1>2 DEF vars
  <2>2. DialogInv' /\ CallsInv' /\ PanesWait' /\ DialogWaits'
    BY <2>1, DialogStays, CallsStay DEF IInv
  <2> QED
    BY <2>1, <2>2, PanesStay DEF IInv, PanesInv
<1> QED
  BY <1>1, <1>2

LEMMA Inductive == Spec => []IInv
BY InitIInv, StepIInv, PTL DEF Spec

\* The dialog, the panes and the calls are what they should be, and there is
\* never more than one request for a password (connectRequestStore.ts:16).
THEOREM TypeCorrect == Spec => []TypeOK
<1>1. IInv => TypeOK
  BY DEF IInv, DialogInv, CallsInv, PanesInv, TypeOK
<1> QED
  BY <1>1, Inductive, PTL

\* However calls are answered, whatever the dialog has become by then and however
\* often the editor takes the menu away, a request for a password has its dialog
\* whenever the menu is there (useConnections.ts:311, :326), a pane that shows it
\* is connecting its call (navigate.ts:73) and a busy dialog a call whose answer
\* the menu hears and is freed by (useConnections.ts:495).
THEOREM NobodyWaits == Spec => []NobodyWaitsForNothing
<1>1. IInv => NobodyWaitsForNothing
  BY DEF IInv, DialogInv, PanesWait, DialogWaits, Dials, Frees, NobodyWaitsForNothing
<1> QED
  BY <1>1, Inductive, PTL

-----------------------------------------------------------------------------
\* A step of the desk is one of its parts', or leaves that part alone.
LEMMA DeskSteps ==
  [DeskNext]_deskVars =>
    /\ [Commands!Next]_ofCommands /\ [Bar!Next]_ofBar /\ [Keyboard!Next]_ofKeyboard
BY DEF DeskNext, deskVars, ofCommands, ofRows, ofBar, ofJobs, ofKeyboard

-----------------------------------------------------------------------------
\* The suggestions are open only under the field; a field that is left gives its
\* draft up, unless the mouse is on them.
BarInv ==
  /\ popup => inField
  /\ Bar!DraftIsGivenUp

\* The initial states satisfy BarInv.
LEMMA BarStart == DeskInit => BarInv
BY DEF DeskInit, Bar!Init, BarInv, Bar!DraftIsGivenUp

\* Every step of the path bar keeps BarInv.
LEMMA BarStep == BarInv /\ [Bar!Next]_ofBar => BarInv'
<1> SUFFICES ASSUME BarInv, [Bar!Next]_ofBar PROVE BarInv'
  OBVIOUS
<1> USE DEF BarInv, Bar!DraftIsGivenUp, Bar!ends
<1>1. ASSUME NEW i \in 1..2, Bar!ClickCrumb(i) PROVE BarInv'
  BY <1>1 DEF Bar!ClickCrumb, Bar!GoTo
<1>2. CASE Bar!BeginEdit \/ Bar!Focus \/ Bar!OpenList \/ Bar!CloseList \/ Bar!MouseOnList
  BY <1>2 DEF Bar!BeginEdit, Bar!Focus, Bar!OpenList, Bar!CloseList, Bar!MouseOnList
<1>3. CASE Bar!Blur \/ Bar!Escape
  BY <1>3 DEF Bar!Blur, Bar!Escape, Bar!EndEdit
<1>4. CASE Bar!Enter
  BY <1>4 DEF Bar!Enter, Bar!Submit, Bar!GoTo
<1>5. ASSUME NEW p \in Paths, Bar!Type(p) \/ Bar!Highlight(p) \/ Bar!NotFound(p) PROVE BarInv'
  BY <1>5 DEF Bar!Type, Bar!Highlight, Bar!NotFound
<1>6. ASSUME NEW p \in Paths, Bar!ClickOption(p) \/ Bar!PathChanges(p) PROVE BarInv'
  BY <1>6 DEF Bar!ClickOption, Bar!Submit, Bar!GoTo, Bar!PathChanges
<1>7. ASSUME NEW found \in SUBSET Paths, Bar!Completed(found) PROVE BarInv'
  BY <1>7 DEF Bar!Completed
<1>8. CASE UNCHANGED ofBar
  BY <1>8 DEF ofBar
<1> QED
  BY <1>1, <1>2, <1>3, <1>4, <1>5, <1>6, <1>7, <1>8 DEF Bar!Next

\* What was typed in the path bar and not taken is given up with the field, in
\* every behaviour, for any paths and suggestions (PathBar.tsx:65).
THEOREM DraftIsGivenUp == DeskSpec => []Bar!DraftIsGivenUp
<1>1. BarInv => Bar!DraftIsGivenUp
  BY DEF BarInv
<1> QED
  BY <1>1, BarStart, BarStep, DeskSteps, PTL DEF DeskSpec

-----------------------------------------------------------------------------
\* The shape of the calls of the file commands; an open delete dialog lists
\* something.
IsFileCall(c) ==
  c = [op |-> c.op, paths |-> c.paths, heard |-> c.heard] /\ c.heard \in BOOLEAN
CommandsInv ==
  /\ \A c \in calls : IsFileCall(c)
  /\ "delete" \in open => del.paths # {}

\* Of the calls there are after a step, those that are new and heard are the one
\* that was made.
LEMMA NewCalls ==
  ASSUME \A c \in calls : IsFileCall(c), NEW op, NEW paths, Commands!Call(op, paths)
  PROVE  /\ \A c \in calls' : IsFileCall(c)
         /\ \A c \in calls' \ calls : c.heard => c.op = op /\ c.paths = paths
<1>1. PICK ops : calls' = Commands!Deaf(ops) \cup {[op |-> op, paths |-> paths, heard |-> TRUE]}
  BY DEF Commands!Call
<1>2. ASSUME NEW c \in Commands!Deaf(ops)
      PROVE  IsFileCall(c) /\ (c.heard => c \in calls)
  <2>1. PICK d \in calls : c = [d EXCEPT !.heard = @ /\ d.op \notin ops]
    BY <1>2 DEF Commands!Deaf
  <2>2. PICK k \in BOOLEAN : d = [op |-> d.op, paths |-> d.paths, heard |-> k] /\ k = d.heard
    BY DEF IsFileCall
  <2>3. c = [op |-> d.op, paths |-> d.paths, heard |-> (k /\ d.op \notin ops)]
    BY <2>1, <2>2
  <2> QED
    BY <2>2, <2>3 DEF IsFileCall
<1>3. PICK n : n = [op |-> op, paths |-> paths, heard |-> TRUE]
  OBVIOUS
<1>4. IsFileCall(n) /\ n.op = op /\ n.paths = paths
  BY <1>3 DEF IsFileCall
<1>5. \A c \in calls' : c \in Commands!Deaf(ops) \/ c = n
  BY <1>1, <1>3
<1> QED
  BY <1>2, <1>4, <1>5

\* No delete is sent that is listened to.
SendsNoDelete == \A c \in calls' \ calls : c.heard => c.op \notin {"del", "delPermanent"}

\* A step that makes no call, but may stop listening to some.
LEMMA NoCall ==
  ASSUME \A c \in calls : IsFileCall(c),
         calls' \subseteq calls \/ (\E ops : calls' = Commands!Deaf(ops))
  PROVE  (\A c \in calls' : IsFileCall(c)) /\ SendsNoDelete
<1>1. CASE calls' \subseteq calls
  BY <1>1 DEF SendsNoDelete
<1>2. ASSUME NEW ops, calls' = Commands!Deaf(ops)
      PROVE  (\A c \in calls' : IsFileCall(c)) /\ SendsNoDelete
  <2>1. ASSUME NEW c \in Commands!Deaf(ops)
        PROVE  IsFileCall(c) /\ (c.heard => c \in calls)
    <3>1. PICK d \in calls : c = [d EXCEPT !.heard = @ /\ d.op \notin ops]
      BY <2>1 DEF Commands!Deaf
    <3>2. PICK k \in BOOLEAN : d = [op |-> d.op, paths |-> d.paths, heard |-> k] /\ k = d.heard
      BY DEF IsFileCall
    <3>3. c = [op |-> d.op, paths |-> d.paths, heard |-> (k /\ d.op \notin ops)]
      BY <3>1, <3>2
    <3> QED
      BY <3>2, <3>3 DEF IsFileCall
  <2> QED
    BY <1>2, <2>1 DEF SendsNoDelete
<1> QED
  BY <1>1, <1>2

\* A command opens a dialog, or calls, but deletes nothing.
LEMMA HandleDeletesNothing ==
  ASSUME CommandsInv, NEW command, Commands!Handle(command) PROVE CommandsInv' /\ SendsNoDelete
<1>1. ASSUME NEW op, op \notin {"del", "delPermanent"}, NEW paths, Commands!Call(op, paths), UNCHANGED <<open, del>>
      PROVE  CommandsInv' /\ SendsNoDelete
  BY <1>1, NewCalls DEF CommandsInv, SendsNoDelete
<1>2. ASSUME UNCHANGED calls, "delete" \in open' => del'.paths # {}
      PROVE  CommandsInv' /\ SendsNoDelete
  BY <1>2 DEF CommandsInv, SendsNoDelete
<1>3. ASSUME Commands!Warn PROVE CommandsInv' /\ SendsNoDelete
  BY <1>2, <1>3 DEF Commands!Warn, Commands!dialogs, CommandsInv
<1>4. ASSUME Commands!ShowEditor PROVE CommandsInv' /\ SendsNoDelete
  <2>1. (\A c \in calls' : IsFileCall(c)) /\ SendsNoDelete
    BY <1>4, NoCall DEF Commands!ShowEditor, CommandsInv
  <2> QED
    BY <1>4, <2>1 DEF Commands!ShowEditor, CommandsInv
<1>5. CASE command \in {"copy", "move"} /\ Commands!Transfer(command)
  BY <1>1, <1>3, <1>5 DEF Commands!Transfer, Commands!dialogs
<1>6. CASE Commands!Paste \/ Commands!RestoreTrash \/ Commands!AskArchive
  <2>1. Commands!Warn \/ (\E op, paths : /\ op \notin {"del", "delPermanent"} /\ Commands!Call(op, paths)
                                         /\ UNCHANGED <<open, del>>)
    BY <1>6 DEF Commands!Paste, Commands!RestoreTrash, Commands!AskArchive, Commands!dialogs
  <2> QED
    BY <1>1, <1>3, <2>1
<1>7. ASSUME NEW permanent, Commands!Delete(permanent) PROVE CommandsInv' /\ SendsNoDelete
  BY <1>2, <1>3, <1>7 DEF Commands!Delete, Commands!Ask
<1>8. CASE \/ Commands!EmptyTrash \/ Commands!AskExtract
           \/ command \in Commands!NameDialogs /\ Commands!AskName(command)
  BY <1>2, <1>3, <1>8 DEF Commands!EmptyTrash, Commands!AskExtract, Commands!AskName, Commands!NameDialogs,
                          Commands!Ask, CommandsInv
<1>9. CASE Commands!EditFile \/ Commands!GitDiff
  BY <1>3, <1>4, <1>9 DEF Commands!EditFile, Commands!GitDiff
<1> QED
  BY <1>5, <1>6, <1>7, <1>8, <1>9 DEF Commands!Handle

\* What DeletesWhatItListed says of a step.
DeletesListed ==
  \A c \in calls' \ calls : c.heard /\ c.op \in {"del", "delPermanent"} =>
    /\ "delete" \in open
    /\ c.paths = del.paths
    /\ c.op = "delPermanent" <=> Commands!SaysPermanent

\* Confirming is the one step that deletes: what the dialog was opened with.
LEMMA ConfirmDeletesListed ==
  ASSUME CommandsInv, Commands!ConfirmDelete PROVE CommandsInv' /\ DeletesListed
<1>1. "delete" \in open /\ Commands!Listed = del.paths
  BY DEF CommandsInv, Commands!ConfirmDelete, Commands!Listed
<1>2. PICK op : /\ op = IF Commands!SaysPermanent THEN "delPermanent" ELSE "del"
                /\ Commands!Call(op, del.paths)
  BY <1>1 DEF Commands!ConfirmDelete
<1>3. /\ \A c \in calls' : IsFileCall(c)
      /\ \A c \in calls' \ calls : c.heard => c.op = op /\ c.paths = del.paths
  BY <1>2, NewCalls DEF CommandsInv
<1>4. open' = open \ {"delete"}
  BY DEF Commands!ConfirmDelete
<1>5. op = "delPermanent" <=> Commands!SaysPermanent
  BY <1>2
<1>6. CommandsInv'
  BY <1>3, <1>4 DEF CommandsInv
<1>7. DeletesListed
  BY <1>1, <1>3, <1>5 DEF DeletesListed
<1> QED
  BY <1>6, <1>7

\* Every step of the file commands keeps CommandsInv and deletes what was listed.
LEMMA CommandsStep ==
  ASSUME CommandsInv, [Commands!Next]_ofCommands PROVE CommandsInv' /\ DeletesListed
<1> DEFINE Fine == CommandsInv' /\ DeletesListed
<1>1. ASSUME CommandsInv', SendsNoDelete PROVE Fine
  BY <1>1 DEF SendsNoDelete, DeletesListed
<1>2. ASSUME UNCHANGED calls, "delete" \in open' => "delete" \in open /\ del' = del PROVE Fine
  BY <1>2 DEF CommandsInv, DeletesListed
<1>3. ASSUME NEW op, op \notin {"del", "delPermanent"}, NEW paths, Commands!Call(op, paths),
             open' \subseteq open, UNCHANGED del
      PROVE  Fine
  BY <1>1, <1>3, NewCalls DEF CommandsInv, SendsNoDelete
<1>4. ASSUME calls' \subseteq calls, "delete" \in open' => "delete" \in open, UNCHANGED del PROVE Fine
  BY <1>4 DEF CommandsInv, DeletesListed
<1>5. ASSUME NEW command,
             \/ Commands!Press(command) \/ Commands!Trigger(command)
             \/ Commands!RunCommand(command) \/ Commands!ChooseItem(command)
      PROVE  Fine
  <2>1. CASE Commands!Press(command)
    BY <1>1, <2>1, HandleDeletesNothing DEF Commands!Press
  <2>2. CASE Commands!Trigger(command)
    BY <1>2, <2>2 DEF Commands!Trigger, Commands!dialogs
  <2>3. CASE Commands!RunCommand(command)
    BY <1>2, <2>3 DEF Commands!RunCommand, Commands!dialogs
  <2>4. CASE Commands!ChooseItem(command)
    BY <1>2, <2>4 DEF Commands!ChooseItem, Commands!dialogs
  <2> QED
    BY <1>5, <2>1, <2>2, <2>3, <2>4
<1>6. CASE Commands!OpenPalette \/ Commands!ClosePalette \/ Commands!CloseEditor \/ Commands!ChooseOther
  BY <1>2, <1>6 DEF Commands!OpenPalette, Commands!ClosePalette, Commands!CloseEditor,
                    Commands!ChooseOther, Commands!dialogs
<1>7. CASE Commands!RunRequest
  BY <1>1, <1>7, HandleDeletesNothing DEF Commands!RunRequest
<1>8. ASSUME NEW row, Commands!OpenRow(row) PROVE Fine
  <2>1. (\A c \in calls' : IsFileCall(c)) /\ SendsNoDelete /\ open' = {}
    BY <1>8, NoCall DEF Commands!OpenRow, Commands!ShowEditor, CommandsInv
  <2> QED
    BY <1>1, <2>1 DEF CommandsInv
<1>9. ASSUME NEW row, Commands!RightClick(row) PROVE Fine
  BY <1>2, <1>9 DEF Commands!RightClick, Commands!dialogs
<1>10. ASSUME NEW a, NEW S, Commands!Elsewhere(a, S) PROVE Fine
  BY <1>2, <1>10 DEF Commands!Elsewhere, Commands!dialogs
<1>11. CASE Commands!Dialogs
  <2>1. ASSUME NEW blank, Commands!Type(blank) PROVE Fine
    BY <1>2, <2>1 DEF Commands!Type
  <2>2. ASSUME NEW d \in Commands!NameDialogs, Commands!ConfirmName(d) PROVE Fine
    <3>1. d \notin {"del", "delPermanent"} /\ open' \subseteq open /\ UNCHANGED del
      BY <2>2 DEF Commands!NameDialogs, Commands!ConfirmName
    <3>2. \E paths : Commands!Call(d, paths)
      BY <2>2 DEF Commands!ConfirmName
    <3> QED
      BY <1>3, <3>1, <3>2
  <2>3. ASSUME NEW d, Commands!Cancel(d) PROVE Fine
    BY <1>2, <2>3 DEF Commands!Cancel
  <2>4. CASE Commands!ConfirmDelete
    BY <2>4, ConfirmDeletesListed
  <2>5. CASE Commands!ConfirmEmpty \/ Commands!ConfirmArchive \/ Commands!ConfirmExtract
    <3>1. \E op, paths : /\ op \notin {"del", "delPermanent"} /\ Commands!Call(op, paths)
                         /\ open' \subseteq open /\ UNCHANGED del
      BY <2>5 DEF Commands!ConfirmEmpty, Commands!ConfirmArchive, Commands!ConfirmExtract
    <3> QED
      BY <1>3, <3>1
  <2> QED
    BY <1>11, <2>1, <2>2, <2>3, <2>4, <2>5 DEF Commands!Dialogs
<1>12. CASE Commands!Answers
  <2>1. ASSUME NEW c \in calls, Commands!Succeed(c) PROVE Fine
    BY <1>4, <2>1 DEF Commands!Succeed, Commands!dialogs
  <2>2. ASSUME NEW c \in calls, Commands!Formats(c) PROVE Fine
    BY <1>4, <2>2 DEF Commands!Formats
  <2>3. ASSUME NEW c \in calls, NEW denied \in BOOLEAN, Commands!Fail(c, denied) PROVE Fine
    BY <1>4, <2>3 DEF Commands!Fail
  <2>4. CASE Commands!Undo
    <3>1. \E op, paths : /\ op \notin {"del", "delPermanent"} /\ Commands!Call(op, paths)
                         /\ open' \subseteq open /\ UNCHANGED del
      BY <2>4 DEF Commands!Undo, Commands!dialogs
    <3> QED
      BY <1>3, <3>1
  <2>5. CASE Commands!UndoGone
    BY <1>2, <2>5 DEF Commands!UndoGone, Commands!dialogs
  <2> QED
    BY <1>12, <2>1, <2>2, <2>3, <2>4, <2>5 DEF Commands!Answers
<1>13. CASE UNCHANGED ofCommands
  BY <1>2, <1>13 DEF ofCommands
<1> QED
  BY <1>5, <1>6, <1>7, <1>8, <1>9, <1>10, <1>11, <1>12, <1>13 DEF Commands!Next

\* The initial states satisfy CommandsInv.
LEMMA CommandsStart == DeskInit => CommandsInv
BY DEF DeskInit, Commands!Init, CommandsInv

\* In every behaviour, for any folders, rows and number of calls, a delete takes the
\* paths its dialog was opened with, however the panes moved since, and is for good
\* only where the dialog said so (useFileOpDialogs.ts:145, DeleteDialogs.tsx:28).
THEOREM DeletesListedOnly == DeskSpec => DeletesWhatItListed
<1>1. CommandsInv /\ [DeskNext]_deskVars => CommandsInv' /\ [DeletesListed]_Commands!vars
  BY DeskSteps, CommandsStep
<1>2. DeletesWhatItListed <=> [][DeletesListed]_Commands!vars
  BY DEF DeletesWhatItListed, Commands!DeletesWhatItListed, DeletesListed
<1> QED
  BY <1>1, <1>2, CommandsStart, PTL DEF DeskSpec

-----------------------------------------------------------------------------
\* A nonempty set of numbers has a least one.
LEMMA LeastExists ==
  ASSUME NEW T, T \subseteq Nat, T # {}
  PROVE  \E x \in T : \A y \in T : x <= y
<1> DEFINE R == {ss \in Nat \X Nat : ss[1] < ss[2]}
<1>1. IsWellFoundedOn(R, Nat)
  BY NatLessThanWellFounded DEF OpToRel
<1>2. PICK x \in T : \A y \in T : ~(<<y, x>> \in R)
  BY <1>1, WFMin
<1>3. ASSUME NEW y \in T PROVE x <= y
  <2>1. x \in Nat /\ y \in Nat
    OBVIOUS
  <2>2. <<y, x>> \in Nat \X Nat /\ <<y, x>>[1] = y /\ <<y, x>>[2] = x
    BY <2>1
  <2>3. ~(y < x)
    BY <1>2, <2>2
  <2> QED
    BY <2>1, <2>3
<1> QED
  BY <1>2, <1>3

\* A ladder is left at its first rung that fits.
LEMMA FirstStops ==
  ASSUME NEW ladder, Len(ladder) \in Nat, NEW k \in 1 .. Len(ladder), ladder[k][1]
  PROVE  \E j \in 1 .. k : ladder[j][1] /\ Keyboard!FirstOf(ladder) = ladder[j][2]
<1> DEFINE fits == {i \in 1 .. Len(ladder) : ladder[i][1]}
<1>0. k \in fits /\ fits \subseteq Nat
  OBVIOUS
<1> HIDE DEF fits
<1>1. PICK j \in fits : \A i \in fits : j <= i
  BY <1>0, LeastExists
<1>2. Keyboard!Min(fits) \in fits /\ \A i \in fits : Keyboard!Min(fits) <= i
  BY <1>1 DEF Keyboard!Min
<1>3. Keyboard!SelectInSeq(ladder, LAMBDA rung : rung[1]) = Keyboard!Min(fits)
  BY <1>0 DEF Keyboard!SelectInSeq, fits
<1>4. Keyboard!Min(fits) # 0
  BY <1>2 DEF fits
<1>5. Keyboard!FirstOf(ladder) = ladder[Keyboard!Min(fits)][2]
  BY <1>3, <1>4 DEF Keyboard!FirstOf
<1>6. Keyboard!Min(fits) \in 1 .. k /\ ladder[Keyboard!Min(fits)][1]
  BY <1>0, <1>2 DEF fits
<1> QED
  BY <1>5, <1>6

\* Where one ladder is put under another, its rungs come first.
LEMMA UpperRungs ==
  ASSUME NEW S, NEW s \in Seq(S), NEW t \in Seq(S), 7 <= Len(s), NEW u, u = s \o t
  PROVE  u \in Seq(S) /\ 7 <= Len(u) /\ \A i \in 1 .. 7 : u[i] = s[i]
OBVIOUS

\* The keys that work in a field, a dialog, a popover or a terminal.
WorkInFields == {"commandPalette", "goTo", "openSearch", "quickView", "toggleTerminal"}
Fields == {"field", "terminal", "dialog", "popover", "ports"}

\* In a field the window's handler does nothing else, whatever is bound to the key.
LEMMA FieldsKeepKeys ==
  ASSUME focus \in Fields, NEW e
  PROVE  Keyboard!ToSet(Keyboard!WindowRan(e)) \subseteq WorkInFields
<1>1. PICK m : m = Keyboard!FindMatchingAction(e)
  OBVIOUS
<1>2. PICK G : G = Keyboard!Globals(e, m)
  OBVIOUS
<1>3. PICK C : C = Keyboard!Chords(e, m)
  OBVIOUS
<1>4. PICK P : P = Keyboard!Plain(e)
  OBVIOUS
<1>5. PICK Z : Z = << <<m # {}, Keyboard!SetToSeq(m)>> >>
  OBVIOUS
<1> DEFINE S == {G[i] : i \in 1 .. 7} \cup {C[i] : i \in 1 .. 8} \cup {P[i] : i \in 1 .. 5} \cup {Z[1]}
<1>6. G \in Seq(S) /\ 7 <= Len(G)
  BY <1>2 DEF Keyboard!Globals
<1>7. C \in Seq(S)
  BY <1>3 DEF Keyboard!Chords
<1>8. P \in Seq(S)
  BY <1>4 DEF Keyboard!Plain
<1>9. Z \in Seq(S)
  BY <1>5
<1> HIDE DEF S
<1>10. PICK L : L = G \o C \o P \o Z
  OBVIOUS
<1>11. Len(L) \in Nat /\ 7 <= Len(L) /\ \A i \in 1 .. 7 : L[i] = G[i]
  <2>1. PICK GC : GC = G \o C
    OBVIOUS
  <2>2. GC \in Seq(S) /\ 7 <= Len(GC) /\ \A i \in 1 .. 7 : GC[i] = G[i]
    BY <1>6, <1>7, <2>1, UpperRungs
  <2>3. PICK GCP : GCP = GC \o P
    OBVIOUS
  <2>4. GCP \in Seq(S) /\ 7 <= Len(GCP) /\ \A i \in 1 .. 7 : GCP[i] = GC[i]
    BY <1>8, <2>2, <2>3, UpperRungs
  <2>5. L = GCP \o Z
    BY <1>10, <2>1, <2>3
  <2>6. L \in Seq(S) /\ 7 <= Len(L) /\ \A i \in 1 .. 7 : L[i] = GCP[i]
    BY <1>9, <2>4, <2>5, UpperRungs
  <2> QED
    BY <2>2, <2>4, <2>6
<1>12. G[7][1] /\ G[7][2] = <<>> /\ ~G[6][1]
  BY <1>2 DEF Keyboard!Globals, Keyboard!IsEditableTarget, Fields
<1>13. PICK j \in 1 .. 7 : L[j][1] /\ Keyboard!FirstOf(L) = L[j][2]
  BY <1>11, <1>12, FirstStops
<1>14. Keyboard!WindowRan(e) = Keyboard!FirstOf(L)
  BY <1>1, <1>2, <1>3, <1>4, <1>5, <1>10 DEF Keyboard!WindowRan
<1>15. G[j][1] /\ Keyboard!WindowRan(e) = G[j][2]
  BY <1>11, <1>13, <1>14
<1>16. G[j][2] \in {<<>>, <<"commandPalette">>, <<"goTo">>, <<"openSearch">>, <<"toggleTerminal">>, <<"quickView">>}
  BY <1>2, <1>12, <1>15 DEF Keyboard!Globals
<1> QED
  BY <1>15, <1>16 DEF Keyboard!ToSet, WorkInFields

\* What KeysStayInFields says of a step.
FieldsStay ==
  ~Keyboard!OnTop("commandPalette") /\ focus \in Fields => Keyboard!ToSet(ran') \subseteq WorkInFields

\* Every step of the keyboard keeps to that.
LEMMA KeyboardStep == [Keyboard!Next]_ofKeyboard => FieldsStay \/ UNCHANGED ofKeyboard
<1> SUFFICES ASSUME Keyboard!Next, ~Keyboard!OnTop("commandPalette"), focus \in Fields
             PROVE  Keyboard!ToSet(ran') \subseteq WorkInFields
  BY DEF FieldsStay
<1>1. ASSUME NEW e, Keyboard!Press(e) PROVE Keyboard!ToSet(ran') \subseteq WorkInFields
  <2>1. ran' = Keyboard!WindowRan(e)
    BY <1>1 DEF Keyboard!Press, Keyboard!Runs, Fields
  <2> QED
    BY <2>1, FieldsKeepKeys
<1>2. ASSUME ran' = <<>> PROVE Keyboard!ToSet(ran') \subseteq WorkInFields
  BY <1>2 DEF Keyboard!ToSet
<1>3. CASE Keyboard!MouseBack
  BY <1>3 DEF Keyboard!MouseBack, Keyboard!IsEditableTarget, Fields
<1>4. ASSUME NEW f, Keyboard!Focus(f) PROVE ran' = <<>>
  BY <1>4 DEF Keyboard!Focus
<1>5. CASE Keyboard!ToggleEditor \/ Keyboard!CloseDialog
  BY <1>2, <1>5 DEF Keyboard!ToggleEditor, Keyboard!CloseDialog
<1>6. ASSUME NEW found, Keyboard!PaletteType(found) PROVE FALSE
  BY <1>6 DEF Keyboard!PaletteType
<1>7. ASSUME NEW d, Keyboard!PaletteMove(d) PROVE FALSE
  BY <1>7 DEF Keyboard!PaletteMove
<1>8. CASE Keyboard!PaletteRun
  BY <1>8 DEF Keyboard!PaletteRun
<1>9. ASSUME NEW id, NEW b, Keyboard!SetBinding(id, b) PROVE ran' = <<>>
  BY <1>9 DEF Keyboard!SetBinding
<1>10. CASE Keyboard!Save \/ Keyboard!Saved \/ Keyboard!SaveFails \/ Keyboard!Refetched
  BY <1>2, <1>10 DEF Keyboard!Save, Keyboard!Saved, Keyboard!SaveFails, Keyboard!Refetched
<1> QED
  BY <1>1, <1>2, <1>3, <1>4, <1>5, <1>6, <1>7, <1>8, <1>9, <1>10 DEF Keyboard!Next

\* In every behaviour, whatever keys the user gave the commands, a key pressed in a
\* field, a dialog, a popover or a terminal runs none but those meant to work there
\* (useFileManagerKeyboard.ts, pages/file-manager/helpers.ts:28).
THEOREM KeysStay == DeskSpec => KeysStayInFields
<1>1. [DeskNext]_deskVars => [FieldsStay]_Keyboard!vars
  <2>1. UNCHANGED ofKeyboard => UNCHANGED Keyboard!vars
    BY DEF ofKeyboard, Keyboard!vars, Keyboard!places, Keyboard!palette, Keyboard!keymap, Keyboard!desk
  <2> QED
    BY <2>1, DeskSteps, KeyboardStep
<1>2. KeysStayInFields <=> [][FieldsStay]_Keyboard!vars
  BY DEF KeysStayInFields, Keyboard!KeysStayInFields, FieldsStay, Fields, WorkInFields
<1> QED
  BY <1>1, <1>2, PTL DEF DeskSpec
=============================================================================
