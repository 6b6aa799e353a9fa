------------------------------ MODULE Connections -----------------------------
(***************************************************************************)
(* Remote connections as the frontend makes them: the one connection dialog *)
(* and its menu (features/connections, widgets/toolbar), and the panes that  *)
(* dial the host of the path they are sent to.  Calls are answered in any    *)
(* order, and no answer asks what the dialog has become in the meantime.     *)
(* The editor unmounts the menu: its dialog is lost, what the store holds    *)
(* stays, and what was sent before is answered to a menu that is gone.       *)
(***************************************************************************)
EXTENDS Integers, FiniteSets

CONSTANTS
  Hosts, Proto,  \* the hosts and [host -> "ssh", "smb" or "mega"]
  Profiles,      \* the hosts saved as profiles
  Panes,
  Files,         \* the SSH config files there are
  Local, None,   \* where a pane is that shows no host; no file
  MaxCalls       \* bound on the calls in flight

VARIABLES
  form,          \* [mode, to, ask, typed, busy, loading, file, hosts, pick]: the dialog
  request,       \* {}, or the [pane, to] that waits for a password
  connecting,    \* the panes that show they are connecting
  sessions,      \* the hosts with a session
  at,            \* [pane -> the host it shows]
  active,        \* the pane the menu's connections land in
  covered,       \* the editor covers the panes and the menu
  dials          \* [op, to, pane, pass, heard]: calls in flight

vars == <<form, request, connecting, sessions, at, active, covered, dials>>

(* to: the host named, None while the fields do not name one; ask: the         *)
(* password is asked for, typed: and not empty; hosts: the config file whose   *)
(* hosts are listed; pick: the folder or share chosen.                        *)
Closed ==
  [mode |-> "none", to |-> None, ask |-> FALSE, typed |-> FALSE, busy |-> FALSE,
   loading |-> FALSE, file |-> None, hosts |-> None, pick |-> "blank"]
Opened(mode) == [Closed EXCEPT !.mode = mode]
OpenPassword(h) == [Opened("password") EXCEPT !.ask = TRUE, !.to = h]
(* What was read of the SSH config is nothing to the dialogs that follow.      *)
Plain == [form EXCEPT !.loading = FALSE, !.file = None, !.hosts = None]
OpenWorkdir(h) == [Plain EXCEPT !.mode = "workdir", !.to = h, !.busy = FALSE, !.pick = "home"]
OpenShares(h, p) == [Plain EXCEPT !.mode = "smb_shares", !.to = h, !.busy = FALSE, !.pick = p]
NeedPassword == [form EXCEPT !.ask = TRUE, !.typed = FALSE, !.busy = FALSE]
Unbusy == [form EXCEPT !.busy = FALSE]

\* Fault: a request stays when its password dialog goes away.
BecomeKeeps(d) == form' = d /\ UNCHANGED request

(* A request goes with the password dialog that was opened for it.           *)
Become(d) ==
  /\ form' = d
  /\ request' = IF form.mode = "password" /\ d.mode # "password" THEN {} ELSE request

(* heard: the menu that waits for the answer is still there.  Of two equal      *)
(* calls the second is made when the first has been answered.                 *)
Call(op, h, pane, pass) == [op |-> op, to |-> h, pane |-> pane, pass |-> pass, heard |-> TRUE]
Unheard(c) == [c EXCEPT !.heard = FALSE, !.pass = FALSE]
Send(c) == Cardinality(dials) < MaxCalls /\ c \notin dials /\ dials' = dials \cup {c}
Took(c) == dials' = dials \ {c}
GoesOn(c, e) == e \notin dials /\ dials' = (dials \ {c}) \cup {e}
Hears(c, d) == Become(IF c.heard THEN d ELSE form)

NoDialog == form.mode = "none" /\ ~covered

----------------------------------------------------------------------------
(* A pane is sent to a host: by a bookmark, or by Reconnect.                 *)

Land(pane, h) == at' = [at EXCEPT ![pane] = h]

(* A live session is known from the sessions' list only.  No menu waits for   *)
(* the pane to get there.                                                    *)
Navigate(pane, h) ==
  /\ NoDialog
  /\ IF h = Local
     THEN Land(pane, Local) /\ UNCHANGED <<connecting, dials>>
     ELSE /\ Send(Unheard(Call("nav", h, pane, FALSE)))
          /\ connecting' = connecting \cup {pane} /\ UNCHANGED at
  /\ UNCHANGED <<form, request, sessions, active, covered>>

Reconnect(pane) ==
  /\ at[pane] \in Hosts \ sessions /\ pane \notin connecting
  /\ Navigate(pane, at[pane])

(* However it ends, what was submitted to get there is over as well: whatever  *)
(* dialog there is by then is no longer busy.                                *)
Ends(c) == Took(c) /\ connecting' = connecting \ {c.pane}

Listed(c) ==
  /\ c.op = "nav"
  /\ IF c.to \in sessions
     THEN Ends(c) /\ Hears(c, Unbusy) /\ Land(c.pane, c.to)
     ELSE GoesOn(c, [c EXCEPT !.op = "dial"]) /\ UNCHANGED <<form, request, at, connecting>>
  /\ UNCHANGED <<sessions, active, covered>>

Dialed(c) ==
  /\ c.op = "dial" /\ Ends(c) /\ Hears(c, Unbusy)
  /\ sessions' = sessions \cup {c.to}
  /\ Land(c.pane, c.to)
  /\ UNCHANGED <<active, covered>>

DialFails(c) ==
  /\ c.op \in {"nav", "dial"} /\ Ends(c) /\ Hears(c, Unbusy)
  /\ UNCHANGED <<sessions, at, active, covered>>

\* The dialog is the menu's, and it is opened by the menu.
Prompt(h) == form' = IF covered THEN form ELSE OpenPassword(h)

\* Fault: a request is queued behind the one that is pending.
AskPasswordTwice(c) ==
  /\ c.op = "dial" /\ Ends(c) /\ Prompt(c.to)
  /\ request' = request \cup {[pane |-> c.pane, to |-> c.to]}
  /\ UNCHANGED <<sessions, at, active, covered>>

(* The request goes to the store, in the place of the last one; the menu opens *)
(* the password dialog for it, whatever it shows, when it is there to.       *)
AskPassword(c) ==
  /\ c.op = "dial" /\ Ends(c) /\ Prompt(c.to)
  /\ request' = {[pane |-> c.pane, to |-> c.to]}
  /\ UNCHANGED <<sessions, at, active, covered>>

----------------------------------------------------------------------------
(* The editor.                                                              *)

(* It opens over any dialog (from the palette, a search or a quick view), and  *)
(* nothing is tidied up: the request stays, and no answer finds the menu.    *)
OpenEditor ==
  /\ ~covered /\ covered' = TRUE
  /\ form' = Closed
  /\ \A c, d \in dials : Unheard(c) = Unheard(d) => c = d
  /\ dials' = {Unheard(c) : c \in dials}
  /\ UNCHANGED <<request, connecting, sessions, at, active>>

(* The menu mounts anew, and has not seen the request there may be.          *)
CloseEditor ==
  /\ covered /\ covered' = FALSE
  /\ form' \in (IF request = {} THEN {Closed} ELSE {OpenPassword(r.to) : r \in request})
  /\ UNCHANGED <<request, connecting, sessions, at, active, dials>>

----------------------------------------------------------------------------
(* The menu and the dialog.                                                 *)

MenuConnect(h) ==
  /\ NoDialog /\ h \in Profiles
  /\ Send(Call("profile", h, active, FALSE))
  /\ UNCHANGED <<form, request, connecting, sessions, at, active, covered>>

Disconnect(h) ==
  /\ NoDialog /\ h \in sessions
  /\ sessions' = sessions \ {h}
  /\ UNCHANGED <<form, request, connecting, at, active, covered, dials>>

(* The palette switches panes over a dialog, and over the editor.             *)
Activate(pane) ==
  /\ active' = pane
  /\ UNCHANGED <<form, request, connecting, sessions, at, covered, dials>>

Open(mode) ==
  /\ NoDialog /\ Become(Opened(mode))
  /\ UNCHANGED <<connecting, sessions, at, active, covered, dials>>
OpenAdd == Open("add")
OpenAddSMB == Open("add_smb")
OpenAddMEGA == Open("add_mega")

(* The folders cloud services keep on this machine.                          *)
OpenCloud ==
  /\ NoDialog /\ Land(active, Local)
  /\ UNCHANGED <<form, request, connecting, sessions, active, covered, dials>>

(* The default config file is proposed when its path is known.               *)
OpenSSHConfig ==
  /\ NoDialog
  /\ Become(Opened("ssh_config")) /\ Send(Call("paths", None, active, FALSE))
  /\ UNCHANGED <<connecting, sessions, at, active, covered>>

Close ==
  /\ form.mode # "none" /\ ~form.busy
  /\ Become(Closed)
  /\ UNCHANGED <<connecting, sessions, at, active, covered, dials>>

Enter(mode, proto, h) ==
  /\ form.mode = mode /\ ~form.busy /\ Proto[h] = proto
  /\ Become([form EXCEPT !.to = h])
  /\ UNCHANGED <<connecting, sessions, at, active, covered, dials>>
EnterSpec(h) == Enter("add", "ssh", h)
EnterSMB(h) == Enter("add_smb", "smb", h)
EnterMEGA(h) == Enter("add_mega", "mega", h)

(* What is typed into the SMB and MEGA forms decides nothing here.            *)
AsksPassword ==
  form.ask /\ form.mode \notin {"workdir", "smb_shares", "add_smb", "add_mega", "none"}
EnterPassword ==
  /\ AsksPassword /\ ~form.busy
  /\ Become([form EXCEPT !.typed = ~@])
  /\ UNCHANGED <<connecting, sessions, at, active, covered, dials>>

EnterFile(f) ==
  /\ form.mode = "ssh_config" /\ ~form.busy /\ ~form.loading
  /\ Become([form EXCEPT !.file = f, !.hosts = None])
  /\ UNCHANGED <<connecting, sessions, at, active, covered, dials>>

PathsAnswered(c, f) ==
  /\ c.op = "paths" /\ Took(c)
  /\ Hears(c, IF f = None \/ form.mode # "ssh_config" THEN form
              ELSE [form EXCEPT !.file = f, !.hosts = None])
  /\ UNCHANGED <<connecting, sessions, at, active, covered>>

LoadSSHConfig ==
  /\ form.mode = "ssh_config" /\ ~form.busy /\ ~form.loading
  /\ Become([form EXCEPT !.loading = TRUE])
  /\ Send(Call("load", form.file, active, FALSE))
  /\ UNCHANGED <<connecting, sessions, at, active, covered>>

HostsLoaded(c) ==
  /\ c.op = "load" /\ Took(c)
  /\ Hears(c, IF form.mode # "ssh_config" THEN form
              ELSE [form EXCEPT !.hosts = c.to, !.loading = FALSE])
  /\ UNCHANGED <<connecting, sessions, at, active, covered>>

(* An error gives the dialog back but for what was loading.                  *)
LoadFails(c) ==
  /\ c.op = "load" /\ Took(c)
  /\ Hears(c, Unbusy)
  /\ UNCHANGED <<connecting, sessions, at, active, covered>>

----------------------------------------------------------------------------
(* What is submitted.                                                       *)

(* An answer asks again only where no password was typed.                     *)
Asks == {"profile", "config", "spec"}
Submit(op, h) ==
  /\ Become([form EXCEPT !.busy = TRUE])
  /\ Send(Call(op, h, active, form.typed /\ op \in Asks))
  /\ UNCHANGED <<connecting, sessions, at, active, covered>>

ListsHosts == form.mode = "ssh_config" /\ form.hosts # None /\ ~form.busy
PickHost(h) ==
  /\ ListsHosts /\ Proto[h] = "ssh"
  /\ Become([form EXCEPT !.to = h, !.busy = TRUE])
  /\ Send(Call("config", h, active, FALSE))
  /\ UNCHANGED <<connecting, sessions, at, active, covered>>

(* The fields name a host: the form that is parsed has no errors.            *)
FormOk == form.to # None
CanConnect == ~form.busy /\ FormOk
SubmitConfig == form.mode = "ssh_config" /\ form.ask /\ CanConnect /\ Submit("config", form.to)
SubmitAdd == form.mode = "add" /\ CanConnect /\ Submit("spec", form.to)
SubmitMEGA == form.mode = "add_mega" /\ CanConnect /\ Submit("mega", form.to)
SubmitConfirm == form.mode = "smb_confirm" /\ ~form.busy /\ Submit("smb", form.to)

SubmitSMB ==
  /\ form.mode = "add_smb" /\ CanConnect
  /\ Become([form EXCEPT !.mode = "smb_confirm"])
  /\ UNCHANGED <<connecting, sessions, at, active, covered, dials>>

(* A request is answered before the host the dialog was opened for.           *)
SubmitPassword ==
  /\ form.mode = "password" /\ ~form.busy
  /\ IF request = {} THEN Submit(IF form.to \in Profiles THEN "profile" ELSE "spec", form.to)
     ELSE \E r \in request :
            /\ Become([form EXCEPT !.busy = TRUE])
            /\ Send(Call("pending", r.to, r.pane, TRUE))
            /\ UNCHANGED <<connecting, sessions, at, active, covered>>

Arrive(c) == Land(c.pane, c.to) /\ Hears(c, Closed)

(* Home, a recent folder, another one or, while that is empty, none.          *)
ChooseWorkdir(p) ==
  /\ form.mode = "workdir" /\ p \in {"home", "recent", "custom", "blank"}
  /\ Become([form EXCEPT !.pick = p])
  /\ UNCHANGED <<connecting, sessions, at, active, covered, dials>>

ForgetRecent ==
  /\ form.mode = "workdir" /\ form.pick = "recent"
  /\ Become([form EXCEPT !.pick = "home"])
  /\ UNCHANGED <<connecting, sessions, at, active, covered, dials>>

ChooseShare(p) ==
  /\ form.mode = "smb_shares" /\ p \in {"share", "blank"}
  /\ Become([form EXCEPT !.pick = p])
  /\ UNCHANGED <<connecting, sessions, at, active, covered, dials>>

(* What is chosen is opened, at once or once it is saved as the default.      *)
OpenChosen(remember) ==
  /\ form.pick # "blank" /\ ~form.busy
  /\ IF remember
     THEN form.to \in Profiles /\ Send(Call("remember", form.to, active, FALSE)) /\ UNCHANGED <<form, request, at>>
     ELSE Arrive([pane |-> active, to |-> form.to, heard |-> TRUE]) /\ UNCHANGED dials
  /\ UNCHANGED <<connecting, sessions, active, covered>>

ConfirmWorkdir(remember) == form.mode = "workdir" /\ OpenChosen(remember)
ConfirmSMBShare(remember) == form.mode = "smb_shares" /\ OpenChosen(remember)

Remembered(c) ==
  /\ c.op = "remember" /\ Took(c)
  /\ Arrive(c)
  /\ UNCHANGED <<connecting, sessions, active, covered>>

Connects == {"profile", "config", "spec", "mega", "smb"}

(* What follows a connection: SSH asks for a folder once the recent ones are  *)
(* known; SMB for a share, but when the default or the one mount is taken.    *)
Connected(c, picks) ==
  /\ c.op \in Connects
  /\ sessions' = sessions \cup {c.to}
  /\ \/ /\ Proto[c.to] = "ssh"
        /\ GoesOn(c, [c EXCEPT !.op = "recents", !.pass = FALSE])
        /\ UNCHANGED <<form, request, at>>
     \/ /\ Proto[c.to] = "smb" /\ picks
        /\ Took(c) /\ (\E p \in {"share", "blank"} : Hears(c, OpenShares(c.to, p))) /\ UNCHANGED at
     \/ /\ Proto[c.to] # "ssh" /\ ~(Proto[c.to] = "smb" /\ picks)
        /\ Took(c) /\ Arrive(c)
  /\ UNCHANGED <<connecting, active, covered>>

RecentsAnswered(c) ==
  /\ c.op = "recents" /\ Took(c)
  /\ Hears(c, OpenWorkdir(c.to))
  /\ UNCHANGED <<connecting, sessions, at, active, covered>>

(* Once the host of a request answers, its pane is sent there anew; the submit *)
(* ends with that.  The request that goes is the one there is by then.       *)
PendingConnected(c) ==
  /\ c.op = "pending"
  /\ sessions' = sessions \cup {c.to}
  /\ form' = (IF c.heard THEN Closed ELSE form) /\ request' = {}
  /\ connecting' = connecting \cup {c.pane}
  /\ GoesOn(c, [c EXCEPT !.op = "nav", !.pass = FALSE])
  /\ UNCHANGED <<at, active, covered>>

(* What the dialog shows after a refused login.                              *)
AfterRefusal(c) ==
  IF c.op = "profile" /\ ~c.pass THEN OpenPassword(c.to)
  ELSE IF c.op \in {"config", "spec"} /\ ~c.pass THEN NeedPassword
  ELSE IF c.op = "smb" THEN [Plain EXCEPT !.mode = "add_smb", !.busy = FALSE]
  ELSE Unbusy
AuthFails(c) ==
  /\ c.op \in Connects /\ Took(c)
  /\ Hears(c, AfterRefusal(c))
  /\ UNCHANGED <<connecting, sessions, at, active, covered>>

ConnectFails(c) ==
  /\ c.op \in Connects \cup {"pending"} /\ Took(c)
  /\ Hears(c, Unbusy)
  /\ UNCHANGED <<connecting, sessions, at, active, covered>>

----------------------------------------------------------------------------
Init ==
  /\ form = Closed /\ request = {} /\ connecting = {} /\ sessions = {}
  /\ at \in [Panes -> Hosts \cup {Local}] /\ active \in Panes
  /\ covered = FALSE /\ dials = {}

Gestures ==
  \/ \E p \in Panes : (\E h \in Hosts \cup {Local} : Navigate(p, h)) \/ Reconnect(p) \/ Activate(p)
  \/ \E h \in Hosts : MenuConnect(h) \/ Disconnect(h) \/ PickHost(h)
                     \/ EnterSpec(h) \/ EnterSMB(h) \/ EnterMEGA(h)
  \/ OpenAdd \/ OpenAddSMB \/ OpenAddMEGA \/ OpenCloud
  \/ OpenSSHConfig \/ LoadSSHConfig \/ Close \/ EnterPassword
  \/ \E f \in Files : EnterFile(f)
  \/ SubmitConfig \/ SubmitAdd \/ SubmitMEGA \/ SubmitSMB \/ SubmitConfirm \/ SubmitPassword
  \/ \E p \in {"home", "recent", "custom", "blank", "share"} : ChooseWorkdir(p) \/ ChooseShare(p)
  \/ ForgetRecent
  \/ \E b \in BOOLEAN : ConfirmWorkdir(b) \/ ConfirmSMBShare(b)
  \/ OpenEditor \/ CloseEditor

Answers ==
  \E c \in dials :
    \/ Listed(c) \/ Dialed(c) \/ DialFails(c) \/ AskPassword(c)
    \/ \E f \in Files \cup {None} : PathsAnswered(c, f)
    \/ HostsLoaded(c) \/ LoadFails(c) \/ Remembered(c)
    \/ \E b \in BOOLEAN : Connected(c, b)
    \/ RecentsAnswered(c) \/ PendingConnected(c) \/ AuthFails(c) \/ ConnectFails(c)

Next == Gestures \/ Answers

Spec == Init /\ [][Next]_vars

----------------------------------------------------------------------------
Modes == {"none", "add", "add_smb", "add_mega", "password", "ssh_config", "workdir", "smb_shares", "smb_confirm"}
Form == [mode : Modes, to : Hosts \cup {None}, ask : BOOLEAN, typed : BOOLEAN, busy : BOOLEAN,
         loading : BOOLEAN, file : Files \cup {None}, hosts : Files \cup {None},
         pick : {"blank", "home", "recent", "custom", "share"}]
Calls == [op : Connects \cup {"nav", "dial", "paths", "load", "remember", "recents", "pending"},
          to : Hosts \cup Files \cup {None}, pane : Panes, pass : BOOLEAN, heard : BOOLEAN]

TypeOK ==
  /\ form \in Form /\ dials \subseteq Calls
  /\ request \subseteq [pane : Panes, to : Hosts] /\ Cardinality(request) <= 1
  /\ connecting \subseteq Panes /\ sessions \subseteq Hosts
  /\ at \in [Panes -> Hosts \cup {Local}] /\ active \in Panes /\ covered \in BOOLEAN

(* What waits has what it waits for, however the attempt ended and whatever    *)
(* was lost with the menu while the editor was open: a request for a password  *)
(* its dialog, whenever the menu is there (useConnections.ts:311, :326), a     *)
(* pane that shows it is connecting a call of its own (navigate.ts:73), and a  *)
(* busy dialog, which can be neither closed nor sent, a call that this menu    *)
(* hears (useConnections.ts:495).                                            *)
NobodyWaitsForNothing ==
  /\ request # {} => covered \/ form.mode = "password"
  /\ \A p \in connecting : \E c \in dials : c.pane = p /\ c.op \in {"nav", "dial"}
  /\ form.busy => \E c \in dials : c.heard /\ c.op \in Connects \cup {"pending", "recents"}

(* The password dialog that answers a request names the request's host: "so a *)
(* later unrelated password prompt can't inherit it" (useConnections.ts:327). *)
PromptIsForItsRequest == \A r \in request : form.mode = "password" => form.to = r.to
===============================================================================
