------------------------------- MODULE Terminal -------------------------------
(***************************************************************************)
(* The terminal of a pane (frontend: widgets/terminal; backend:               *)
(* internal/service/terminal_service.go): a view asks for a shell when it is   *)
(* shown and for its end when it goes, in calls that the backend serves each   *)
(* in a goroutine of its own; a loop per shell reads until the shell is gone.  *)
(* Panes share nothing but the lock, so there is one.  What is typed and       *)
(* printed, and the size, are left out.                                      *)
(***************************************************************************)
EXTENDS Integers, Sequences, SequencesExt

CONSTANTS
  Folders,
  Unsupported,   \* those of them that can have no shell: SMB, MEGA
  MaxViews       \* bound on the views shown

TerminalAssumption == MaxViews \in Nat

VARIABLES
  folder,        \* the pane's
  view, views,   \* the one shown, or 0; how many there were
  started,       \* it knows that it has a shell
  exited,        \* it says that the process exited
  calls,         \* [op, view, cwd, seq, shell]: calls under way
  session,       \* {}, or the shell of the pane
  startSeq,
  dirs,          \* the shells, in the order they were spawned: the folder of each
  ended,         \* the shells that were closed or have exited
  loops,         \* [op, shell]: the read loops: "read", or "exit" when told
  events         \* the shells whose exit was told and not handled

window == <<view, views, started, exited>>
shells == <<dirs, ended>>
vars == <<folder, window, calls, session, startSeq, shells, loops, events>>

Call(op, v, cwd) == [op |-> op, view |-> v, cwd |-> cwd, seq |-> 0, shell |-> 0]
Becomes(c, d) == calls' = (calls \ {c}) \cup {d}

----------------------------------------------------------------------------
(* The view.                                                                *)

ShowTerminal ==
  /\ view = 0 /\ views < MaxViews
  /\ views' = views + 1 /\ view' = views' /\ started' = FALSE /\ exited' = FALSE
  /\ calls' = calls \cup {Call("start", view', folder)}
  /\ UNCHANGED <<folder, session, startSeq, shells, loops, events>>

HideTerminal ==
  /\ view # 0 /\ view' = 0 /\ started' = FALSE /\ exited' = FALSE
  /\ calls' = calls \cup {Call("stop", view, folder)}
  /\ UNCHANGED <<folder, views, session, startSeq, shells, loops, events>>

(* A view that does not know of its shell yet does not send it along.          *)
FolderChanges(f) ==
  /\ f # folder /\ folder' = f
  /\ calls' = IF started THEN calls \cup {Call("setCwd", view, f)} ELSE calls
  /\ UNCHANGED <<window, session, startSeq, shells, loops, events>>

\* Fault: the answer for a view that has gone is taken for the one shown.
AnsweredAnyView(c) ==
  /\ c.op \in {"ok", "failed"} /\ calls' = calls \ {c}
  /\ started' = (started \/ c.op = "ok")
  /\ UNCHANGED <<folder, view, views, exited, session, startSeq, shells, loops, events>>

Answered(c) ==
  /\ c.op \in {"ok", "failed"} /\ calls' = calls \ {c}
  /\ started' = (started \/ (c.op = "ok" /\ c.view = view))
  /\ UNCHANGED <<folder, view, views, exited, session, startSeq, shells, loops, events>>

(* The exit is told with the pane, not with the shell.                        *)
ExitTold ==
  /\ events # <<>> /\ events' = Tail(events)
  /\ started' = FALSE /\ exited' = (exited \/ view # 0)
  /\ UNCHANGED <<folder, view, views, calls, session, startSeq, shells, loops>>

----------------------------------------------------------------------------
(* Start: with a shell there, it is only sent to the folder; without, one is  *)
(* spawned, and closed again if a Stop or another Start came in between.       *)

Start(c) ==
  /\ c.op = "start"
  /\ IF session # {} THEN Becomes(c, [c EXCEPT !.op = "cd"]) /\ UNCHANGED startSeq
     ELSE startSeq' = startSeq + 1 /\ Becomes(c, [c EXCEPT !.op = "spawn", !.seq = startSeq'])
  /\ UNCHANGED <<folder, window, session, shells, loops, events>>

Spawned(c) ==
  /\ c.op = "spawn" /\ c.cwd \notin Unsupported
  /\ dirs' = Append(dirs, c.cwd)
  /\ Becomes(c, [c EXCEPT !.op = "spawned", !.shell = Len(dirs')])
  /\ UNCHANGED <<folder, window, session, startSeq, ended, loops, events>>

SpawnFails(c) ==
  /\ c.op = "spawn" /\ Becomes(c, [c EXCEPT !.op = "failed"])
  /\ UNCHANGED <<folder, window, session, startSeq, shells, loops, events>>

\* Fault: whoever is done spawning has the pane.
StartedLast(c) ==
  /\ c.op = "spawned"
  /\ session' = {c.shell} /\ loops' = loops \cup {[op |-> "read", shell |-> c.shell]}
  /\ Becomes(c, [c EXCEPT !.op = "ok"])
  /\ UNCHANGED <<folder, window, startSeq, shells, events>>

Started(c) ==
  /\ c.op = "spawned"
  /\ IF startSeq = c.seq
     THEN /\ session' = {c.shell} /\ loops' = loops \cup {[op |-> "read", shell |-> c.shell]}
          /\ Becomes(c, [c EXCEPT !.op = "ok"]) /\ UNCHANGED ended
     ELSE /\ ended' = ended \cup {c.shell} /\ Becomes(c, [c EXCEPT !.op = "failed"])
          /\ UNCHANGED <<session, loops>>
  /\ UNCHANGED <<folder, window, startSeq, dirs, events>>

(* Whatever shell the pane has by now goes to the folder of the call.          *)
SetCwd(c) ==
  /\ c.op \in {"setCwd", "cd"}
  /\ LET writes == session # {} /\ c.cwd \notin Unsupported /\ session \cap ended = {}
         d == [c EXCEPT !.op = IF session = {} \/ writes THEN "ok" ELSE "failed"]
     IN /\ dirs' = [s \in DOMAIN dirs |-> IF writes /\ s \in session THEN c.cwd ELSE dirs[s]]
        /\ calls' = (calls \ {c}) \cup {e \in {d} : c.op = "cd"}
  /\ UNCHANGED <<folder, window, session, startSeq, ended, loops, events>>

Stop(c) ==
  /\ c.op = "stop" /\ calls' = calls \ {c}
  /\ startSeq' = startSeq + 1 /\ session' = {} /\ ended' = ended \cup session
  /\ UNCHANGED <<folder, window, dirs, loops, events>>

----------------------------------------------------------------------------
(* The shells.  The exit is told before the pane is free again.               *)

ShellExits(s) ==
  /\ s \notin ended /\ ended' = ended \cup {s}
  /\ UNCHANGED <<folder, window, calls, session, startSeq, dirs, loops, events>>

TellExit(l) ==
  /\ l.op = "read" /\ l.shell \in ended /\ events' = Append(events, l.shell)
  /\ loops' = (loops \ {l}) \cup {[l EXCEPT !.op = "exit"]}
  /\ UNCHANGED <<folder, window, calls, session, startSeq, shells>>

LoopEnds(l) ==
  /\ l.op = "exit" /\ loops' = loops \ {l} /\ session' = session \ {l.shell}
  /\ UNCHANGED <<folder, window, calls, startSeq, shells, events>>

----------------------------------------------------------------------------
Init ==
  /\ folder \in Folders /\ view = 0 /\ views = 0 /\ started = FALSE /\ exited = FALSE
  /\ calls = {} /\ session = {} /\ startSeq = 0 /\ dirs = <<>> /\ ended = {}
  /\ loops = {} /\ events = <<>>

Next ==
  \/ ShowTerminal \/ HideTerminal \/ ExitTold
  \/ \E f \in Folders : FolderChanges(f)
  \/ \E c \in calls : Answered(c) \/ Start(c) \/ Spawned(c) \/ SpawnFails(c) \/ Started(c)
                      \/ SetCwd(c) \/ Stop(c)
  \/ \E s \in DOMAIN dirs : ShellExits(s)
  \/ \E l \in loops : TellExit(l) \/ LoopEnds(l)

TypeOK ==
  /\ view \in 0..views /\ views \in 0..MaxViews /\ (started => view # 0)
  /\ ToSet(dirs) \subseteq Folders /\ session \cup ended \subseteq DOMAIN dirs
  /\ \A c \in calls : c.view \in 1..views /\ c.seq \in 0..startSeq

(* However fast the terminal is shown and hidden, no shell is left running     *)
(* without being the pane's, which the next Stop ends, or one a Start under way *)
(* still has to place or close (terminal_service.go:96).                      *)
NoShellIsLost ==
  \A s \in DOMAIN dirs :
    \/ s \in ended \cup session
    \/ \E c \in calls : c.op = "spawned" /\ c.shell = s

(* With nothing under way, the shell of a terminal is in the pane's folder     *)
(* ("when the pane path changes", terminal_service.go:179).                   *)
ShellFollows == calls = {} /\ started => \A s \in session \ ended : dirs[s] = folder

(* With nothing under way, a hidden terminal has no shell.                    *)
HiddenHasNone == calls = {} /\ view = 0 => session \subseteq ended
===============================================================================
