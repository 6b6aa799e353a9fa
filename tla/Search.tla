-------------------------------- MODULE Search --------------------------------
(***************************************************************************)
(* Find in files (frontend: widgets/search): the dialog searches while its    *)
(* fields change; a job of the backend sends what it finds, one event each;   *)
(* what was found can be replaced.                                          *)
(***************************************************************************)
EXTENDS Integers, Sequences, SequencesExt

CONSTANTS
  Queries,       \* what may be typed, "" among it
  Roots,         \* the folders of the pane in use: "mega" is on MEGA
  Remote,        \* those that are not a path of this machine
  Paths,         \* what may be found
  Saved,         \* the fields the settings may hold
  MaxJobs,       \* bound on the searches
  MaxEvents      \* bound on the events under way

SearchAssumption ==
  /\ "" \in Queries /\ MaxJobs \in Nat /\ MaxEvents \in Nat
  /\ \A p \in Saved : p = [query |-> p.query, mode |-> p.mode, include |-> p.include] /\ p.query \in Queries

VARIABLES
  open, loaded,  \* the dialog; its fields are read
  root,          \* the folder of the pane in use
  prefs,         \* the fields: [query, mode, include], include: roots and patterns
  timer,         \* a search is due
  results,       \* [query, path]: found, and shown
  index,         \* the row marked
  searching, denied, \* shown
  jobId,         \* {}, or the job whose events count
  buffered,      \* found, and shown soon
  calls,         \* calls under way
  running,       \* [job, query]: searches of the backend
  asked,         \* how many were asked for
  events         \* [kind, job, query, path]: sent and not handled

fields == <<open, loaded, root, prefs, timer>>
list == <<results, searching, denied, buffered>>
backend == <<running, events>>
vars == <<fields, list, index, jobId, calls, backend, asked>>

(* job: of a search; what: what it asks for; row: the one that was marked;    *)
(* at: the folder a call will search again.                                 *)
Call(op) == [op |-> op, job |-> 0, what |-> {}, row |-> 0, at |-> root]

(* The first row is marked whenever the number of rows or the query changes.  *)
Marked == index' = IF Len(results') # Len(results) \/ prefs'.query # prefs.query THEN 1 ELSE index

----------------------------------------------------------------------------
(* The fields.  The folder is one of the patterns shown, not of those sent.   *)

StripRoots(include) == include \ (Roots \ Remote)
IncludeOf(saved, at) == IF saved \subseteq {at} THEN {at} ELSE {at} \cup StripRoots(saved)
IncludePatterns(include, at) == include \ {at}

NothingToFind(p) == p.mode = "content" /\ p.query = ""

(* Any change of the fields puts the search off; without a text to find there *)
(* is none.                                                                 *)
Debounce ==
  /\ timer' = (open' /\ loaded' /\ ~NothingToFind(prefs'))
  /\ results' = IF open' /\ loaded' /\ NothingToFind(prefs') THEN <<>> ELSE results

(* The fields of an open dialog follow the folder in use.                    *)
InUse(include, at) == {at} \cup StripRoots(include)

(* An answer that came while it was closed counts as that of this opening.    *)
OpenSearch ==
  /\ ~open /\ open' = TRUE /\ calls' = calls \cup {Call("prefs")}
  /\ prefs' = IF loaded THEN [prefs EXCEPT !.include = InUse(@, root)] ELSE prefs
  /\ UNCHANGED <<loaded, root, searching, denied, buffered, jobId, backend, asked>>
  /\ Debounce /\ Marked

(* The answer is for the folder of when it was asked, and the first one of an  *)
(* opening is brought to the folder in use; a second one is not.             *)
PrefsLoaded(c, p) ==
  /\ c.op = "prefs" /\ calls' = calls \ {c} /\ loaded' = TRUE
  /\ LET include == IncludeOf(p.include, c.at) IN
     prefs' = [p EXCEPT !.include = IF open /\ ~loaded THEN InUse(include, root) ELSE include]
  /\ UNCHANGED <<open, root, searching, denied, buffered, jobId, backend, asked>>
  /\ Debounce /\ Marked

Patch(p) ==
  /\ open /\ p # prefs /\ prefs' = p
  /\ p.mode = "content" => (root # "mega" \/ prefs.mode = "content")
  /\ UNCHANGED <<open, loaded, root, searching, denied, buffered, jobId, calls, backend, asked>>
  /\ Debounce /\ Marked

RootChanges(r) ==
  /\ r # root /\ root' = r
  /\ prefs' = IF open /\ loaded THEN [prefs EXCEPT !.include = InUse(@, r)] ELSE prefs
  /\ UNCHANGED <<open, loaded, searching, denied, buffered, jobId, calls, backend, asked>>
  /\ Debounce /\ Marked

----------------------------------------------------------------------------
(* A search.                                                                *)

\* Fault: the list waits before it is known that there is anything to find.
RunSearchWaits(answered, at) ==
  LET others == calls \ answered IN
  IF (at = "mega" /\ prefs.mode = "content") \/ NothingToFind(prefs) \/ asked = MaxJobs
  THEN /\ searching' = open /\ calls' = others
       /\ UNCHANGED <<results, denied, jobId, running, asked>>
  ELSE /\ results' = <<>> /\ denied' = {} /\ searching' = open
       /\ jobId' = {} /\ running' = {r \in running : r.job \notin jobId}
       /\ calls' = others \cup {[Call("newJob") EXCEPT !.job = asked + 1, !.what = {}]}
       /\ asked' = asked + 1

(* Not in the text of files on MEGA.  The job before it is canceled, if its   *)
(* id is known; a dialog that was closed meanwhile shows nothing.            *)
RunSearch(answered, at) ==
  LET others == calls \ answered
      wanted == [query |-> prefs.query, include |-> IncludePatterns(prefs.include, at), at |-> at]
  IN
  IF (at = "mega" /\ prefs.mode = "content") \/ asked = MaxJobs
  THEN UNCHANGED <<results, searching, denied, jobId, running, asked>> /\ calls' = others
  ELSE IF NothingToFind(prefs)
  THEN results' = <<>> /\ calls' = others /\ UNCHANGED <<searching, denied, jobId, running, asked>>
  ELSE /\ results' = <<>> /\ denied' = {} /\ searching' = open
       /\ jobId' = {} /\ running' = {r \in running : r.job \notin jobId}
       /\ calls' = others \cup {[Call("newJob") EXCEPT !.job = asked + 1, !.what = {wanted}]}
       /\ asked' = asked + 1

TimerFires ==
  /\ timer /\ timer' = FALSE /\ RunSearch({}, root)
  /\ UNCHANGED <<open, loaded, root, prefs, buffered, events>>
  /\ Marked

PressEnter ==
  /\ open /\ RunSearch({}, root)
  /\ UNCHANGED <<fields, buffered, events>>
  /\ Marked

JobIdKnown(c) ==
  /\ c.op = "newJob" /\ jobId' = {c.job}
  /\ calls' = (calls \ {c}) \cup {[c EXCEPT !.op = "start"]}
  /\ UNCHANGED <<fields, list, index, backend, asked>>

Started(c) ==
  /\ c.op = "start" /\ calls' = calls \ {c}
  /\ running' = running \cup {[job |-> c.job, query |-> w.query] : w \in c.what}
  /\ UNCHANGED <<fields, list, index, jobId, events, asked>>

SearchFails(c) ==
  /\ c.op \in {"newJob", "start"} /\ calls' = calls \ {c} /\ searching' = FALSE
  /\ UNCHANGED <<fields, results, denied, buffered, index, jobId, backend, asked>>

----------------------------------------------------------------------------
(* What the backend sends, and what becomes of it.                           *)

Send(r, kind, path) ==
  /\ r \in running /\ Len(events) < MaxEvents
  /\ events' = Append(events, [kind |-> kind, job |-> r.job, query |-> r.query, path |-> path])
  /\ running' = IF kind \in {"done", "error"} THEN running \ {r} ELSE running
  /\ UNCHANGED <<fields, list, index, jobId, calls, asked>>

(* The end of the search shows what was still buffered.                      *)
Handle ==
  /\ events # <<>> /\ events' = Tail(events)
  /\ LET e == Head(events)
         ours == open /\ e.job \in jobId
         ends == ours /\ e.kind \in {"done", "error"}
     IN /\ buffered' = IF ends THEN <<>> ELSE IF ours /\ e.kind = "hit" THEN Append(buffered, [query |-> e.query, path |-> e.path]) ELSE buffered
        /\ results' = IF ends THEN results \o buffered ELSE results
        /\ denied' = IF ours /\ e.kind = "denied" THEN denied \cup {e.path} ELSE denied
        /\ searching' = (searching /\ ~ends)
        /\ jobId' = IF ends THEN {} ELSE jobId
  /\ UNCHANGED <<fields, calls, running, asked>>
  /\ Marked

FlushHits ==
  /\ buffered # <<>> /\ results' = results \o buffered /\ buffered' = <<>> /\ Marked
  /\ UNCHANGED <<fields, searching, denied, jobId, calls, backend, asked>>

DismissDenied ==
  /\ denied # {} /\ denied' = {}
  /\ UNCHANGED <<fields, results, searching, buffered, index, jobId, calls, backend, asked>>

Close ==
  /\ open /\ open' = FALSE /\ loaded' = FALSE /\ timer' = FALSE
  /\ results' = <<>> /\ searching' = FALSE /\ denied' = {} /\ buffered' = <<>>
  /\ jobId' = {} /\ running' = {r \in running : r.job \notin jobId}
  /\ UNCHANGED <<root, prefs, calls, events, asked>>
  /\ Marked

----------------------------------------------------------------------------
(* The results.                                                             *)

Hover(i) ==
  /\ i \in DOMAIN results /\ i # index /\ index' = i
  /\ UNCHANGED <<fields, list, jobId, calls, backend, asked>>

(* A folder is shown in the pane, a file opened: the dialog closes.           *)
SelectResult(i) == i \in DOMAIN results /\ Close

ReplaceOne ==
  /\ open /\ index \in DOMAIN results /\ prefs.mode = "content" /\ prefs.query # ""
  /\ calls' = calls \cup {[Call("replaceOne") EXCEPT !.row = index]}
  /\ UNCHANGED <<fields, list, index, jobId, backend, asked>>

(* The row that was marked then is taken off the list there is now.           *)
ReplacedOne(c) ==
  /\ c.op = "replaceOne" /\ calls' = calls \ {c}
  /\ results' = IF c.row \in DOMAIN results THEN RemoveAt(results, c.row) ELSE results
  /\ UNCHANGED <<fields, searching, denied, buffered, jobId, backend, asked>>
  /\ Marked

UniquePaths == {r.path : r \in ToSet(results)}
ReplaceEverywhere ==
  /\ open /\ ~searching /\ UniquePaths # {} /\ prefs.mode = "content" /\ prefs.query # ""
  /\ calls' = calls \cup {Call("replaceAll")}
  /\ UNCHANGED <<fields, list, index, jobId, backend, asked>>

(* Replaced, the folder there was then is searched again, even if the dialog  *)
(* was closed.                                                              *)
Replaced(c) ==
  /\ c.op = "replaceAll" /\ RunSearch({c}, c.at)
  /\ UNCHANGED <<fields, buffered, events>>
  /\ Marked

CallFails(c) ==
  /\ c.op \in {"replaceOne", "replaceAll"} /\ calls' = calls \ {c}
  /\ UNCHANGED <<fields, list, index, jobId, backend, asked>>

----------------------------------------------------------------------------
Init ==
  /\ open = FALSE /\ loaded = FALSE /\ root \in Roots
  /\ prefs = [query |-> "", mode |-> "content", include |-> {}] /\ timer = FALSE
  /\ results = <<>> /\ index = 1 /\ searching = FALSE /\ denied = {} /\ jobId = {} /\ buffered = <<>>
  /\ calls = {} /\ running = {} /\ asked = 0 /\ events = <<>>

Next ==
  \/ OpenSearch
  \/ \E c \in calls :
       \/ \E p \in Saved : PrefsLoaded(c, p)
       \/ JobIdKnown(c) \/ Started(c) \/ SearchFails(c) \/ ReplacedOne(c) \/ Replaced(c) \/ CallFails(c)
  \/ \E q \in Queries : Patch([prefs EXCEPT !.query = q])
  \/ \E m \in {"content", "files"} : Patch([prefs EXCEPT !.mode = m])
  \/ \E r \in Roots : RootChanges(r)
  \/ TimerFires \/ PressEnter
  \/ \E r \in running, p \in Paths, k \in {"hit", "denied", "done", "error"} : Send(r, k, p)
  \/ Handle \/ FlushHits \/ DismissDenied \/ Close
  \/ \E i \in 1..2 : Hover(i) \/ SelectResult(i)
  \/ ReplaceOne \/ ReplaceEverywhere

TypeOK ==
  /\ prefs.query \in Queries /\ prefs.include \subseteq Roots \cup UNION {p.include : p \in Saved}
  /\ \A r \in ToSet(results \o buffered) : r.query \in Queries /\ r.path \in Paths
  /\ searching \/ timer \/ results # <<>> => open
  /\ asked \in 0..MaxJobs /\ Len(events) <= MaxEvents

(* While the list says it is searching, and cannot be replaced, a search is   *)
(* on its way that will end that: whatever order searches are begun, given up, *)
(* closed and answered in (useSearchSession.ts:126).                         *)
SearchingHasAJob ==
  searching =>
    \/ \E c \in calls : c.op \in {"newJob", "start"}
    \/ \E r \in running : r.job \in jobId
    \/ \E i \in DOMAIN events : events[i].job \in jobId /\ events[i].kind \in {"done", "error"}
===============================================================================
