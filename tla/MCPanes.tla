------------------------------ MODULE MCPanes ------------------------------
(* A small disk: the root, a folder with a file, the trash, a remote folder.  *)
EXTENDS Panes

MCHome == <<"/">>
MCTrash == <<"trash">>
MCDocs == <<"/", "docs">>
MCSsh == <<"ssh">>
MCRemote == {MCSsh}
MCListing ==
  (MCHome :> <<MCDocs, <<"/", "note">> >>) @@
  (MCDocs :> <<MCHome, <<"/", "docs", "cv">> >>) @@
  (MCTrash :> <<MCHome>>) @@
  (MCSsh :> <<  <<"ssh", "f">> >>)

MCSaved == [left |-> <<MCDocs, MCHome>>, right |-> <<MCSsh>>]
MCSavedActive == [left |-> 1, right |-> 1]
MCBootId == [left |-> <<"t1", "t2">>, right |-> <<"t3">>]

(* The bound: so many gestures of the user; answers are not counted.         *)
CONSTANT MaxSteps
VARIABLE steps
MCInit == Init /\ steps = 0
MCNext ==
  /\ Next
  /\ steps' = IF Cardinality(calls') < Cardinality(calls) THEN steps ELSE steps + 1
  /\ steps' <= MaxSteps
MCSpec == MCInit /\ [][MCNext]_<<vars, steps>>
=============================================================================
