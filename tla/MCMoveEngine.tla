---------------------------- MODULE MCMoveEngine ----------------------------
(***************************************************************************)
(* Instances of MoveEngine for TLC.                                         *)
(***************************************************************************)
EXTENDS MoveEngine, TLC

\* A directory of two files and a symlink, a file whose name is taken, a file.
MCLeaves == <<<<"file", "file", "link">>, <<"file">>, <<"file">>>>
MCBase == <<"d", "f", "g">>
MCTaken == {<<"f", 0>>}
=============================================================================
