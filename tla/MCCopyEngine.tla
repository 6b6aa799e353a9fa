---------------------------- MODULE MCCopyEngine ----------------------------
(***************************************************************************)
(* Instances of CopyEngine for TLC.                                         *)
(***************************************************************************)
EXTENDS CopyEngine, TLC

\* A directory of a file and a symlink, a file whose name is taken, a file.
MCLeaves == <<<<"file", "link">>, <<"file">>, <<"file">>>>
MCDirs == {1}
MCBase == <<"d", "f", "g">>
MCTaken == {<<"f", 0>>}

\* One directory with more files than the channel and the worker can hold.
FullLeaves == <<<<"file", "file", "file", "file">>>>
FullBase == <<"d">>

\* Two directories of one base name, and nothing in the destination.
TwinLeaves == <<<<"file">>, <<"file">>>>
TwinBase == <<"d", "d">>

WorkerSymmetry == Permutations(Workers)
=============================================================================
