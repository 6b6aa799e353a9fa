---------------------------- MODULE MCConnections ----------------------------
(* One host of each protocol, two panes and two calls in flight at a time.    *)
EXTENDS Connections, TLC

CONSTANTS ssh, mega, smb

MCHosts == {ssh, mega, smb}
MCProto == [h \in MCHosts |-> IF h = ssh THEN "ssh" ELSE IF h = mega THEN "mega" ELSE "smb"]
Symmetry == Permutations(Panes)
==============================================================================
