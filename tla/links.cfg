\* Every order in which two calls can be answered, to the end.
CONSTANTS
  ssh = ssh
  mega = mega
  smb = smb
  Hosts <- MCHosts
  Proto <- MCProto
  Profiles = {ssh}
  Panes = {left, right}
  Files = {config}
  Local = local
  None = none
  MaxCalls = 2
SPECIFICATION Spec
SYMMETRY Symmetry
INVARIANTS TypeOK NobodyWaitsForNothing
CHECK_DEADLOCK FALSE
