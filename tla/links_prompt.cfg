\* A login refused late takes over the dialog opened for another host.
CONSTANTS
  ssh = ssh
  mega = mega
  smb = smb
  Hosts <- MCHosts
  Proto <- MCProto
  Profiles = {ssh}
  Panes = {left, right}
  Files = {config}
  Local = local
  None = none
  MaxCalls = 2
SPECIFICATION Spec
INVARIANT PromptIsForItsRequest
CHECK_DEADLOCK FALSE
