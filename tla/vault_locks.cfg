CONSTANTS
  Roots = {v}
  Ops = {o1, o2}
  Into = {o1}
  MaxUnlocks = 2
  MaxTime = 1
  IdleMinutes = 1
  StaleRows = FALSE
SPECIFICATION FairSpec
INVARIANTS TypeOK CiphersMatch KeyKeptInUse InFlightExact
PROPERTIES DeferredLockLands KeysGetWiped
