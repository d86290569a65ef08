\* Does the mutex keep other reloads from racing?
CONSTANTS
  Caller = {h1}
  Sighup = Sighup
  Triggers = {"both"}
  MaxEdits = 1
  MaxReloads = 1
  MaxSignals = 1
  Nobody = Nobody
SPECIFICATION Spec
INVARIANT RegistryMatchesClients
CHECK_DEADLOCK FALSE
