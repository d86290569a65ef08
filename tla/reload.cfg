\* Reloads over HTTP, or by SIGHUP, but not both.
CONSTANTS
  Caller = {h1, h2}
  Sighup = Sighup
  Triggers = {"http", "signal"}
  MaxEdits = 2
  MaxReloads = 2
  MaxSignals = 3
  Nobody = Nobody
SPECIFICATION FairSpec
INVARIANTS ReloadInv
PROPERTIES GoesForward SignalServed
CHECK_DEADLOCK FALSE
