\* Two tasks, faults, a sync that may be stale.
CONSTANTS
  Task = {t1, t2}
  Kinds = {"client", "refresh", "session"}
  Paths = {"proxy", "transparent"}
  Writeback = TRUE
  Rotations = {TRUE, FALSE}
  MaxRequests = 1
  MaxSyncs = 1
  Faults = TRUE
  None = None
  Nobody = Nobody
SPECIFICATION FairSpec
INVARIANTS TokensInv RefusedOnlyWhenStale
PROPERTIES RequestsSound
CHECK_DEADLOCK FALSE
