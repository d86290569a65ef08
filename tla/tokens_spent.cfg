\* Does the next exchange use the refresh token that was written back?
CONSTANTS
  Task = {t1}
  Kinds = {"refresh"}
  Paths = {"proxy"}
  Writeback = TRUE
  Rotations = {TRUE, FALSE}
  MaxRequests = 2
  MaxSyncs = 0
  Faults = FALSE
  None = None
  Nobody = Nobody
SPECIFICATION Spec
INVARIANT NoSpentRefreshToken
CHECK_DEADLOCK FALSE
