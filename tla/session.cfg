\* Two tasks renew the token of a peer that may rotate its refresh token.
CONSTANTS
  Task = {t1, t2}
  MaxRequests = 1
  Rotations = {TRUE, FALSE}
  Lifetimes = {TRUE}
  None = None
  Nobody = Nobody
SPECIFICATION FairSpec
INVARIANTS SessionInv RefreshTokenUsable
PROPERTIES RetriesOnce RequestsEnd
CHECK_DEADLOCK FALSE
