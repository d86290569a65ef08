\* One task, one operation after the other, each with its sync, beside
\* failures, dropped handlers and another client.
CONSTANTS
  Task = {t1}
  Jobs <- SyncingJobs
  MaxJobs = 3
  Name = {n1}
  n1 = n1
  FolderName = {home, other, review}
  other = other
  review = review
  Vault = home
  Part = {p1}
  p1 = p1
  MaxItems = 4
  MaxFolders = 4
  MaxOutside = 1
  Faults = TRUE
  None = None
SPECIFICATION Spec
INVARIANTS CacheInv
PROPERTIES WritesSound
CHECK_DEADLOCK FALSE
