\* An update that does not sync, then a move.
CONSTANTS
  Task = {t1}
  Jobs <- MoveJobs
  MaxJobs = 2
  Name = {n1}
  n1 = n1
  FolderName = {home, other, review}
  other = other
  review = review
  Vault = home
  Part = {p1}
  p1 = p1
  MaxItems = 2
  MaxFolders = 3
  MaxOutside = 0
  Faults = FALSE
  None = None
SPECIFICATION Spec
PROPERTIES MoveKeepsSecrets
CHECK_DEADLOCK FALSE
