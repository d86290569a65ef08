\* One item and one collection; notifications beside polling and a caller; two
\* changes in the cloud and two failures.
CONSTANTS
  Item = {i1}
  Collection = {c1}
  Poll = Poll
  Ws = Ws
  Caller = {h1}
  MaxEdits = 2
  MaxFaults = 2
  MaxCopies = 6
  MaxWire = 2
  None = None
  Nobody = Nobody
SPECIFICATION Spec
INVARIANTS CopiesInv MirrorFollows
\* The edits and the failures run out: nothing more need happen to callers.
CHECK_DEADLOCK FALSE
