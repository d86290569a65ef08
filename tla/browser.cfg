\* Two calls for an item, and a queue that is soon full.
CONSTANTS
  Workflow = {w1, w2}
  Profiles = {TRUE, FALSE}
  Codes = {"none", "totp", "human", "push"}
  QueueMax = 2
  MaxFaults = 1
  None = None
SPECIFICATION MCSpec
INVARIANTS QueueInv RotationInv
PROPERTIES SuccessIsTrue WorkflowsEnd
\* WorkflowsEnd says which workflows may not be stuck.
CHECK_DEADLOCK FALSE
