\* One client that saves its settings, and nothing fails.
CONSTANTS
  Client = {c1}
  MaxCalls = 2
  MaxFaults = 0
  None = None
SPECIFICATION SpecInConfig
INVARIANT SavedPermissionsApply
CHECK_DEADLOCK FALSE
