CONSTANTS
  null = null
  None = null
  Overlap = {}
  Flows <- JournalFlow
  MaxCalls = 2
SPECIFICATION ControlSpec
INVARIANT FailsForCause
CHECK_DEADLOCK FALSE
