CONSTANTS
  null = null
  None = null
  Overlap = {}
  Flows <- Mixed
  MaxCalls = 2
SPECIFICATION ControlFair
INVARIANTS
  NoFalseSuccess
  FreshInputs
  RouteFollowsSource
  VerifiedSuccess
  BudgetSuffices
  FailsForCause
PROPERTY Ends
CHECK_DEADLOCK FALSE
