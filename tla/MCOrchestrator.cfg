CONSTANTS
  p1 = p1
  p2 = p2
  a = a
  b = b
  None = None
  Proc = {p1, p2}
  Identity = {a, b}
  MaxAttempts = 2
  MaxCalls = 2
  MaxFaults = 1
  RunId = {1}
  Writer = {1, 2}
  Integration = 3
  HasFallback = {1}
  File = {"f", "g"}
  Edits = {{"f"}, {"g"}}
  Scope <- MCScope
  Tries <- MCTries
  MaxOdd = 1
SPECIFICATION OrchestratorSpec
SYMMETRY Symmetry
INVARIANTS
  AcceptedHasReceipt
  WorkIsBound
  ForkDriftsOnlyLate
  JudgedAsAccepted
  AcceptedIsOwnWork
PROPERTY LedgerKept
CHECK_DEADLOCK FALSE
