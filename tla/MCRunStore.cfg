CONSTANTS
  n1 = n1
  t1 = t1
  t2 = t2
  null = null
  Node = {n1}
  Token = {t1, t2}
  NoToken = null
  ReplaySafe = {}
  Journaled = FALSE
  TTL = 2
  MaxNow = 4
  MaxGeneration = 3
  MaxAttempts = 2
SPECIFICATION Spec
SYMMETRY MCSymmetry
VIEW MCView
INVARIANTS
  OneOwner
  RowsAgree
  AcceptedEvidence
  AttemptsFollowLeases
PROPERTIES
  SettledInOwnGeneration
  HistoryKept
  ImplementsFencedWork
CHECK_DEADLOCK FALSE
