CONSTANTS
  w1 = w1
  w2 = w2
  null = null
  Worker = {w1, w2}
  NoWorker = null
  LeaseMs = {1, 2}
  MaxClock = 4
  MaxGeneration = 3
  MaxCalls = 2
  p = p
  q = q
  one = one
  two = two
  base = base
  moved = moved
  None = null
  Proc = {p, q}
  Run = {one, two}
  Scope = {base, moved}
  MaxLaunches = 3
  Checks = 2
  MaxAttempts = 3
  Output = {"error", "other error"}
  MaxTimeouts = 2
  MaxTries = 2
  Card = {"card", "other card"}
  MaxOdd = 2
  Caller = {"one", "other"}
  Value = {"x", "y"}
  Shard = {"x", "y"}
  ShardOf <- MCShardOf
  MaxFaults = 2
  Lane = {"alpha", "beta"}
  Refuters = 3
  MaxSwarms = 2
  MaxMishaps = 1
  Listener = {"listener"}
  Fact = {"x", "y"}
  Limit = 2
  MaxEvents = 4
  MaxRestores = 1
  Consumer = {"mcp"}
  PrConsumer = {"mcp"}
  Observation <- MCObservation
  MaxRefusals = 2
SPECIFICATION ServicesSpec
SYMMETRY MCSymmetry
INVARIANTS
  NothingForged
  RetryPollsSameTask
  OneRunPerScope
  RecordedIsReadable
  ExitIsEvidence
  SuccessIsProven
  OneIssuePerPr
PROPERTIES
  DrawnOnce
  TakenOverWhenExpired
  HeardIsJournal
  HeartbeatMeansTold
CHECK_DEADLOCK FALSE
