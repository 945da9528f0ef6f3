CONSTANTS
  null = null
  Node = {1, 2}
  Token = {1, 2, 3}
  NoToken = null
  ReplaySafe = {2}
  Journaled = FALSE
  TTL = 1
  MaxNow = 3
  MaxGeneration = 3
  MaxAttempts = 3
  Needs <- Edge
  Required = {1, 2}
  Policy <- NoJoin
  Votes <- NoVotes
  MaxTries <- TwoTries
  MaxConcurrency = 2
  MaxTotal = 3
  Deadline = 9
  Operator = {2}
  Mortal = {}
  Interruptible = {}
  Corruptible = {}
  Exported = {2}
SPECIFICATION SchedSpec
INVARIANTS
  NoBlindReplay
PROPERTIES
  StartsAfterNeeds
  BlockedForCause
  CancelledStays
CHECK_DEADLOCK FALSE
