CONSTANTS
  null = null
  Node = {1, 2}
  Token = {1, 2}
  NoToken = null
  ReplaySafe = {1}
  Journaled = FALSE
  TTL = 1
  MaxNow = 2
  MaxGeneration = 2
  MaxAttempts = 3
  Needs <- Edge
  Required = {1, 2}
  Policy <- NoJoin
  Votes <- NoVotes
  MaxTries <- OneTry
  MaxConcurrency = 1
  MaxTotal = 3
  Deadline = 3
  Operator = {}
  Mortal = {1}
  Interruptible = {}
  Corruptible = {1}
  Exported = {2}
SPECIFICATION SchedSpec
INVARIANT InterruptedEffectStops
CHECK_DEADLOCK FALSE
