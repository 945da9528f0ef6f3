CONSTANTS
  null = null
  Node = {1, 2, 3}
  Token = {1}
  NoToken = null
  ReplaySafe = {1, 2, 3}
  Journaled = FALSE
  TTL = 1
  MaxNow = 2
  MaxGeneration = 1
  MaxAttempts = 3
  Needs <- Chain
  Required = {1, 2, 3}
  Policy <- NoJoin
  Votes <- NoVotes
  MaxTries <- OneTry
  MaxConcurrency = 2
  MaxTotal = 3
  Deadline = 3
  Operator = {}
  Mortal = {}
  Interruptible = {}
  Corruptible = {}
  Exported = {3}
SPECIFICATION SchedSpec
INVARIANT NeverStalled
CHECK_DEADLOCK FALSE
