CONSTANTS
  null = null
  Node = {1, 2, 3, 4}
  Token = {1, 2}
  NoToken = null
  ReplaySafe = {1, 2, 3, 4}
  Journaled = TRUE
  TTL = 1
  MaxNow = 2
  MaxGeneration = 2
  MaxAttempts = 4
  Needs <- Vote
  Required = {4}
  Policy <- VoteJoin
  Votes <- Majority
  MaxTries <- TwoTries
  MaxConcurrency = 2
  MaxTotal = 4
  Deadline = 2
  Operator = {}
  Mortal = {}
  Interruptible = {1}
  Corruptible = {}
  Exported = {4}
SPECIFICATION SchedSpec
INVARIANTS
  JoinHonest
  BudgetsKept
CHECK_DEADLOCK FALSE
