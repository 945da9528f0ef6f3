CONSTANTS
  null = null
  Node = {1, 2, 3, 4}
  Token = {1}
  NoToken = null
  ReplaySafe = {1, 2, 3, 4}
  Journaled = FALSE
  TTL = 1
  MaxNow = 2
  MaxGeneration = 1
  MaxAttempts = 4
  Needs <- Relay
  Required = {1, 4}
  Policy <- VoteJoin
  Votes <- FirstVote
  MaxTries <- OneTry
  MaxConcurrency = 2
  MaxTotal = 4
  Deadline = 3
  Operator = {}
  Mortal = {}
  Interruptible = {}
  Corruptible = {}
  Exported = {4}
SPECIFICATION SchedSpec
PROPERTY StartsAfterNeeds
CHECK_DEADLOCK FALSE
