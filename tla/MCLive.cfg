CONSTANTS
  null = null
  Node = {1, 2, 3}
  Token = {1, 2}
  NoToken = null
  ReplaySafe = {1}
  Journaled = TRUE
  TTL = 2
  MaxNow = 3
  MaxGeneration = 2
  MaxAttempts = 3
  Needs <- Sequel
  Required = {1, 3}
  Policy <- SequelJoin
  Votes <- NoVotes
  MaxTries <- OneTry
  MaxConcurrency = 1
  MaxTotal = 3
  Deadline = 4
  Operator = {}
  Mortal = {1}
  Interruptible = {}
  Corruptible = {2}
  Exported = {2, 3}
SPECIFICATION FairSpec
INVARIANT SuccessMeansAll
PROPERTIES
  ActsAsStoreClient
  Returns
CHECK_DEADLOCK FALSE
