SPECIFICATION MCSpec
CONSTANTS
  batch = batch
  other = other
  Calls = {batch, other}
  QuestionsOf <- TwoAndOne
  Retries = 2
  HasBackup = TRUE
  AllowFailed = FALSE
  JevCap = 4
  Spent = 0
  Gens = {batch, other}
  LlmRetries = 1
  Lookups = 2
  Price = 1
  Ceil = 2
  LlmCap = 4
  LlmCallCap = 4
  Replies = {"good", "cut_off", "garbled"}
  Shapes = {"pair", "custom"}
INVARIANTS
  
  LlmReceipts
  
PROPERTY SpendingEnds
CHECK_DEADLOCK FALSE
