SPECIFICATION MCSpec
CONSTANTS
  first = first
  second = second
  Requests = {first, second}
  RunIds = {first, second}
  RunIdOf <- OwnNames
  NoRun = NoRun
  Asks = 1
  MaxCancels = 2
  MaxLines = 2
  Setups <- MCSetups
  Browses <- MCBrowses
  Wire <- MCWire
  MaxProgress = 1
INVARIANTS
  ServeKept
  McpKept
PROPERTY FrontEndsAnswer
CHECK_DEADLOCK FALSE
