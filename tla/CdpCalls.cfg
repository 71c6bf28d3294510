SPECIFICATION FairSpec
CONSTANTS
  click = click
  read = read
  check = check
  tab = tab
  frame = frame
  Commands = {click, check}
  WedgeChecks = {check}
  Sessions = {tab}
  NoSession = NoSession
  SessionOf <- MCSessionOf
  StopAt = 2
  RoundsOf <- NoRounds
  MaxEvents = 1
  MaxInFlight = 2
  MaxMissed = 1
PROPERTIES
  LateAnswersCount
  EveryCommandReturns
CHECK_DEADLOCK FALSE
