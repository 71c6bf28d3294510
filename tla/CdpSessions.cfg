SPECIFICATION Spec
CONSTANTS
  click = click
  read = read
  check = check
  tab = tab
  frame = frame
  Commands = {click, read}
  WedgeChecks = {}
  Sessions = {tab, frame}
  NoSession = NoSession
  SessionOf <- MCSessionOf
  StopAt = 1
  RoundsOf <- ReadOnly
  MaxEvents = 0
  MaxInFlight = 1
  MaxMissed = 0
INVARIANTS
  PendingIsAwaited
  RepliesReachTheirCall
  RefusalNeedsItsOwnDeadlines
CHECK_DEADLOCK FALSE
