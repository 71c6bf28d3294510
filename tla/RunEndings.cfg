SPECIFICATION MCFairSpec
CONSTANTS
  StopAttempts = 2
  MaxStops = 3
  Tasks <- AllTasks
  CallLimit = 2
  MaxTold = 1
INVARIANTS
  RunCloses
  
PROPERTY StopsHeeded
