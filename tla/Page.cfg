SPECIFICATION MCSpec
CONSTANTS
  f1 = f1  f2 = f2
  Scenes <- MCScenes
  MaxEvents = 3
  Frames = {f1, f2}
  ReadScenes <- MCReadScenes
  MaxRereads = 2
  HistoryRereads = 1
  NavigateAttempts = 2
  MaxTurns = 2
INVARIANTS
  ActKept
  ReadKept

  
  
