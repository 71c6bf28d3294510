SPECIFICATION MCSpec
CONSTANTS
  t1 = t1  t2 = t2  t3 = t3  f1 = f1  f2 = f2
  Targets = {t1, t2, t3}
  Root = t1
  NoTarget = NoTarget
  Subframes = {f1, f2}
  Responses = {1, 2}
  Confs <- MCConfs
  MaxFrames = 2
  MaxMoves = 2
INVARIANTS
  SessionKept
  GateBeforeDocument
PROPERTY NothingWaits
