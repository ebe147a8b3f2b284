SPECIFICATION Spec
CONSTANTS
  Tasks = {t1, t2}
  Contexts = {c1}
  NoTask = NoTask
  NoContext = NoContext
  MaxTurns = 2
  InboxCap = 1
  MayCancel = FALSE
  MayStop = FALSE
  MayClose = FALSE
  MayCrash = TRUE
SYMMETRY TaskSymmetry
CHECK_DEADLOCK FALSE
INVARIANT KnownTurnBlocksBranching
 
