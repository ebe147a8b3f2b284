SPECIFICATION Spec
CONSTANTS
  Tasks = {t1}
  Contexts = {c1}
  NoTask = NoTask
  NoContext = NoContext
  MaxTurns = 1
  InboxCap = 1
  MayCancel = TRUE
  MayStop = FALSE
  MayClose = FALSE
  MayCrash = FALSE
CHECK_DEADLOCK FALSE
INVARIANT NoYieldAfterStop
