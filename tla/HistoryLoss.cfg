SPECIFICATION Spec
CONSTANTS
  Tasks = {t1}
  Contexts = {c1}
  NoTask = NoTask
  NoContext = NoContext
  MaxTurns = 2
  InboxCap = 1
  MayCancel = FALSE
  MayStop = FALSE
  MayClose = FALSE
  MayCrash = FALSE
CHECK_DEADLOCK FALSE
PROPERTY ContextKeepsHistory
