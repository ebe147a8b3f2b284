SPECIFICATION FairSpec
CONSTANTS
  Tasks = {t1}
  Contexts = {c1}
  NoTask = NoTask
  NoContext = NoContext
  MaxTurns = 3
  InboxCap = 2
  MayCancel = TRUE
  MayStop = TRUE
  MayClose = TRUE
  MayCrash = TRUE
CHECK_DEADLOCK FALSE
INVARIANT ExecTypeOK
INVARIANT NoOrphanProcess
INVARIANT ConsumerHasTurn
INVARIANT TurnStartsOnQuietThread
INVARIANT TerminalTaskReleased
INVARIANT ClientLostOnlyToClose
INVARIANT PausedTaskIsResumable
INVARIANT NoLimbo
INVARIANT CancelRecorded
PROPERTY CanceledTaskIsReleased
PROPERTY CloseEndsReaders
