SPECIFICATION FairSpec
CONSTANTS
  Callers = {k1}
  EventsCap = 1
  PipeCap = 2
  MaxEvents = 2
  MayGarble = TRUE
  MayGiveUp = TRUE
CHECK_DEADLOCK FALSE
PROPERTY DeadProcessReleasesWaiters
PROPERTY PrintedReplyArrives
PROPERTY ImplementsContract
