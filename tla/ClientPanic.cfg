SPECIFICATION Spec
CONSTANTS
  Callers = {k1}
  EventsCap = 1
  PipeCap = 1
  MaxEvents = 1
  MayGarble = FALSE
  MayGiveUp = FALSE
CHECK_DEADLOCK FALSE
INVARIANT ReaderSurvives
