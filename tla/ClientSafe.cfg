SPECIFICATION Spec
CONSTANTS
  Callers = {k1, k2}
  EventsCap = 1
  PipeCap = 2
  MaxEvents = 2
  MayGarble = TRUE
  MayGiveUp = TRUE
SYMMETRY CallerSymmetry
CHECK_DEADLOCK FALSE
INVARIANT TypeOK
INVARIANT InOrder
INVARIANT ResponseFollowsEvents
 
INVARIANT AnswersAreOwn
