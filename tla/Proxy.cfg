SPECIFICATION FairSpec
CONSTANTS
  Requests = {r1}
  Backlog = 2
  MaxGen = 3
CHECK_DEADLOCK FALSE
INVARIANT ProxyTypeOK
INVARIANT UnauthorizedIsSecondOpinion
INVARIANT ShutdownIsOrderly
PROPERTY RequestsGetResponses
PROPERTY ShutdownEnds
