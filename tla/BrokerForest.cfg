SPECIFICATION BrokerSpec
CONSTANTS
  Tasks = {t1, t2, t3}
  Contexts = {c1, c2}
  NoTask = NoTask
  NoContext = NoContext
SYMMETRY Symmetry
CHECK_DEADLOCK FALSE
INVARIANT TypeOK
INVARIANT ChildCountExact
INVARIANT NonEmptyContextHasLeaf
INVARIANT ClientIffActive
PROPERTY ImplementsForest
