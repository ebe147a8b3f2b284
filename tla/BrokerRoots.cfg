SPECIFICATION BrokerSpec
CONSTANTS
  Tasks = {t1, t2}
  Contexts = {c1}
  NoTask = NoTask
  NoContext = NoContext
SYMMETRY Symmetry
CHECK_DEADLOCK FALSE
INVARIANT OneRootPerContext
