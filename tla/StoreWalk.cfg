SPECIFICATION Spec
CONSTANTS
  Callers = {c1, c2}
  Blind = {c2}
  Users = {u1, u2}
  TaskIDs = {1, 2}
  Statuses = {working, completed}
  Nothing = Nothing
  PageSize = 1
  MaxVersion = 3
  MaxWrites = 4
  MaxClock = 2
SYMMETRY StoreSymmetry
VIEW StoreView
INVARIANT StoreTypeOK
INVARIANT ListShowsWhatItSelected
INVARIANT WalkListsOnce
INVARIANT WalkMissesOnlyMoved
PROPERTY ImplementsRegister
CHECK_DEADLOCK FALSE
