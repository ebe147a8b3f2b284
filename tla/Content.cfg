SPECIFICATION Spec
CONSTANTS
  Items = {i1, i2}
  Questions = {1, 2}
  Messages <- Small
  FlagChoices <- CommandLines
  MaxPieces = 2
  MaxTurns = 2
  InboxCap = 1
  Nothing = Nothing
SYMMETRY ItemSymmetry
VIEW ContentView
CHECK_DEADLOCK FALSE
INVARIANT ContentTypeOK
INVARIANT ArtifactsShowOutput
INVARIANT QuestionsFindAnswers
INVARIANT TurnGetsWhatWasSaid
