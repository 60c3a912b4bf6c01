CONSTANTS
  None = None
  MaxTrace = 4
  MaxSuites = 0
  MaxCompiled = 0
  Ids <- TestIds
  Logs <- SomeNamesakes
SPECIFICATION Spec
INVARIANT TwoTestsTwoIds
