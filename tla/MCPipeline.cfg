CONSTANTS
  None = None
  MaxLogLines = 4
  TailChars = 5
  Logs <- SomeLogs
  Limits <- SomeLimits
  Specialized <- TwoParsers
  BlockLines <- Blocks
SPECIFICATION Spec
INVARIANTS
  TypeOK
  ExitCodeSurvives
  OneExitCode
  LinesAreTheLogs
  NothingLostSilently
  CleanMeansClean
