CONSTANTS
  None = None
  MaxLogLines = 3
  TailChars = 3
  Logs <- SomeLogs
  Limits <- SomeLimits
  Specialized <- TwoParsers
  BlockLines <- Blocks
SPECIFICATION Spec
INVARIANTS
  RescueForgesNothing
