CONSTANTS
  MaxLines = 7
  Logs <- AllLogs
SPECIFICATION Spec
INVARIANTS
  TypeOK
  SpansMatchBrackets
  SpansNest
  ParentIsInnermost
  StampIsInnermost
PROPERTY ImplementsReference
\* the loop ends with the log
CHECK_DEADLOCK FALSE
