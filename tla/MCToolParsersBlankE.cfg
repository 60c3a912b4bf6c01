CONSTANTS
  None = None
  MaxTrace = 4
  MaxSuites = 0
  MaxCompiled = 0
  Ids <- TestIds
  Logs <- SomeTraces
SPECIFICATION Spec
INVARIANT HeaderIsReported
