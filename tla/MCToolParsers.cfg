CONSTANTS
  None = None
  MaxTrace = 4
  MaxSuites = 5
  MaxCompiled = 5
  Ids <- TestIds
  Logs <- AllLogs
SPECIFICATION FairSpec
INVARIANTS
  TypeOK
  LostOnlyToRulers
  IdIsTheTests
  StoryIsItsOwn
  LastRaised
  LocatedInProject
  JsTestsKeepTheirLines
  RowsUnderTheirFile
  TestsComeFirst
PROPERTY ParsingEnds
