CONSTANTS
  None = None
  MaxCompilerErrors = 4
  Emissions <- SomeEmissions
  MarkerLines <- Marked
  SectionOf <- Sections
  NormPath <- Path
  NormMessage <- Message
  NoPath <- EmptyPath
SPECIFICATION Spec
INVARIANTS
  TypeOK
  NonLossy
  RepeatsBesideOriginal
  ExitCodeNeverExplains
  BestFirst
  TestIsUnitOfFailure
