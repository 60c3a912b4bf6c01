CONSTANTS
  None = None
  Absent = Absent
  Partial = Partial
  Complete = Complete
  CreatedAt <- TwoRuns
  RunOf <- RunOfJob
  AttemptOf <- AttemptOfJob
  FailedJobs <- Failing
  MaxAttempts = 2
  RunsPerPage = 2
  JobsPerPage = 2
SPECIFICATION FairSpec
INVARIANTS
  TypeOK
  SuccessMeansSaved
  AcceptedLogIsWhole
  OnlyNewestFailuresSaved
PROPERTIES
  SavedStaysSaved
  CommandEnds
