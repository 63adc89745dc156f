CONSTANTS
  ToolId <- MCToolId
  NoId = "none"
  KeepLast = 1
  MaxToolIter = 2
  Responses <- MCResponses
  InitialDisks <- MCDisks
  Faults = {}
  MaxLines = 4
SPECIFICATION FairSpec
INVARIANT TypeOK
INVARIANT ResumedPaired
INVARIANT NeverSendsPoison
INVARIANT DiskMirrorsMemory
PROPERTY RetryOnce
PROPERTY CompactionOnlyClears
PROPERTY ExitZeroMeansAnswered
PROPERTY TurnEnds
