CONSTANTS
  ToolId <- MCToolId
  NoId = "none"
  KeepLast = 2
  MaxToolIter = 3
  Responses <- MCFewResponses
  InitialDisks <- MCFreshDisk
  Faults = {"crash"}
  MaxLines = 4
SPECIFICATION Spec
INVARIANT ResumedPaired
