CONSTANTS
  ToolId <- MCToolId
  NoId = "none"
  KeepLast = 1
  MaxToolIter = 3
  Responses <- MCFewResponses
  InitialDisks <- MCFreshDisk
  Faults = {}
  MaxLines = 4
SPECIFICATION Spec
PROPERTY HistoryKept
