CONSTANTS
  ToolId <- MCToolId
  NoId = "none"
  KeepLast = 0
  MaxToolIter = 2
  Responses <- MCFewResponses
  InitialDisks <- MCFreshDisk
  Faults = {"crash", "lost", "torn", "glued", "short"}
  MaxLines = 2
SPECIFICATION Spec
INVARIANT TranscriptPaired
