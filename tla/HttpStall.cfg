\* A stream that breaks off after the status line.
SPECIFICATION Spec
CONSTANTS
  MaxSizeLine = 5
  BufSize = 3
  MaxHeader = 4
  MaxErrHead = 4
  RequestWrites = 3
  Responses <- MCResponses
INVARIANTS
  TransportErrorFailsTurn
