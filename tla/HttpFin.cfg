\* A stream that ends without a close_notify, and SIGINT.
SPECIFICATION TurnSpec
CONSTANTS
  MaxSizeLine = 5
  BufSize = 3
  MaxHeader = 4
  MaxErrHead = 4
  RequestWrites = 1
  Responses <- MCShellAnswers
  ShellAnswers <- MCShellAnswers
  MaxCalls = 1
  MaxAddresses = 1
  ChunkSize = 3
  Cap = 4
  MaxOutput = 3
PROPERTIES
  InterruptReturns
