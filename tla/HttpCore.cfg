\* Every walk over two addresses, every answer, every split of the reads,
\* hang-ups, failures, SIGINT, and shell calls with every short output.
SPECIFICATION TurnSpec
CONSTANTS
  MaxSizeLine = 5
  BufSize = 3
  MaxHeader = 4
  MaxErrHead = 4
  RequestWrites = 3
  Responses <- MCTurnResponses
  ShellAnswers <- MCShellAnswers
  MaxCalls = 2
  MaxAddresses = 2
  ChunkSize = 3
  Cap = 4
  MaxOutput = 9
INVARIANTS
  TurnTypeOK
  FramingExact
  OneSocket
  ReportTrue
PROPERTIES
  ImplementsDelivery
  TurnReturns
  ShellReturns
  InterruptEndsTurn
