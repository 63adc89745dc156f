\* Every body, every way to cut it into chunks and to break it off.
SPECIFICATION Spec
CONSTANTS
  MaxBlocks = 2
  MaxLine = 5
  MaxBlockSize = 3
  Events <- MCEvents
  Size <- MCSize
  Payloads <- MCPayloads
INVARIANTS
  TypeOK
  BlocksReplay
  ToolsAreWhole
