\* Two messages to a process, cut at every byte, on files with a foreign line;
\* trees of up to four messages through load, prune, requests and turns.
SPECIFICATION JsonSpec
CONSTANTS
  Contents <- MCContents
  ForeignLines <- MCForeignLines
  MaxWrites = 2
  Nil = 0
  MaxMessages = 4
  Lines <- MCLines
  Answers <- MCAnswers
INVARIANTS
  BytesTypeOK
  NothingForged
  HeapExact
PROPERTIES
  FileAsSession
CHECK_DEADLOCK FALSE
