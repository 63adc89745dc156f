\* Calls of edit_file and of read_file, with every fault.
SPECIFICATION ToolsSpec
CONSTANTS
  Chars = {"a", "b", "z", "n"}
  NUL = "z"
  LF = "n"
  OutsideFiles <- MCOutsideFiles
  FilesOf <- MCFilesOf
  Requests <- MCRequests
  MaxEditSize = 3
  Faults = {"kill", "io", "writers"}
  MaxLitter = 1
  NoFile = NoFile
  Offsets <- MCOffsets
  Limits <- MCLimits
  Line <- MCLine
  Size <- MCSize
  HasNul <- MCHasNul
  PrefixSize = 1
  MaxBytes = 5
  DefaultLimit = 3
INVARIANTS
  ToolsTypeOK
  PageRight
  PagingMissesNothing
  PageBounded
PROPERTIES
  KeepsPromise
  ReaderAlone
