------------------------------- MODULE Tools -------------------------------
(***************************************************************************)
(* dispatch_tool over the file that edit_file edits and read_file shows.   *)
(* A behaviour is a sequence of calls of one of the two; what the file     *)
(* goes through meanwhile is the work of other programs, and that of a     *)
(* shell command, the other tool or another `sa` is no different.          *)
(***************************************************************************)
EXTENDS EditFile, ReadFile

CONSTANTS
  LF,                     (* The byte a line ends with.                    *)
  Offsets, Limits,        (* Arguments of read_file.                       *)
  FilesOf(_)              (* Bound: the OutsideFiles a tool is tried with. *)

VARIABLE tool             (* See above.                                    *)

ASSUME ToolsAssumption ==
  /\ LF \in Chars
  /\ Offsets \subseteq Int /\ Limits \subseteq Int
  /\ \A l \in Line : l \in Contents /\ Size(l) = Len(l)
                   /\ (HasNul(l) <=> \E i \in 1..Len(l) : l[i] = NUL)
  /\ \A t \in {"edit_file", "read_file"} : \A c \in FilesOf(t) :
       \A i, j \in 1..Len(c) : i <= j => SubSeq(c, i, j) \in Line

toolsVars == <<tool, vars, readVars>>

(* Mutant: the newline is no part of the line.                             *)
LinesOf_Chomp(c) ==
  LET Ends     == {i \in 1..Len(c) : c[i] = LF \/ i = Len(c)}
      Start(i) == Max({0} \cup {j \in Ends : j < i}) + 1
  IN  FlattenSeq([i \in 1..Len(c) |-> IF i \in Ends THEN <<SubSeq(c, Start(i), i - 1)>> ELSE <<>>])

(* The lines getline returns: each ends with its newline or with the file. *)
LinesOf(c) ==
  LET Ends     == {i \in 1..Len(c) : c[i] = LF \/ i = Len(c)}
      Start(i) == Max({0} \cup {j \in Ends : j < i}) + 1
  IN  FlattenSeq([i \in 1..Len(c) |-> IF i \in Ends THEN <<SubSeq(c, Start(i), i)>> ELSE <<>>])

ToolsInit ==
  /\ tool \in {"edit_file", "read_file"}
  /\ Init /\ ReadInit
  /\ file \in FilesOf(tool) \cup {NoFile}
  /\ tool = "read_file" => request = CHOOSE q \in Requests : TRUE

-----------------------------------------------------------------------------
EditTool ==
  /\ tool = "edit_file"
  /\ Edit \/ Kill
  /\ UNCHANGED <<tool, readVars>>

read_file_tool ==
  \/ \E o \in Offsets, l \in Limits : ReadBegin(o, l)
  \/ file # NoFile /\ ReadOpen(LinesOf(file))
  \/ (file = NoFile \/ "io" \in Faults) /\ CannotOpen
  \/ "io" \in Faults /\ ReadError
  \/ Loop

ReadTool ==
  /\ tool = "read_file"
  /\ read_file_tool
  /\ UNCHANGED <<tool, vars>>

(* Another program puts a new file in place of the old one, which an open  *)
(* reader does not notice, or writes into it, which it does.               *)
OtherPrograms ==
  /\ Outside /\ file' \in FilesOf(tool)
  /\ \/ UNCHANGED readVars
     \/ \E k \in 1..(Len(file') + 1) : WrittenInPlace(LinesOf(SubSeq(file', k, Len(file'))))
  /\ UNCHANGED tool

ToolsNext == EditTool \/ ReadTool \/ OtherPrograms

ToolsSpec == ToolsInit /\ [][ToolsNext]_toolsVars

-----------------------------------------------------------------------------
(* edit_file and read_file keep their variables within type.               *)
ToolsTypeOK == TypeOK /\ ReadTypeOK

(* Over the file, and with what happens to it, the reader is the one of    *)
(* ReadFile, whose theorems are about every file and argument.             *)
ReaderAlone == ReadSpec
=============================================================================
