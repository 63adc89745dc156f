---------------------------- MODULE SessionBytes ----------------------------
(***************************************************************************)
(* The session file byte by byte.  Session takes a file to be a sequence   *)
(* of lines that hold a message alone, glued to another, or torn; this     *)
(* module writes and reads the bytes with the printer and the parser of    *)
(* JsonText, cuts a write at any of them, and shows that every step is the *)
(* one Session makes of it.                                                *)
(***************************************************************************)
EXTENDS JsonText

CONSTANTS
  Contents,       (* The strings messages are about.                       *)
  ForeignLines,   (* Lines that somebody else has put into the file.       *)
  MaxWrites       (* Bound of the model: appends and rewrites.            *)

ASSUME ContentsAssumption == Contents \subseteq Seq(Byte)
ASSUME ForeignAssumption  == ForeignLines \subseteq Seq(Byte \ {Newline})

(* None of them is a number or a string alone, of which a piece would be   *)
(* another number, or a string that a later line closes.                   *)
ASSUME ForeignValues ==
  \A line \in ForeignLines : cJSON_Parse(line).node.type \notin {"string", "number"}

VARIABLES
  bytes,          (* The session file.                                     *)
  messages,       (* Those of the running process, if there is one.        *)
  running,
  said,           (* History: the messages somebody has put into the file. *)
  writes,         (* Appends and rewrites so far.                          *)
  disk            (* Session's view of the bytes.                          *)

vars == <<bytes, messages, running, said, writes, disk>>

(* {"r":content}, for the objects main.c makes.                            *)
Message(content) ==
  With([Node("string") EXCEPT !.key = <<114>>, !.str = content], Node("object"))

BytesInit == bytes = <<>> /\ messages = <<>> /\ running = FALSE /\ said = {}
             /\ writes = 0 /\ disk = <<>>

(* Mutant: the NUL at the end of the text is written as well.              *)
session_append_Nul(m) ==
  LET text == Append(cJSON_PrintUnformatted(m), 0)
  IN  \E k \in 0..Len(text), newline \in {<<>>, <<Newline>>} :
        bytes' = bytes \o SubSeq(text, 1, k) \o newline

(* Any part of what was to be written arrives, or only the newline of it.  *)
session_append(m) ==
  LET text == cJSON_PrintUnformatted(m)
  IN  \E k \in 0..Len(text), newline \in {<<>>, <<Newline>>} :
        bytes' = bytes \o SubSeq(text, 1, k) \o newline

(* The unchecked fclose lets any beginning of the new file be renamed.     *)
session_rewrite ==
  LET Whole == FlattenSeq([i \in 1..Len(messages) |->
                             Append(cJSON_PrintUnformatted(messages[i]), Newline)])
  IN  \E k \in 0..Len(Whole) : bytes' = SubSeq(Whole, 1, k)

(* getline, byte by byte: the lines that are complete, but for those of    *)
(* length 0, and the one that is not.                                      *)
EndLine(lines) ==
  [done |-> IF lines.open = <<>> THEN lines.done ELSE Append(lines.done, lines.open), open |-> <<>>]

GetLines(file) ==
  LET read[i \in 0..Len(file)] ==
        IF i = 0 THEN [done |-> <<>>, open |-> <<>>]
        ELSE IF file[i] = Newline THEN EndLine(read[i - 1])
        ELSE [read[i - 1] EXCEPT !.open = Append(@, file[i])]
  IN  read[Len(file)]

(* The lines and what comes of them.                                       *)
ParsedLines(file) ==
  LET lines == EndLine(GetLines(file)).done
  IN  [i \in DOMAIN lines |-> [text |-> lines[i], node |-> cJSON_Parse(lines[i]).node]]

(* A line that does not parse is skipped.                                  *)
Loaded(lines) ==
  FlattenSeq([i \in 1..Len(lines) |-> IF lines[i].node = Null.node THEN <<>> ELSE <<lines[i].node>>])

session_load == messages' = Loaded(ParsedLines(bytes))

-----------------------------------------------------------------------------
Start ==
  /\ ~running /\ running' = TRUE
  /\ session_load \/ messages' = <<>>
  /\ UNCHANGED <<bytes, said, writes>>

Writing == running /\ writes < MaxWrites /\ writes' = writes + 1 /\ UNCHANGED running

Say ==
  /\ Writing
  /\ \E c \in Contents :
       /\ messages' = Append(messages, Message(c))
       /\ session_append(Message(c))
       /\ said' = said \cup {Message(c)}

Rewrite == Writing /\ session_rewrite /\ UNCHANGED <<messages, said>>

Stop ==
  /\ running /\ running' = FALSE
  /\ messages' = <<>> /\ UNCHANGED <<bytes, said, writes>>

(* Somebody edits the file; a line that is not JSON says nothing.          *)
Foreign ==
  /\ ~running /\ bytes = <<>>
  /\ \E line \in ForeignLines :
       /\ bytes' = Append(line, Newline)
       /\ said' = said \cup ({cJSON_Parse(line).node} \ {Null.node})
  /\ UNCHANGED <<messages, running, writes>>

(* Session's view of a file.                                               *)
Shown(line) ==
  IF line.node = Null.node THEN "torn"
  ELSE IF line.text = cJSON_PrintUnformatted(line.node) THEN "alone" ELSE "glued"

View(file) ==
  LET lines == ParsedLines(file)
  IN  [i \in DOMAIN lines |->
         IF lines[i].node = Null.node
         THEN [msg |-> [role |-> "user", content |-> <<>>], shape |-> "torn"]
         ELSE [msg |-> lines[i].node, shape |-> Shown(lines[i])]]

BytesNext == (Start \/ Say \/ Rewrite \/ Stop \/ Foreign) /\ disk' = View(bytes')

BytesSpec == BytesInit /\ [][BytesNext]_vars

-----------------------------------------------------------------------------
BySession == INSTANCE Session WITH
  ToolId <- {}, NoId <- "", KeepLast <- 0, MaxToolIter <- 1, Responses <- {},
  InitialDisks <- {}, MaxLines <- 0, Faults <- {"lost", "torn", "glued", "short"},
  eol <- (bytes = <<>> \/ bytes[Len(bytes)] = Newline),
  pc <- "", oneshot <- FALSE, rc <- 0, interrupt <- FALSE, iter <- 0, response <- <<>>,
  results <- <<>>, idx <- 1, pruned <- FALSE, base <- 0, retry <- FALSE

(* The file is text: no string of the program holds a NUL, and none of its *)
(* bytes is more than one (tinyjson.h:257-259, 378-399).                   *)
BytesTypeOK ==
  /\ \A i \in DOMAIN bytes : bytes[i] \in 1..255
  /\ running \in BOOLEAN /\ Len(messages) \in Nat

(* A line is a message and a message a line, whatever its strings hold:    *)
(* wherever an append or a rewrite is cut, the file is one that Session's  *)
(* own session_append or session_rewrite leaves (main.c:1015-1037).        *)
FileAsSession ==
  [][running /\ running' =>
       IF messages' = messages THEN BySession!session_rewrite
       ELSE BySession!session_append(messages'[Len(messages')])]_vars

(* What is loaded has been said: the pieces that cut writes leave behind,  *)
(* with whatever is written after them, never parse as a message nobody    *)
(* has written (main.c:1070-1076).                                         *)
NothingForged == \A i \in DOMAIN messages : messages[i] \in said
=============================================================================
