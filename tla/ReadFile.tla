------------------------------ MODULE ReadFile ------------------------------
(***************************************************************************)
(* read_file_tool: one page of a file, line by line.                       *)
(*                                                                         *)
(* A file is the sequence of its lines; of a line only its size and        *)
(* whether it holds a NUL matter.  The page is text handed on as a C       *)
(* string, so what is appended behind a NUL is lost.                       *)
(***************************************************************************)
EXTENDS Integers, Sequences

CONSTANTS
  Line,           (* The lines of files.                                   *)
  Size(_),        (* The bytes of a line, its newline included.            *)
  HasNul(_),      (* memchr(line, 0, len).                                 *)
  PrefixSize,     (* The bytes of "%6ld\t".                                *)
  MaxBytes,       (* 256 KB.                                               *)
  DefaultLimit    (* 2000.                                                 *)

ASSUME ReadAssumption ==
  /\ \A l \in Line : Size(l) \in Nat \ {0} /\ HasNul(l) \in BOOLEAN
  /\ PrefixSize \in Nat /\ MaxBytes \in Nat
  /\ DefaultLimit \in Nat \ {0}

VARIABLES
  rpc,            (* "idle", "fopen", "getline" or "broke".                *)
  offset, limit,  (* As they are once 0 and less have been replaced.       *)
  rest,           (* The lines getline has not returned yet.               *)
  lineno, shown,  (* Lines read, and those in out with their numbers.      *)
  total,
  answer,         (* What the last call returned.                          *)
  source,         (* History: the lines the file had when it was opened.   *)
  disturbed       (* History: written in place since, or a read failed.    *)

loop == <<rest, lineno, shown, total>>

Numbered == [number : Nat \ {0}, line : Line]

(* kind: "page", "cannot open", "binary", "empty" or "beyond"; hint is the *)
(* offset the reader is told to continue with, 0 if there is no hint.      *)
Answer == [kind : {"none", "page", "cannot open", "binary", "empty", "beyond"},
           lines : Seq(Numbered), capped : BOOLEAN, hint : Nat]

Says(kind) == [kind |-> kind, lines |-> <<>>, capped |-> FALSE, hint |-> 0]

ReadInit ==
  /\ rpc = "idle" /\ offset = 1 /\ limit = DefaultLimit
  /\ rest = <<>> /\ lineno = 0 /\ shown = <<>> /\ total = 0
  /\ answer = Says("none") /\ source = <<>> /\ disturbed = FALSE

ReadBegin(o, l) ==
  /\ rpc = "idle" /\ rpc' = "fopen"
  /\ offset' = IF o < 1 THEN 1 ELSE o
  /\ limit' = IF l <= 0 THEN DefaultLimit ELSE l
  /\ answer' = Says("none") /\ source' = <<>> /\ disturbed' = FALSE
  /\ UNCHANGED loop

ReadOpen(lines) ==
  /\ rpc = "fopen" /\ rpc' = "getline"
  /\ rest' = lines /\ source' = lines
  /\ UNCHANGED <<offset, limit, lineno, shown, total, answer, disturbed>>

ReadReturn(a) ==
  /\ rpc' = "idle" /\ answer' = a
  /\ rest' = <<>> /\ lineno' = 0 /\ shown' = <<>> /\ total' = 0
  /\ UNCHANGED <<offset, limit, source, disturbed>>

CannotOpen == rpc = "fopen" /\ ReadReturn(Says("cannot open"))

-----------------------------------------------------------------------------
(* The loop: each step is one getline and what follows it.                 *)

GetLine == rpc = "getline" /\ rest # <<>>

(* Also in a line that would be skipped, or that is behind the limit.      *)
Binary == GetLine /\ HasNul(Head(rest)) /\ ReadReturn(Says("binary"))

(* Mutant: offset counts from 0.                                           *)
SkipLine_FromZero ==
  /\ GetLine /\ ~HasNul(Head(rest))
  /\ lineno < offset
  /\ rest' = Tail(rest) /\ lineno' = lineno + 1
  /\ UNCHANGED <<rpc, offset, limit, shown, total, answer, source, disturbed>>

SkipLine ==
  /\ GetLine /\ ~HasNul(Head(rest))
  /\ lineno + 1 < offset
  /\ rest' = Tail(rest) /\ lineno' = lineno + 1
  /\ UNCHANGED <<rpc, offset, limit, shown, total, answer, source, disturbed>>

(* The line behind the page is counted before the limit is looked at.      *)
PastLimit ==
  /\ GetLine /\ ~HasNul(Head(rest))
  /\ lineno + 1 >= offset /\ Len(shown) >= limit
  /\ rpc' = "broke"
  /\ rest' = Tail(rest) /\ lineno' = lineno + 1
  /\ UNCHANGED <<offset, limit, shown, total, answer, source, disturbed>>

(* Mutant: the limit is off by one.                                        *)
ShowLine_OffByOne ==
  /\ GetLine /\ ~HasNul(Head(rest))
  /\ lineno + 1 >= offset /\ Len(shown) <= limit
  /\ rest' = Tail(rest) /\ lineno' = lineno + 1
  /\ shown' = Append(shown, [number |-> lineno + 1, line |-> Head(rest)])
  /\ total' = total + PrefixSize + Size(Head(rest))
  /\ rpc' = IF total' > MaxBytes THEN "broke" ELSE "getline"
  /\ UNCHANGED <<offset, limit, answer, source, disturbed>>

ShowLine ==
  /\ GetLine /\ ~HasNul(Head(rest))
  /\ lineno + 1 >= offset /\ Len(shown) < limit
  /\ rest' = Tail(rest) /\ lineno' = lineno + 1
  /\ shown' = Append(shown, [number |-> lineno + 1, line |-> Head(rest)])
  /\ total' = total + PrefixSize + Size(Head(rest))
  /\ rpc' = IF total' > MaxBytes THEN "broke" ELSE "getline"
  /\ UNCHANGED <<offset, limit, answer, source, disturbed>>

EndOfFile ==
  /\ rpc = "getline" /\ rest = <<>>
  /\ rpc' = "broke"
  /\ UNCHANGED <<offset, limit, loop, answer, source, disturbed>>

(* getline returns -1 for an error as it does for the end.                 *)
ReadError ==
  /\ rpc = "getline"
  /\ rpc' = "broke" /\ disturbed' = TRUE
  /\ UNCHANGED <<offset, limit, loop, answer, source>>

-----------------------------------------------------------------------------
Capped == total > MaxBytes

(* Mutant: the hint is one too far.                                        *)
Hint_Next == IF Len(shown) = limit /\ ~Capped THEN lineno + 1 ELSE 0

(* The note of the cap is appended with the NUL that ends it, so that a    *)
(* hint behind it does not reach the reader.                               *)
Hint == IF Len(shown) = limit /\ ~Capped THEN lineno ELSE 0

FinishPage ==
  /\ rpc = "broke"
  /\ ReadReturn(IF Len(shown) > 0
                THEN [kind |-> "page", lines |-> shown, capped |-> Capped, hint |-> Hint]
                ELSE Says(IF lineno = 0 THEN "empty" ELSE "beyond"))

Loop == Binary \/ SkipLine \/ PastLimit \/ ShowLine \/ EndOfFile \/ FinishPage

(* Another program writes the open file in place: what getline has not     *)
(* buffered yet is something else.                                         *)
WrittenInPlace(lines) ==
  /\ rpc = "getline"
  /\ rest' = lines /\ disturbed' = TRUE
  /\ UNCHANGED <<rpc, offset, limit, lineno, shown, total, answer, source>>

(* Whatever the arguments, whatever lines the file has, whatever fails.    *)
ReadNext ==
  \/ offset' \in Nat \ {0} /\ limit' \in Nat \ {0} /\ ReadBegin(offset', limit')
  \/ rest' \in Seq(Line) /\ (ReadOpen(rest') \/ WrittenInPlace(rest'))
  \/ CannotOpen \/ ReadError \/ Loop

readVars == <<rpc, offset, limit, loop, answer, source, disturbed>>

ReadSpec == ReadInit /\ [][ReadNext]_readVars

-----------------------------------------------------------------------------
(* The reader's variables keep their types (main.c:553-606).               *)
ReadTypeOK ==
  /\ rpc \in {"idle", "fopen", "getline", "broke"}
  /\ offset \in Nat \ {0} /\ limit \in Nat \ {0}
  /\ rest \in Seq(Line) /\ source \in Seq(Line)
  /\ lineno \in Nat /\ shown \in Seq(Numbered) /\ total \in Nat
  /\ answer \in Answer /\ disturbed \in BOOLEAN

(* The limit bounds the page and the loop, however fast others append to   *)
(* the file, and out exceeds the cap by no more than the line that reached *)
(* it (main.c:576, 581-587).                                               *)
PageBounded ==
  /\ Len(shown) <= limit /\ lineno <= offset + limit
  /\ shown # <<>> => total <= MaxBytes + PrefixSize + Size(shown[Len(shown)].line)

(* The lines of a page that shows n lines.                                 *)
Slice(n) == [i \in 1..n |-> [number |-> offset + i - 1, line |-> source[offset + i - 1]]]

(* "Returns up to 'limit' lines starting from 'offset' (1-indexed), each   *)
(* prefixed with line number" (main.c:609): of a file nobody writes in     *)
(* place, a page is the lines from offset on under their numbers, all of   *)
(* them up to the limit unless the cap is noted, and the file is called    *)
(* empty or too short only if it is.                                       *)
PageRight ==
  rpc = "idle" /\ ~disturbed =>
    CASE answer.kind = "page" ->
           LET n == Len(answer.lines)
           IN  /\ n >= 1 /\ n <= limit /\ offset + n - 1 <= Len(source)
               /\ answer.lines = Slice(n)
               /\ n = limit \/ offset + n - 1 = Len(source) \/ answer.capped
      [] answer.kind = "empty" -> source = <<>>
      [] answer.kind = "beyond" -> Len(source) < offset
      [] answer.kind = "binary" -> \E i \in 1..Len(source) : HasNul(source[i])
      [] OTHER -> TRUE

(* "page through with offset" (main.c:609): a reader that follows the hint *)
(* misses no line; without hint or note the page ends with the file; and   *)
(* it gets on, unless its pages have one line: at the end of the file the  *)
(* hint then names the line it has just seen.                              *)
PagingMissesNothing ==
  rpc = "idle" /\ answer.kind = "page" /\ ~disturbed =>
    LET last == answer.lines[Len(answer.lines)].number
    IN  /\ answer.hint # 0 => answer.hint \in {last, last + 1}
        /\ answer.hint = last => last = Len(source)
        /\ answer.hint = 0 /\ ~answer.capped => last = Len(source)
        /\ answer.hint # 0 /\ limit > 1 => answer.hint > offset
=============================================================================
