----------------------------- MODULE SseStream -----------------------------
(***************************************************************************)
(* The stream state of one answer: on_chunk splits the body into lines,    *)
(* handle_event accumulates the events of the lines into content blocks,   *)
(* and blocks_to_content turns the blocks into the message that is stored. *)
(*                                                                         *)
(* The body arrives in chunks cut anywhere, may end anywhere, and SIGINT   *)
(* can arrive between any two bytes.  A byte is a pair: <<0, c>> for the   *)
(* characters the line splitter looks at, <<e, k>> for the k-th piece of   *)
(* the JSON of event e.  The five bytes of "data:" count as one.           *)
(***************************************************************************)
EXTENDS Integers, Sequences, SequencesExt

CONSTANTS
  MaxBlocks,      (* MAX_BLOCKS of config.h.                               *)
  MaxLine,        (* MAX_SSE_LINE.                                         *)
  MaxBlockSize,   (* MAX_BLOCK_SIZE.                                       *)
  Events,         (* The events the server can send, a sequence.           *)
  Size,           (* The number of pieces of the JSON of each event.       *)
  Payloads        (* The bodies the server can send.                       *)

NL == <<0, 1>>
CR == <<0, 2>>
DataField == <<0, 3>>
Space == <<0, 4>>
OtherField == <<0, 5>>

Pieces(e) == [k \in 1..Size[e] |-> <<e, k>>]

Byte == {NL, CR, DataField, Space, OtherField} \cup ((1..Len(Events)) \X (1..4))

(***************************************************************************)
(* Of an event only what handle_event reads: the index (-1 when it is      *)
(* missing or no number), type and id of a new block, and the string of a  *)
(* delta as the sequence of its bytes.  Kind "ignored" is every event that *)
(* leaves the blocks alone: ping, content_block_stop, message_stop, error, *)
(* message_delta (its stop_reason is only logged), and events without a    *)
(* type.  "thinking" is a delta handle_event has no branch for.            *)
(***************************************************************************)
EventKind == {"start", "text", "input", "thinking", "ignored"}

BlockType == {"", "text", "tool_use", "thinking"}

(* The bytes of a text, and of an input: "{", "}", and a member "m".       *)
Char == {"t", "u", "{", "m", "}"}

Event == [kind : EventKind, index : -1..MaxBlocks, type : BlockType,
          id : STRING, data : Seq(Char)]

ASSUME SseAssumption ==
  /\ MaxBlocks \in Nat \ {0} /\ MaxLine \in Nat \ {0} /\ MaxBlockSize \in Nat \ {0}
  /\ Events \in Seq(Event) /\ \A e \in 1..Len(Events) : Size[e] \in 1..4
  /\ \A p \in Payloads : p \in Seq(Byte)

VARIABLES
  payload,       (* The body, known to the server only.                    *)
  pos,           (* Bytes of it that on_chunk has gone through.            *)
  upto,          (* End of the chunk on_chunk was called with.             *)
  line,          (* st->line.                                              *)
  line_dropped,  (* st->line_dropped.                                      *)
  blocks,        (* st->blocks.                                            *)
  n,             (* st->n.                                                 *)
  interrupt,     (* g_interrupt.                                           *)
  pc,            (* "read", "scan" (in on_chunk), "content" or "done".     *)
  content        (* What the turn stores: a sequence of blocks, or NoTurn. *)

accumulated == <<blocks, n>>
lineState   == <<line, line_dropped>>
vars == <<payload, pos, upto, lineState, accumulated, interrupt, pc, content>>

Index == 0..(MaxBlocks - 1)

EmptyBlock == [type |-> "", id |-> "", text |-> <<>>, partial |-> <<>>]

NoTurn == <<[type |-> "none", id |-> "", data |-> <<>>]>>

Init ==
  /\ payload \in Payloads
  /\ pos = 0 /\ upto = 0
  /\ line = <<>> /\ line_dropped = FALSE
  /\ blocks = [i \in Index |-> EmptyBlock] /\ n = 0
  /\ interrupt = FALSE /\ pc = "read" /\ content = NoTurn

-----------------------------------------------------------------------------
(* handle_event, one operator per branch.                                  *)

Capped(old, new) == SubSeq(old \o new, 1, Min({MaxBlockSize, Len(old \o new)}))

content_block_start(e) ==
  /\ e.kind = "start" /\ e.index \in Index
  /\ blocks' = [blocks EXCEPT ![e.index] =
                   [type |-> e.type, id |-> e.id, text |-> <<>>, partial |-> <<>>]]
  /\ n' = IF e.index + 1 > n THEN e.index + 1 ELSE n

text_delta(e) ==
  /\ e.kind = "text" /\ e.index \in Index
  /\ Len(blocks[e.index].text) < MaxBlockSize
  /\ blocks' = [blocks EXCEPT ![e.index].text = Capped(@, e.data)]
  /\ UNCHANGED n

(* Mutant: the cap is looked at before the delta, not applied to it.       *)
input_json_delta_Uncapped(e) ==
  /\ e.kind = "input" /\ e.index \in Index
  /\ Len(blocks[e.index].partial) < MaxBlockSize
  /\ blocks' = [blocks EXCEPT ![e.index].partial = @ \o e.data]
  /\ UNCHANGED n

input_json_delta(e) ==
  /\ e.kind = "input" /\ e.index \in Index
  /\ Len(blocks[e.index].partial) < MaxBlockSize
  /\ blocks' = [blocks EXCEPT ![e.index].partial = Capped(@, e.data)]
  /\ UNCHANGED n

Full(e) ==
  \/ e.kind = "text"  /\ Len(blocks[e.index].text) >= MaxBlockSize
  \/ e.kind = "input" /\ Len(blocks[e.index].partial) >= MaxBlockSize

event_ignored(e) ==
  /\ \/ e.kind \in {"ignored", "thinking"}
     \/ e.kind \in {"start", "text", "input"} /\ e.index \notin Index
     \/ e.kind \in {"text", "input"} /\ e.index \in Index /\ Full(e)
  /\ UNCHANGED accumulated

handle_event(e) ==
  \/ content_block_start(e)
  \/ text_delta(e)
  \/ input_json_delta(e)
  \/ event_ignored(e)

-----------------------------------------------------------------------------
(* on_chunk.  The line of an event is parsed by cJSON_Parse, which skips   *)
(* white space and does not look behind the end of the value.              *)

Parsed(e, bytes) == IsPrefix(Pieces(e), bytes)

JsonText(s) == SelectSeq(Tail(s), LAMBDA b : b # Space)

IsDataLine == Len(line) > 1 /\ line[1] = DataField

EndOfLine ==
  /\ pos' = pos + 1
  /\ line' = <<>> /\ line_dropped' = FALSE
  /\ UNCHANGED <<payload, upto, interrupt, pc, content>>

AtByte(b) == pc = "scan" /\ pos < upto /\ payload[pos + 1] = b

DropLine ==
  /\ AtByte(NL) /\ line_dropped
  /\ UNCHANGED accumulated
  /\ EndOfLine

DataLine ==
  /\ AtByte(NL) /\ ~line_dropped /\ IsDataLine
  /\ \E e \in 1..Len(Events) : Parsed(e, JsonText(line)) /\ handle_event(Events[e])
  /\ EndOfLine

(* Another field, a comment, an empty line, or JSON that does not parse.   *)
OtherLine ==
  /\ AtByte(NL) /\ ~line_dropped
  /\ ~(IsDataLine /\ \E e \in 1..Len(Events) : Parsed(e, JsonText(line)))
  /\ UNCHANGED accumulated
  /\ EndOfLine

SkipCarriageReturn ==
  /\ AtByte(CR)
  /\ pos' = pos + 1
  /\ UNCHANGED <<payload, upto, lineState, accumulated, interrupt, pc, content>>

OverflowLine ==
  /\ pc = "scan" /\ pos < upto /\ payload[pos + 1] \notin {NL, CR}
  /\ Len(line) >= MaxLine
  /\ line_dropped' = TRUE
  /\ pos' = pos + 1
  /\ UNCHANGED <<payload, upto, line, accumulated, interrupt, pc, content>>

CollectByte ==
  /\ pc = "scan" /\ pos < upto /\ payload[pos + 1] \notin {NL, CR}
  /\ Len(line) < MaxLine
  /\ line' = Append(line, payload[pos + 1])
  /\ pos' = pos + 1
  /\ UNCHANGED <<payload, upto, line_dropped, accumulated, interrupt, pc, content>>

(* http_stream_body calls on_chunk with the next k bytes.                  *)
Chunk(k) ==
  /\ pc = "read" /\ ~interrupt
  /\ upto' = pos + k /\ pc' = "scan"
  /\ UNCHANGED <<payload, pos, lineState, accumulated, interrupt, content>>

(* Mutant: the line starts anew at each chunk.                             *)
ChunkDone_ResetsLine ==
  /\ pc = "scan" /\ pos = upto
  /\ pc' = "read" /\ line' = <<>> /\ line_dropped' = FALSE
  /\ UNCHANGED <<payload, pos, upto, accumulated, interrupt, content>>

(* on_chunk returns n.                                                     *)
ChunkDone ==
  /\ pc = "scan" /\ pos = upto
  /\ pc' = "read"
  /\ UNCHANGED <<payload, pos, upto, lineState, accumulated, interrupt, content>>

(* The transport has ended, with an error or not; do_turn returns 0 and    *)
(* chat_turn goes on to blocks_to_content ...                              *)
TransportEnds ==
  /\ pc = "read" /\ ~interrupt
  /\ pc' = "content"
  /\ UNCHANGED <<payload, pos, upto, lineState, accumulated, interrupt, content>>

(* ... unless there was a SIGINT: on_chunk returns 0, do_turn returns -2.  *)
Abort ==
  /\ pc = "read" /\ interrupt
  /\ pc' = "done"
  /\ UNCHANGED <<payload, pos, upto, lineState, accumulated, interrupt, content>>

Sigint ==
  /\ pc \in {"read", "scan", "content"} /\ ~interrupt
  /\ interrupt' = TRUE
  /\ UNCHANGED <<payload, pos, upto, lineState, accumulated, pc, content>>

-----------------------------------------------------------------------------
(* blocks_to_content.                                                      *)

(* cJSON_Parse reads an input up to the brace that closes it.              *)
ClosedAt(input, i) ==
  /\ input[1] = "{" /\ input[i] = "}"
  /\ \A j \in 1..(i - 1) : input[j] # "}"

(* Mutant: an input cut short is taken as it is.                           *)
Usable_CutShort(b) == b.type = "tool_use" => Len(b.partial) > 1

Usable(b) ==
  b.type = "tool_use" => \E i \in 3..Len(b.partial) : ClosedAt(b.partial, i)

InputOf(partial) ==
  LET closing == {i \in 2..Len(partial) : ClosedAt(partial, i)}
  IN  SubSeq(partial, 1, IF closing = {} THEN Len(partial) ELSE CHOOSE i \in closing : TRUE)

ContentBlock(b) ==
  [type |-> b.type, id |-> b.id,
   data |-> CASE b.type = "text"     -> b.text
              [] b.type = "tool_use" -> InputOf(b.partial)
              [] OTHER               -> <<>>]

Started == FlattenSeq([i \in 1..n |-> IF blocks[i - 1].type # "" THEN <<blocks[i - 1]>> ELSE <<>>])

StoreAnswer ==
  /\ pc = "content"
  /\ \A k \in 1..Len(Started) : Usable(Started[k])
  /\ content' = [k \in 1..Len(Started) |-> ContentBlock(Started[k])]
  /\ pc' = "done"
  /\ UNCHANGED <<payload, pos, upto, lineState, accumulated, interrupt>>

DiscardAnswer ==
  /\ pc = "content"
  /\ \E k \in 1..Len(Started) : ~Usable(Started[k])
  /\ pc' = "done"
  /\ UNCHANGED <<payload, pos, upto, lineState, accumulated, interrupt, content>>

Done == pc = "done" /\ UNCHANGED vars

Scan == DropLine \/ DataLine \/ OtherLine \/ SkipCarriageReturn \/ OverflowLine \/ CollectByte

Next ==
  \/ \E k \in 1..(Len(payload) - pos) : Chunk(k)
  \/ Scan
  \/ ChunkDone
  \/ TransportEnds
  \/ Abort
  \/ StoreAnswer
  \/ DiscardAnswer
  \/ Sigint
  \/ Done

Spec == Init /\ [][Next]_vars

-----------------------------------------------------------------------------
(* The answer as the body says it, defined without any of the above: the   *)
(* lines of the first q bytes, their events, and of each block its last    *)
(* start and the concatenation of the deltas that follow it.               *)

LineStart(i) == Max({1} \cup {j + 1 : j \in {k \in 1..(i - 1) : payload[k] = NL}})

WithoutCR(s) == FlattenSeq([k \in 1..Len(s) |-> IF s[k] # CR THEN <<s[k]>> ELSE <<>>])

LineAt(i) == WithoutCR(SubSeq(payload, LineStart(i), i - 1))

EventsOfLine(i) ==
  {e \in 1..Len(Events) :
     /\ payload[i] = NL
     /\ Len(LineAt(i)) \in 2..MaxLine
     /\ LineAt(i)[1] = DataField
     /\ IsPrefix(Pieces(e), JsonText(LineAt(i)))}

EventOfLine(i) ==
  IF EventsOfLine(i) = {} THEN <<>> ELSE <<Events[CHOOSE e \in EventsOfLine(i) : TRUE]>>

EventsUpTo(q) == FlattenSeq([i \in 1..q |-> EventOfLine(i)])

StartsOf(evs, i) == {k \in 1..Len(evs) : evs[k].kind = "start" /\ evs[k].index = i}

DeltasOf(evs, i, kind) ==
  LET after == SubSeq(evs, Max({0} \cup StartsOf(evs, i)) + 1, Len(evs))
  IN  FlattenSeq([k \in 1..Len(after) |->
                    IF after[k].kind = kind /\ after[k].index = i THEN after[k].data ELSE <<>>])

ReferenceBlock(evs, i) ==
  LET starts == StartsOf(evs, i)
  IN  [type |-> IF starts = {} THEN "" ELSE evs[Max(starts)].type,
       id   |-> IF starts = {} THEN "" ELSE evs[Max(starts)].id,
       text |-> Capped(<<>>, DeltasOf(evs, i, "text")),
       partial |-> Capped(<<>>, DeltasOf(evs, i, "input"))]

Oversized == {i \in 1..Len(payload) : payload[i] = NL /\ Len(LineAt(i)) > MaxLine}

-----------------------------------------------------------------------------
(* Types, and the caps: no line, text or input grows beyond its bound, and *)
(* no block is named beyond the array (main.c:318, 344, 356, 367, 409).    *)
TypeOK ==
  /\ payload \in Payloads /\ pos \in 0..upto /\ upto \in 0..Len(payload)
  /\ line \in Seq(Byte \ {NL, CR}) /\ Len(line) <= MaxLine
  /\ line_dropped \in BOOLEAN /\ interrupt \in BOOLEAN
  /\ DOMAIN blocks = Index
  /\ \A i \in Index :
       /\ blocks[i].type \in BlockType
       /\ blocks[i].text \in Seq(Char) /\ Len(blocks[i].text) <= MaxBlockSize
       /\ blocks[i].partial \in Seq(Char) /\ Len(blocks[i].partial) <= MaxBlockSize
       /\ blocks[i].type # "" => i < n
  /\ n \in 0..MaxBlocks
  /\ pc \in {"read", "scan", "content", "done"}

(* However the body is cut into chunks, wherever it ends and whatever is   *)
(* dropped on the way, the blocks are those of the events of its complete  *)
(* lines: st->line and line_dropped carry exactly what the next on_chunk   *)
(* needs (main.c:396-413), and the arms of handle_event lose nothing but   *)
(* what the caps take.                                                     *)
BlocksReplay ==
  LET evs == EventsUpTo(pos)
      ended == {evs[k].index + 1 : k \in {j \in 1..Len(evs) :
                  evs[j].kind = "start" /\ evs[j].index \in Index}}
  IN  /\ blocks = [i \in Index |-> ReferenceBlock(evs, i)]
      /\ n = Max({0} \cup ended)

(* do_turn returns 0 also for a stream that broke off, so what is stored   *)
(* may be a part of the answer.  A tool_use in it is nevertheless whole:   *)
(* its input is the one of the full answer, without any cap, or            *)
(* blocks_to_content gives the turn up (main.c:430-434).                   *)
ToolsAreWhole ==
  LET evs == EventsUpTo(Len(payload))
      Whole(b) == \E i \in Index :
                    /\ StartsOf(evs, i) # {}
                    /\ b.id = evs[Max(StartsOf(evs, i))].id
                    /\ b.data = InputOf(DeltasOf(evs, i, "input"))
  IN  content # NoTurn /\ Oversized = {} /\ (\A i \in Index : Cardinality(StartsOf(evs, i)) < 2) =>
        \A k \in 1..Len(content) : content[k].type = "tool_use" => Whole(content[k])
=============================================================================
