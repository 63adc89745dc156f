-------------------------- MODULE SseStreamProofs ---------------------------
(***************************************************************************)
(* Proofs about SseStream, for every body, every cut into chunks, every    *)
(* end, every cap: no line, text or input grows beyond its bound, and the  *)
(* blocks are those of the events of the complete lines.                   *)
(***************************************************************************)
EXTENDS SseStream, InductionProofs, TLAPS

Block == [type : BlockType, id : {""} \cup STRING, text : Seq(Char), partial : Seq(Char)]

TypeInv == TypeOK /\ blocks \in [Index -> Block]

-----------------------------------------------------------------------------
LEMMA CappedIs ==
  ASSUME NEW old \in Seq(Char), NEW new \in Seq(Char)
  PROVE  LET s == old \o new
             m == IF Len(s) < MaxBlockSize THEN Len(s) ELSE MaxBlockSize
         IN  /\ Capped(old, new) = SubSeq(s, 1, m) /\ m \in Nat /\ m <= Len(s) /\ s \in Seq(Char)
             /\ Capped(old, new) \in Seq(Char) /\ Len(Capped(old, new)) = m
             /\ Len(Capped(old, new)) <= MaxBlockSize
             /\ \A i \in 1..m : Capped(old, new)[i] = s[i]
<1> DEFINE s == old \o new
           m == IF Len(s) < MaxBlockSize THEN Len(s) ELSE MaxBlockSize
<1>1. s \in Seq(Char) /\ Len(s) \in Nat /\ MaxBlockSize \in Nat
  BY SseAssumption
<1> HIDE DEF s
<1>2. m \in Nat /\ m <= Len(s) /\ m <= MaxBlockSize
  BY <1>1
<1>3. Min({MaxBlockSize, Len(s)}) = m
  <2>1. m \in {MaxBlockSize, Len(s)} /\ \A y \in {MaxBlockSize, Len(s)} : m <= y
    BY <1>1
  <2> HIDE DEF m
  <2> QED BY <1>1, <2>1, MinIs
<1>4. Capped(old, new) = SubSeq(s, 1, m)
  BY <1>3 DEF Capped, s
<1> HIDE DEF m
<1>5. SubSeq(s, 1, m) \in Seq(Char) /\ Len(SubSeq(s, 1, m)) = m /\ \A i \in 1..m : SubSeq(s, 1, m)[i] = s[i]
  BY <1>1, <1>2
<1> QED BY <1>1, <1>2, <1>4, <1>5 DEF s, m

LEMMA NoChars == <<>> \in Seq(Char) /\ Len(<<>>) = 0
OBVIOUS

LEMMA EmptyIs ==
  /\ EmptyBlock = [type |-> "", id |-> "", text |-> <<>>, partial |-> <<>>]
  /\ EmptyBlock.type = "" /\ EmptyBlock.text = <<>> /\ EmptyBlock.partial = <<>>
  /\ EmptyBlock \in Block
<1>1. "" \in BlockType
  BY DEF BlockType
<1> QED BY <1>1, NoChars DEF EmptyBlock, Block

LEMMA EventType ==
  ASSUME NEW e \in 1..Len(Events)
  PROVE  Events[e] \in Event
BY SseAssumption

LEMMA TypeInit == Init => TypeInv
<1> SUFFICES ASSUME Init PROVE TypeInv
  OBVIOUS
<1>1. EmptyBlock \in Block /\ EmptyBlock.type = "" /\ Len(EmptyBlock.text) = 0 /\ Len(EmptyBlock.partial) = 0
  BY EmptyIs, NoChars
<1>2. Len(payload) \in Nat
  BY SseAssumption DEF Init
<1>3. line_dropped \in BOOLEAN /\ interrupt \in BOOLEAN
  BY Zenon DEF Init
<1>4. blocks \in [Index -> Block] /\ \A i \in Index : blocks[i] = EmptyBlock
  BY <1>1 DEF Init
<1>5. n \in 0..MaxBlocks /\ pos \in 0..upto /\ upto \in 0..Len(payload)
  BY <1>2, SseAssumption DEF Init
<1>6. line \in Seq(Byte \ {NL, CR}) /\ Len(line) <= MaxLine
  BY SseAssumption DEF Init
<1>7. \A i \in Index : /\ blocks[i] = EmptyBlock
                       /\ blocks[i].type \in BlockType
                       /\ blocks[i].text \in Seq(Char) /\ Len(blocks[i].text) <= MaxBlockSize
                       /\ blocks[i].partial \in Seq(Char) /\ Len(blocks[i].partial) <= MaxBlockSize
                       /\ blocks[i].type = ""
  <2>1. 0 <= MaxBlockSize
    BY SseAssumption
  <2> QED BY <1>1, <1>4, <2>1, NoChars DEF Block
<1> QED BY <1>3, <1>4, <1>5, <1>6, <1>7 DEF Init, TypeInv, TypeOK

(* What handle_event does to the blocks.                                   *)
BlocksOK ==
  /\ blocks \in [Index -> Block] /\ n \in 0..MaxBlocks
  /\ \A i \in Index : /\ Len(blocks[i].text) <= MaxBlockSize
                      /\ Len(blocks[i].partial) <= MaxBlockSize
                      /\ blocks[i].type # "" => i < n

LEMMA HandleEventType ==
  ASSUME BlocksOK, NEW e \in Event, handle_event(e)
  PROVE  BlocksOK'
<1> USE DEF BlocksOK
<1>0. /\ e.type \in BlockType /\ e.id \in STRING /\ e.data \in Seq(Char)
      /\ MaxBlockSize \in Nat /\ MaxBlocks \in Nat /\ n \in 0..MaxBlocks
  BY SseAssumption DEF Event
<1>1. CASE content_block_start(e)
  <2> DEFINE b == [type |-> e.type, id |-> e.id, text |-> <<>>, partial |-> <<>>]
  <2>1. b \in Block /\ Len(b.text) = 0 /\ Len(b.partial) = 0
    BY <1>0, NoChars DEF Block
  <2>2. e.index \in Index /\ blocks' = [blocks EXCEPT ![e.index] = b]
    BY <1>1 DEF content_block_start
  <2> HIDE DEF b
  <2>3. n' \in 0..MaxBlocks /\ n' >= n /\ e.index < n'
    <3> DEFINE k == e.index
    <3>1. k \in 0..(MaxBlocks - 1) /\ n' = IF k + 1 > n THEN k + 1 ELSE n
      BY <1>1 DEF content_block_start, Index
    <3> HIDE DEF k
    <3>2. n' \in 0..MaxBlocks /\ n' >= n /\ k < n'
      BY ONLY <1>0, <3>1
    <3> QED BY <3>2 DEF k
  <2>4. blocks' \in [Index -> Block]
    BY <2>1, <2>2
  <2>5. ASSUME NEW i \in Index
        PROVE  /\ Len(blocks'[i].text) <= MaxBlockSize /\ Len(blocks'[i].partial) <= MaxBlockSize
               /\ blocks'[i].type # "" => i < n'
    <3>1. CASE i = e.index
      <4>1. blocks'[i] = b
        BY <2>2, <3>1
      <4>2. /\ Len(b.text) <= MaxBlockSize /\ Len(b.partial) <= MaxBlockSize
            /\ i < n'
        BY ONLY <1>0, <2>1, <2>3, <3>1
      <4> QED BY <4>1, <4>2
    <3>2. CASE i # e.index
      <4>1. blocks'[i] = blocks[i]
        BY <2>2, <3>2
      <4>2. i \in Nat /\ n \in Nat /\ n' \in Nat /\ (i < n => i < n')
        BY ONLY <1>0, <2>3, i \in Index DEF Index
      <4> QED BY <4>1, <4>2
    <3> QED BY <3>1, <3>2
  <2> QED BY <2>3, <2>4, <2>5
<1>2. CASE text_delta(e)
  <2> DEFINE t == Capped(blocks[e.index].text, e.data)
  <2>1. e.index \in Index /\ blocks' = [blocks EXCEPT ![e.index].text = t] /\ n' = n
    BY <1>2 DEF text_delta
  <2>2. t \in Seq(Char) /\ Len(t) <= MaxBlockSize
    BY <1>0, <2>1, CappedIs DEF Block
  <2> HIDE DEF t
  <2>3. blocks' \in [Index -> Block]
    BY <2>1, <2>2 DEF Block
  <2> QED BY <2>1, <2>2, <2>3 DEF Block
<1>3. CASE input_json_delta(e)
  <2> DEFINE t == Capped(blocks[e.index].partial, e.data)
  <2>1. e.index \in Index /\ blocks' = [blocks EXCEPT ![e.index].partial = t] /\ n' = n
    BY <1>3 DEF input_json_delta
  <2>2. t \in Seq(Char) /\ Len(t) <= MaxBlockSize
    BY <1>0, <2>1, CappedIs DEF Block
  <2> HIDE DEF t
  <2>3. blocks' \in [Index -> Block]
    BY <2>1, <2>2 DEF Block
  <2> QED BY <2>1, <2>2, <2>3 DEF Block
<1>4. CASE event_ignored(e)
  BY <1>4 DEF event_ignored, accumulated
<1> QED BY <1>1, <1>2, <1>3, <1>4 DEF handle_event

ScanOK ==
  /\ payload \in Payloads /\ pos \in 0..upto /\ upto \in 0..Len(payload)
  /\ line \in Seq(Byte \ {NL, CR}) /\ Len(line) <= MaxLine
  /\ line_dropped \in BOOLEAN /\ interrupt \in BOOLEAN
  /\ pc \in {"read", "scan", "content", "done"}

LEMMA TypeParts == TypeInv <=> ScanOK /\ BlocksOK
BY DEF TypeInv, TypeOK, ScanOK, BlocksOK, Block

(* What is known of the next byte while on_chunk goes through a chunk.     *)
LEMMA AtNextByte ==
  ASSUME ScanOK, pos < upto
  PROVE  /\ payload \in Seq(Byte) /\ Len(payload) \in Nat /\ pos \in Nat /\ upto \in Nat
         /\ pos + 1 \in 1..Len(payload) /\ pos + 1 \in 0..upto /\ payload[pos + 1] \in Byte
<1>1. payload \in Seq(Byte) /\ Len(payload) \in Nat
  BY SseAssumption DEF ScanOK
<1>2. pos + 1 \in 1..Len(payload) /\ pos + 1 \in 0..upto /\ pos \in Nat /\ upto \in Nat
  BY <1>1 DEF ScanOK
<1> QED BY <1>1, <1>2

LEMMA ScanStays ==
  ASSUME ScanOK, UNCHANGED <<payload, interrupt>>, pos' \in 0..upto', upto' \in 0..Len(payload),
         line' \in Seq(Byte \ {NL, CR}), Len(line') <= MaxLine, line_dropped' \in BOOLEAN,
         pc' \in {"read", "scan", "content", "done"}
  PROVE  ScanOK'
<1>1. interrupt' \in BOOLEAN
  BY Zenon DEF ScanOK
<1> QED BY <1>1 DEF ScanOK

LEMMA ScanType == ASSUME ScanOK, Scan PROVE ScanOK'
<1>1. /\ pc = "scan" /\ pos < upto /\ pos' = pos + 1
      /\ UNCHANGED <<payload, upto, interrupt, pc>>
  BY DEF Scan, DropLine, DataLine, OtherLine, SkipCarriageReturn, OverflowLine, CollectByte,
         EndOfLine, AtByte
<1>2. pos' \in 0..upto' /\ upto' \in 0..Len(payload) /\ pc' = "scan"
  BY <1>1, AtNextByte DEF ScanOK
<1>3. /\ line \in Seq(Byte \ {NL, CR}) /\ Len(line) <= MaxLine /\ line_dropped \in BOOLEAN
  BY Zenon DEF ScanOK
<1>4. CASE DropLine \/ DataLine \/ OtherLine
  <2>1. line' = <<>> /\ line_dropped' = FALSE
    BY Zenon, <1>4 DEF DropLine, DataLine, OtherLine, EndOfLine
  <2>2. line_dropped' \in BOOLEAN
    BY Zenon, <2>1
  <2>3. line' \in Seq(Byte \ {NL, CR}) /\ Len(line') <= MaxLine
    BY <2>1, SseAssumption
  <2> QED BY <1>1, <1>2, <2>2, <2>3, ScanStays
<1>5. CASE SkipCarriageReturn
  <2>1. line' = line /\ line_dropped' = line_dropped
    BY Zenon, <1>5 DEF SkipCarriageReturn, lineState
  <2> QED BY <1>1, <1>2, <1>3, <2>1, ScanStays
<1>6. CASE OverflowLine
  <2>1. line' = line /\ line_dropped' = TRUE
    BY Zenon, <1>6 DEF OverflowLine
  <2>2. line_dropped' \in BOOLEAN
    BY Zenon, <2>1
  <2> QED BY <1>1, <1>2, <1>3, <2>1, <2>2, ScanStays
<1>7. CASE CollectByte
  <2> DEFINE b == payload[pos + 1]
  <2>1. b \notin {NL, CR} /\ Len(line) < MaxLine /\ line' = Append(line, b)
    BY <1>7 DEF CollectByte
  <2>2. b \in Byte
    BY <1>1, AtNextByte
  <2> HIDE DEF b
  <2>3. line' \in Seq(Byte \ {NL, CR}) /\ Len(line') = Len(line) + 1
    BY <1>3, <2>1, <2>2
  <2>4. Len(line') <= MaxLine
    BY <1>3, <2>1, <2>3, SseAssumption
  <2>5. line_dropped' \in BOOLEAN
    BY Zenon, <1>3, <1>7 DEF CollectByte
  <2> QED BY <1>1, <1>2, <2>3, <2>4, <2>5, ScanStays
<1> QED BY <1>4, <1>5, <1>6, <1>7 DEF Scan

LEMMA OtherType ==
  ASSUME ScanOK, [Next]_vars, ~Scan
  PROVE  ScanOK' /\ UNCHANGED accumulated
<1>0. /\ line \in Seq(Byte \ {NL, CR}) /\ Len(line) <= MaxLine /\ line_dropped \in BOOLEAN
      /\ pos \in 0..upto /\ upto \in 0..Len(payload)
  BY Zenon DEF ScanOK
<1>1. CASE \E k \in 1..(Len(payload) - pos) : Chunk(k)
  <2>1. PICK k \in 1..(Len(payload) - pos) : Chunk(k)
    BY <1>1
  <2>2. /\ upto' = pos + k /\ pc' = "scan"
        /\ UNCHANGED <<payload, pos, interrupt, accumulated>>
    BY <2>1 DEF Chunk
  <2>3. UNCHANGED lineState
    BY Zenon, <2>1 DEF Chunk
  <2>4. pos' \in 0..upto' /\ upto' \in 0..Len(payload)
    <3>1. Len(payload) \in Nat
      BY SseAssumption DEF ScanOK
    <3> QED BY <1>0, <2>2, <3>1
  <2>5. line' = line /\ line_dropped' = line_dropped
    BY Zenon, <2>3 DEF lineState
  <2> QED BY <1>0, <2>2, <2>4, <2>5, ScanStays
<1>2. CASE ChunkDone \/ TransportEnds \/ Abort \/ StoreAnswer \/ DiscardAnswer
  <2>1. /\ UNCHANGED <<payload, pos, upto, interrupt, accumulated>>
        /\ pc' \in {"read", "content", "done"}
    BY <1>2 DEF ChunkDone, TransportEnds, Abort, StoreAnswer, DiscardAnswer
  <2>2. line' = line /\ line_dropped' = line_dropped
    BY Zenon, <1>2 DEF ChunkDone, TransportEnds, Abort, StoreAnswer, DiscardAnswer, lineState
  <2> QED BY <1>0, <2>1, <2>2, ScanStays
<1>3. CASE Sigint
  <2>1. UNCHANGED <<payload, pos, upto, accumulated, pc>>
    BY <1>3 DEF Sigint
  <2>2. line' = line /\ line_dropped' = line_dropped /\ interrupt' \in BOOLEAN
    BY Zenon, <1>3 DEF Sigint, lineState
  <2> QED BY <1>0, <2>1, <2>2 DEF ScanOK
<1>4. CASE UNCHANGED vars
  <2>1. UNCHANGED <<payload, pos, upto, accumulated, pc>>
    BY <1>4 DEF vars
  <2>2. line' = line /\ line_dropped' = line_dropped /\ interrupt' = interrupt
    BY Zenon, <1>4 DEF vars, lineState
  <2> QED BY <1>0, <2>1, <2>2, ScanStays DEF ScanOK
<1> QED BY <1>1, <1>2, <1>3, <1>4 DEF Next, Done

LEMMA AccumulatedKept == BlocksOK /\ UNCHANGED accumulated => BlocksOK'
BY DEF BlocksOK, accumulated

LEMMA TypeStep == ScanOK /\ BlocksOK /\ [Next]_vars => ScanOK' /\ BlocksOK'
<1> SUFFICES ASSUME ScanOK, BlocksOK, [Next]_vars PROVE ScanOK' /\ BlocksOK'
  OBVIOUS
<1>1. ScanOK'
  BY ScanType, OtherType
<1>2. CASE ~Scan
  BY <1>2, OtherType, AccumulatedKept
<1>3. CASE DataLine
  <2>1. PICK e \in 1..Len(Events) : handle_event(Events[e])
    BY <1>3 DEF DataLine
  <2>2. Events[e] \in Event
    BY EventType
  <2> QED BY <1>1, <2>1, <2>2, HandleEventType
<1>4. CASE DropLine \/ OtherLine \/ SkipCarriageReturn \/ OverflowLine \/ CollectByte
  <2>1. UNCHANGED accumulated
    BY <1>4, Zenon DEF DropLine, OtherLine, SkipCarriageReturn, OverflowLine, CollectByte
  <2> QED BY <1>1, <2>1, AccumulatedKept
<1> QED BY <1>1, <1>2, <1>3, <1>4 DEF Scan

LEMMA TypeInvariant == Spec => [](ScanOK /\ BlocksOK)
<1>1. Init => ScanOK /\ BlocksOK
  BY TypeInit, TypeParts
<1> QED BY <1>1, TypeStep, PTL DEF Spec

(* No line, no text and no input grows beyond its bound, and no block is   *)
(* named beyond the array (main.c:318, 344, 356, 367, 409).                *)
THEOREM SseTypeCorrect == Spec => []TypeOK
<1>1. ScanOK /\ BlocksOK => TypeOK
  BY TypeParts DEF TypeInv
<1> QED BY <1>1, TypeInvariant, PTL

-----------------------------------------------------------------------------
(* The line splitter keeps the current line as the body has it.            *)
LEMMA LineStartNext ==
  ASSUME payload \in Seq(Byte), NEW i \in Nat, i >= 1
  PROVE  /\ LineStart(i) \in 1..i
         /\ LineStart(i + 1) = IF payload[i] = NL THEN i + 1 ELSE LineStart(i)
<1> DEFINE T(j) == {1} \cup {h + 1 : h \in {k \in 1..(j - 1) : payload[k] = NL}}
<1>1. T(i) \in SUBSET (0..i) /\ T(i) \in SUBSET (1..i) /\ 1 \in T(i)
  OBVIOUS
<1>2. Max(T(i)) \in T(i)
  <2> HIDE DEF T
  <2>1. T(i) # {}
    BY <1>1
  <2> QED BY <1>1, <2>1, MaxOf
<1>3. LineStart(i) = Max(T(i)) /\ LineStart(i + 1) = Max(T(i + 1))
  BY DEF LineStart
<1>4. CASE payload[i] = NL
  <2>1. i + 1 \in T(i + 1) /\ T(i + 1) \in SUBSET Nat /\ \A y \in T(i + 1) : i + 1 >= y
    BY <1>4
  <2>2. Max(T(i + 1)) = i + 1
    <3> HIDE DEF T
    <3> QED BY <2>1, MaxIs
  <2> QED BY <1>1, <1>2, <1>3, <1>4, <2>2
<1>5. CASE payload[i] # NL
  <2>1. T(i + 1) = T(i)
    BY <1>5
  <2> HIDE DEF T
  <2> QED BY <1>1, <1>2, <1>3, <1>5, <2>1
<1> QED BY <1>4, <1>5

LEMMA WithoutCRNext ==
  ASSUME NEW s \in Seq(Byte), NEW b \in Byte
  PROVE  /\ WithoutCR(s) \in Seq(Byte)
         /\ WithoutCR(Append(s, b)) = IF b = CR THEN WithoutCR(s) ELSE Append(WithoutCR(s), b)
<1> DEFINE N == Len(s)
           t == Append(s, b)
           f == [k \in 1..(N + 1) |-> IF t[k] # CR THEN <<t[k]>> ELSE <<>>]
           g == [k \in 1..N |-> IF s[k] # CR THEN <<s[k]>> ELSE <<>>]
<1>1. N \in Nat /\ t \in Seq(Byte) /\ Len(t) = N + 1 /\ t[N + 1] = b
      /\ \A k \in 1..N : t[k] = s[k] /\ s[k] \in Byte
  OBVIOUS
<1>2. WithoutCR(s) = FlattenSeq(g)
  BY DEF WithoutCR
<1>3. WithoutCR(t) = FlattenSeq(f)
  BY <1>1 DEF WithoutCR
<1> HIDE DEF t, N
<1>4. f \in [1..(N + 1) -> Seq(Byte)] /\ f[N + 1] = IF b # CR THEN <<b>> ELSE <<>>
  <2>1. \A k \in 1..(N + 1) : t[k] \in Byte
    BY <1>1
  <2>2. N + 1 \in 1..(N + 1)
    BY <1>1
  <2> QED BY <1>1, <2>1, <2>2
<1>5. g = [k \in 1..N |-> f[k]]
  <2>1. \A k \in 1..N : k \in 1..(N + 1)
    BY <1>1
  <2> QED BY <1>1, <2>1
<1> HIDE DEF f, g
<1>6. FlattenSeq(f) = FlattenSeq(g) \o f[N + 1] /\ FlattenSeq(g) \in Seq(Byte)
  BY <1>1, <1>4, <1>5, FlattenNext
<1> DEFINE w == FlattenSeq(g)
<1>7. w \in Seq(Byte) /\ w \o <<>> = w /\ w \o <<b>> = Append(w, b)
  BY <1>6
<1> QED BY <1>2, <1>3, <1>4, <1>6, <1>7 DEF t

LEMMA LineNext ==
  ASSUME payload \in Seq(Byte), NEW i \in 1..Len(payload)
  PROVE  /\ LineAt(i) \in Seq(Byte)
         /\ LineAt(i + 1) = IF payload[i] = NL THEN <<>>
                            ELSE IF payload[i] = CR THEN LineAt(i) ELSE Append(LineAt(i), payload[i])
<1> DEFINE from == LineStart(i) - 1
           s == SubSeq(payload, LineStart(i), i - 1)
<1>1. LineStart(i) \in 1..i /\ LineStart(i + 1) = IF payload[i] = NL THEN i + 1 ELSE LineStart(i)
  BY LineStartNext
<1>2. i \in Nat /\ Len(payload) \in Nat /\ i - 1 \in Nat /\ (i - 1) + 1 = i /\ (i + 1) - 1 = i
      /\ i - 1 < Len(payload)
  OBVIOUS
<1>3. from \in Nat /\ from <= i - 1 /\ from + 1 = LineStart(i)
  BY <1>1, <1>2
<1>4. /\ SubSeq(payload, LineStart(i), i) = Append(s, payload[i]) /\ s \in Seq(Byte) /\ payload[i] \in Byte
  <2> DEFINE to == i - 1
  <2> HIDE DEF from
  <2>1. to \in Nat /\ from <= to /\ to < Len(payload) /\ to + 1 = i
    BY <1>2, <1>3
  <2> HIDE DEF to
  <2>2. /\ SubSeq(payload, from + 1, to + 1) = Append(SubSeq(payload, from + 1, to), payload[to + 1])
        /\ SubSeq(payload, from + 1, to) \in Seq(Byte) /\ payload[to + 1] \in Byte
    BY <1>3, <2>1, SliceNext
  <2> QED BY <1>3, <2>1, <2>2 DEF to
<1>5. LineAt(i) = WithoutCR(s)
  BY DEF LineAt
<1>6. LineAt(i + 1) = WithoutCR(SubSeq(payload, LineStart(i + 1), i))
  BY <1>2 DEF LineAt
<1>7. CASE payload[i] = NL
  <2>1. SubSeq(payload, i + 1, i) = <<>>
    BY <1>2
  <2>2. WithoutCR(<<>>) = <<>>
    BY FlattenEmpty DEF WithoutCR
  <2> QED BY <1>1, <1>4, <1>5, <1>6, <1>7, <2>1, <2>2, WithoutCRNext
<1>8. CASE payload[i] # NL
  <2>1. LineAt(i + 1) = WithoutCR(Append(s, payload[i]))
    BY <1>1, <1>4, <1>6, <1>8
  <2> HIDE DEF s
  <2>2. /\ WithoutCR(s) \in Seq(Byte)
        /\ WithoutCR(Append(s, payload[i])) = IF payload[i] = CR THEN WithoutCR(s)
                                              ELSE Append(WithoutCR(s), payload[i])
    BY <1>4, WithoutCRNext
  <2> QED BY <1>5, <1>8, <2>1, <2>2
<1> QED BY <1>7, <1>8

(* st->line holds the current line, carriage returns left out, unless the  *)
(* line has become too long: then line_dropped says so until its newline.  *)
LineInv ==
  /\ ~line_dropped => line = LineAt(pos + 1)
  /\ line_dropped => Len(line) >= MaxLine /\ Len(LineAt(pos + 1)) > MaxLine

LEMMA LineInit == Init => LineInv
<1> SUFFICES ASSUME Init PROVE LineInv
  OBVIOUS
<1>1. payload \in Seq(Byte) /\ pos = 0 /\ line = <<>>
  BY SseAssumption DEF Init
<1>2. ~line_dropped
  BY Zenon DEF Init
<1>3. LineStart(1) = 1
  <2>1. LineStart(1) \in 1..1
    BY <1>1, LineStartNext
  <2> QED BY <2>1
<1>4. SubSeq(payload, 1, 0) = <<>>
  BY <1>1
<1>5. LineAt(1) = <<>>
  BY <1>3, <1>4, FlattenEmpty DEF LineAt, WithoutCR
<1>6. pos + 1 = 1
  BY <1>1
<1> QED BY <1>1, <1>2, <1>5, <1>6 DEF LineInv

LEMMA LineScan ==
  ASSUME ScanOK, LineInv, Scan
  PROVE  /\ pc = "scan" /\ pos < upto /\ pos' = pos + 1 /\ payload' = payload
         /\ LineInv'
<1>1. /\ pc = "scan" /\ pos < upto /\ pos' = pos + 1 /\ payload' = payload
  BY DEF Scan, DropLine, DataLine, OtherLine, SkipCarriageReturn, OverflowLine, CollectByte,
         EndOfLine, AtByte
<1> DEFINE i == pos + 1
           b == payload[i]
           full == LineAt(i)
           after == LineAt(i + 1)
<1>2. payload \in Seq(Byte) /\ i \in 1..Len(payload) /\ b \in Byte
  BY <1>1, AtNextByte
<1>3. full \in Seq(Byte) /\ after = IF b = NL THEN <<>> ELSE IF b = CR THEN full ELSE Append(full, b)
  BY <1>2, LineNext
<1>4. /\ ~line_dropped => line = full
      /\ line_dropped => Len(line) >= MaxLine /\ Len(full) > MaxLine
  BY DEF LineInv
<1>5. (LineAt(pos + 1))' = after
  BY <1>1 DEF LineAt, LineStart
<1>6. line_dropped \in BOOLEAN /\ MaxLine \in Nat /\ Len(line) <= MaxLine
  BY Zenon, SseAssumption DEF ScanOK
<1> HIDE DEF i, b, full, after
<1>7. CASE DropLine \/ DataLine \/ OtherLine
  <2>1. b = NL /\ line' = <<>>
    BY <1>7 DEF DropLine, DataLine, OtherLine, EndOfLine, AtByte, b, i
  <2>2. ~line_dropped'
    BY <1>7, Zenon DEF DropLine, DataLine, OtherLine, EndOfLine
  <2> QED BY <1>1, <1>3, <1>5, <2>1, <2>2 DEF LineInv
<1>8. CASE SkipCarriageReturn
  <2>1. b = CR
    BY <1>8 DEF SkipCarriageReturn, AtByte, b, i
  <2>2. line' = line /\ line_dropped' = line_dropped
    BY Zenon, <1>8 DEF SkipCarriageReturn, lineState
  <2>3. CR # NL
    BY DEF CR, NL
  <2>4. after = full
    BY <1>3, <2>1, <2>3
  <2> QED BY <1>1, <1>4, <1>5, <2>2, <2>4 DEF LineInv
<1>9. CASE OverflowLine
  <2>1. b \notin {NL, CR} /\ Len(line) >= MaxLine
    BY <1>9 DEF OverflowLine, b, i
  <2>2. line' = line /\ line_dropped'
    BY Zenon, <1>9 DEF OverflowLine
  <2>3. after = Append(full, b)
    BY <1>3, <2>1
  <2>4. Len(after) = Len(full) + 1 /\ Len(full) \in Nat
    BY <1>3, <2>3
  <2>5. Len(full) >= MaxLine
    <3>1. CASE line_dropped
      BY <1>4, <1>6, <2>4, <3>1
    <3>2. CASE ~line_dropped
      BY <1>4, <2>1, <3>2
    <3> QED BY <3>1, <3>2
  <2>6. Len(after) > MaxLine
    BY ONLY <1>6, <2>4, <2>5
  <2> QED BY <1>1, <1>5, <2>1, <2>2, <2>6 DEF LineInv
<1>10. CASE CollectByte
  <2>1. b \notin {NL, CR} /\ Len(line) < MaxLine /\ line' = Append(line, b)
    BY <1>10 DEF CollectByte, b, i
  <2>2. line_dropped' = line_dropped
    BY Zenon, <1>10 DEF CollectByte
  <2>3. after = Append(full, b)
    BY <1>3, <2>1
  <2>4. ~line_dropped
    <3>1. Len(line) \in Nat
      BY DEF ScanOK
    <3>2. ~(Len(line) >= MaxLine)
      BY ONLY <1>6, <2>1, <3>1
    <3> QED BY <1>4, <3>2
  <2> QED BY <1>1, <1>4, <1>5, <2>1, <2>2, <2>3, <2>4 DEF LineInv
<1> QED BY <1>1, <1>7, <1>8, <1>9, <1>10 DEF Scan

-----------------------------------------------------------------------------
(* The events of the complete lines.                                       *)
LEMMA ParsedUnique ==
  ASSUME NEW e \in 1..Len(Events), NEW f \in 1..Len(Events), NEW bytes,
         Parsed(e, bytes), Parsed(f, bytes)
  PROVE  e = f
<1>1. Size[e] \in 1..4 /\ Size[f] \in 1..4
  BY SseAssumption
<1>2. ASSUME NEW g \in {e, f}
      PROVE  SubSeq(bytes, 1, Size[g])[1] = <<g, 1>>
  <2>1. Parsed(g, bytes) /\ Size[g] \in 1..4
    BY <1>1
  <2>2. Len(Pieces(g)) = Size[g] /\ Pieces(g) \in Seq((1..Len(Events)) \X (1..4)) /\ Pieces(g)[1] = <<g, 1>>
    BY <2>1 DEF Pieces
  <2>3. SubSeq(Pieces(g), 1, Size[g])[1] = <<g, 1>>
    BY <2>1, <2>2
  <2>4. SubSeq(Pieces(g), 1, Size[g]) = SubSeq(bytes, 1, Size[g])
    BY <2>1, <2>2 DEF Parsed, IsPrefix
  <2> QED BY <2>3, <2>4
<1>3. SubSeq(bytes, 1, Size[e])[1] = bytes[1] /\ SubSeq(bytes, 1, Size[f])[1] = bytes[1]
  BY <1>1
<1>4. bytes[1] = <<e, 1>>
  BY <1>2, <1>3
<1>5. bytes[1] = <<f, 1>>
  BY <1>2, <1>3
<1>6. <<e, 1>>[1] = e /\ <<f, 1>>[1] = f
  OBVIOUS
<1> QED BY ONLY <1>4, <1>5, <1>6

LEMMA EventOfLineType ==
  ASSUME NEW i \in Nat
  PROVE  EventOfLine(i) \in Seq(Event)
<1>1. CASE EventsOfLine(i) = {}
  BY <1>1 DEF EventOfLine
<1>2. CASE EventsOfLine(i) # {}
  <2> DEFINE e == CHOOSE e \in EventsOfLine(i) : TRUE
  <2>1. e \in EventsOfLine(i)
    BY <1>2
  <2>2. e \in 1..Len(Events)
    BY <2>1 DEF EventsOfLine
  <2>3. Events[e] \in Event
    BY <2>2, EventType
  <2>4. EventOfLine(i) = <<Events[e]>>
    BY <1>2 DEF EventOfLine
  <2> HIDE DEF e
  <2> QED BY <2>3, <2>4
<1> QED BY <1>1, <1>2

LEMMA EventsUpToZero == EventsUpTo(0) = <<>>
BY FlattenEmpty DEF EventsUpTo

LEMMA EventsUpToNext ==
  ASSUME NEW q \in Nat
  PROVE  /\ EventsUpTo(q) \in Seq(Event) /\ EventOfLine(q + 1) \in Seq(Event)
         /\ EventsUpTo(q + 1) = EventsUpTo(q) \o EventOfLine(q + 1)
<1> DEFINE f == [i \in 1..(q + 1) |-> EventOfLine(i)]
           g == [i \in 1..q |-> EventOfLine(i)]
<1>1. f \in [1..(q + 1) -> Seq(Event)]
  BY EventOfLineType
<1>2. g = [k \in 1..q |-> f[k]] /\ f[q + 1] = EventOfLine(q + 1)
  OBVIOUS
<1>3. EventsUpTo(q) = FlattenSeq(g) /\ EventsUpTo(q + 1) = FlattenSeq(f)
  BY DEF EventsUpTo
<1> HIDE DEF f, g
<1> QED BY <1>1, <1>2, <1>3, FlattenNext

LEMMA EventsOfNext ==
  ASSUME ScanOK, LineInv, Scan
  PROVE  \/ /\ EventOfLine(pos + 1) = <<>> /\ UNCHANGED accumulated
         \/ \E e \in 1..Len(Events) : /\ EventOfLine(pos + 1) = <<Events[e]>>
                                      /\ handle_event(Events[e])
<1> DEFINE i == pos + 1
<1>0. MaxLine \in Nat /\ Len(line) \in Nat /\ Len(line) <= MaxLine
  BY SseAssumption DEF ScanOK
<1>1. CASE DropLine
  <2>1. UNCHANGED accumulated /\ line_dropped
    BY <1>1, Zenon DEF DropLine
  <2>2. Len(LineAt(i)) > MaxLine
    BY <2>1 DEF LineInv
  <2>3. LineAt(i) \in Seq(Byte)
    BY <1>1, AtNextByte, LineNext DEF DropLine, AtByte
  <2>4. ~(Len(LineAt(i)) \in 2..MaxLine)
    BY <1>0, <2>2, <2>3
  <2>5. EventOfLine(i) = <<>>
    BY <2>4 DEF EventOfLine, EventsOfLine
  <2> QED BY <2>1, <2>5
<1>2. CASE DataLine
  <2>1. ~line_dropped /\ payload[i] = NL /\ IsDataLine
    BY <1>2 DEF DataLine, AtByte
  <2>2. PICK e \in 1..Len(Events) : Parsed(e, JsonText(line)) /\ handle_event(Events[e])
    BY <1>2 DEF DataLine
  <2>3. line = LineAt(i)
    BY <2>1 DEF LineInv
  <2>4. e \in EventsOfLine(i)
    BY <1>0, <2>1, <2>2, <2>3 DEF EventsOfLine, IsDataLine, Parsed
  <2>5. \A f \in EventsOfLine(i) : f = e
    <3> TAKE f \in EventsOfLine(i)
    <3>1. f \in 1..Len(Events) /\ Parsed(f, JsonText(line))
      BY <2>3 DEF EventsOfLine, Parsed
    <3> QED BY <2>2, <3>1, ParsedUnique
  <2>6. EventOfLine(i) = <<Events[e]>>
    <3>1. (CHOOSE f \in EventsOfLine(i) : TRUE) = e
      BY <2>4, <2>5
    <3> QED BY <2>4, <3>1 DEF EventOfLine
  <2> QED BY <2>2, <2>6
<1>3. CASE OtherLine
  <2>1. ~line_dropped
    BY <1>3 DEF OtherLine
  <2>2. line = LineAt(i)
    BY <2>1 DEF LineInv
  <2>3. EventsOfLine(i) = {}
    <3> SUFFICES ASSUME NEW e \in EventsOfLine(i) PROVE FALSE
      OBVIOUS
    <3>1. /\ e \in 1..Len(Events) /\ Parsed(e, JsonText(line)) /\ Len(line) \in 2..MaxLine
          /\ line[1] = DataField
      BY <2>2 DEF EventsOfLine, Parsed
    <3>2. Len(line) > 1
      BY <1>0, <3>1
    <3> QED BY <1>3, <3>1, <3>2 DEF OtherLine, IsDataLine
  <2>4. UNCHANGED accumulated
    BY <1>3, Zenon DEF OtherLine
  <2> QED BY <2>3, <2>4 DEF EventOfLine
<1>4. CASE SkipCarriageReturn \/ OverflowLine \/ CollectByte
  <2>1. UNCHANGED accumulated
    BY <1>4, Zenon DEF SkipCarriageReturn, OverflowLine, CollectByte
  <2>2. payload[i] # NL
    <3>1. CR # NL
      BY DEF CR, NL
    <3> QED BY <1>4, <3>1 DEF SkipCarriageReturn, OverflowLine, CollectByte, AtByte
  <2>3. EventsOfLine(i) = {}
    BY <2>2 DEF EventsOfLine
  <2> QED BY <2>1, <2>3 DEF EventOfLine
<1> QED BY <1>1, <1>2, <1>3, <1>4 DEF Scan

-----------------------------------------------------------------------------
(* Capping after each delta is capping the whole.                          *)
LEMMA SameSeq ==
  ASSUME NEW T, NEW s \in Seq(T), NEW t \in Seq(T), Len(s) = Len(t),
         \A i \in 1..Len(s) : s[i] = t[i]
  PROVE  s = t
<1>1. s = [i \in 1..Len(s) |-> s[i]] /\ t = [i \in 1..Len(t) |-> t[i]]
  OBVIOUS
<1> QED BY <1>1

LEMMA CappedLen ==
  ASSUME NEW old \in Seq(Char), NEW new \in Seq(Char), NEW k \in Nat, k = Len(old) + Len(new)
  PROVE  /\ Capped(old, new) \in Seq(Char)
         /\ Len(Capped(old, new)) = IF k < MaxBlockSize THEN k ELSE MaxBlockSize
         /\ \A i \in 1..Len(Capped(old, new)) : Capped(old, new)[i] = (old \o new)[i]
<1>1. Len(old \o new) = k
  OBVIOUS
<1> QED BY <1>1, CappedIs

LEMMA CappedFrom ==
  ASSUME NEW D \in Seq(Char)
  PROVE  /\ Capped(<<>>, D) \in Seq(Char)
         /\ Len(Capped(<<>>, D)) = IF Len(D) < MaxBlockSize THEN Len(D) ELSE MaxBlockSize
         /\ \A i \in 1..Len(Capped(<<>>, D)) : Capped(<<>>, D)[i] = D[i]
<1>1. <<>> \in Seq(Char) /\ <<>> \o D = D
  OBVIOUS
<1>2. LET s == <<>> \o D
          m == IF Len(s) < MaxBlockSize THEN Len(s) ELSE MaxBlockSize
      IN  /\ Capped(<<>>, D) \in Seq(Char) /\ Len(Capped(<<>>, D)) = m
          /\ \A i \in 1..m : Capped(<<>>, D)[i] = s[i]
  BY <1>1, CappedIs
<1> QED BY <1>1, <1>2

LEMMA FullStays ==
  ASSUME NEW old \in Seq(Char), NEW new \in Seq(Char), Len(old) = MaxBlockSize
  PROVE  Capped(old, new) = old
<1> DEFINE c == Capped(old, new)
           k == Len(old) + Len(new)
<1>1. k \in Nat /\ MaxBlockSize \in Nat /\ ~(k < MaxBlockSize)
  BY SseAssumption
<1>2. c \in Seq(Char) /\ Len(c) = MaxBlockSize /\ \A i \in 1..Len(c) : c[i] = (old \o new)[i]
  BY <1>1, CappedLen
<1>3. \A i \in 1..Len(old) : (old \o new)[i] = old[i]
  OBVIOUS
<1> HIDE DEF c
<1>4. \A i \in 1..Len(c) : c[i] = old[i]
  BY <1>2, <1>3
<1>5. c = old
  BY <1>2, <1>4, SameSeq
<1> QED BY <1>5 DEF c

LEMMA CapTwice ==
  ASSUME NEW D \in Seq(Char), NEW d \in Seq(Char)
  PROVE  Capped(Capped(<<>>, D), d) = Capped(<<>>, D \o d)
<1> DEFINE c == Capped(<<>>, D)
           t == Capped(<<>>, D \o d)
           k == Len(D)
           j == Len(D) + Len(d)
<1>0. MaxBlockSize \in Nat /\ k \in Nat /\ j \in Nat /\ k <= j /\ D \o d \in Seq(Char) /\ Len(D \o d) = j
  BY SseAssumption
<1>1. <<>> \o (D \o d) = D \o d
  BY <1>0
<1>2. /\ c \in Seq(Char) /\ Len(c) = IF k < MaxBlockSize THEN k ELSE MaxBlockSize
      /\ \A i \in 1..Len(c) : c[i] = D[i]
  BY <1>0, CappedFrom
<1>3. /\ t \in Seq(Char) /\ Len(t) = IF j < MaxBlockSize THEN j ELSE MaxBlockSize
      /\ \A i \in 1..Len(t) : t[i] = (D \o d)[i]
  BY <1>0, CappedFrom
<1>4. \A i \in 1..k : (D \o d)[i] = D[i]
  OBVIOUS
<1> HIDE DEF c, t, k, j
<1>5. CASE k <= MaxBlockSize
  <2>1. Len(c) = Len(D)
    BY <1>0, <1>2, <1>5 DEF k
  <2>2. c = D
    BY <1>2, <2>1, SameSeq
  <2>3. Capped(D, d) = Capped(<<>>, D \o d)
    BY <1>1 DEF Capped
  <2> QED BY <2>2, <2>3 DEF c
<1>6. CASE ~(k <= MaxBlockSize)
  <2>1. Len(c) = MaxBlockSize /\ Len(t) = MaxBlockSize /\ MaxBlockSize <= k
    BY <1>0, <1>2, <1>3, <1>6
  <2>2. Capped(c, d) = c
    BY <1>2, <2>1, FullStays
  <2>3. \A i \in 1..Len(c) : c[i] = t[i]
    <3> TAKE i \in 1..Len(c)
    <3>1. i \in 1..k /\ i \in 1..Len(t)
      BY <1>0, <2>1
    <3> QED BY <1>2, <1>3, <1>4, <3>1
  <2>4. c = t
    BY <1>2, <1>3, <2>1, <2>3, SameSeq
  <2> QED BY <2>2, <2>4 DEF c, t
<1> QED BY <1>5, <1>6

LEMMA CapNothing ==
  ASSUME NEW D \in Seq(Char)
  PROVE  D \o <<>> = D
OBVIOUS

-----------------------------------------------------------------------------
(* The reference block of one more event.                                  *)
IsStart(e, i) == e.kind = "start" /\ e.index = i

LEMMA StartsNext ==
  ASSUME NEW evs \in Seq(Event), NEW e \in Event, NEW i \in Index
  PROVE  /\ StartsOf(evs, i) \in SUBSET (1..Len(evs))
         /\ StartsOf(Append(evs, e), i) =
              StartsOf(evs, i) \cup (IF IsStart(e, i) THEN {Len(evs) + 1} ELSE {})
<1> DEFINE m == Len(evs)
           a == Append(evs, e)
<1>1. m \in Nat /\ Len(a) = m + 1 /\ a[m + 1] = e /\ \A k \in 1..m : a[k] = evs[k]
  OBVIOUS
<1> HIDE DEF m, a
<1>2. \A k \in 1..(m + 1) : k \in 1..m \/ k = m + 1
  BY <1>1
<1>3. \A k \in 1..m : k \in 1..(m + 1)
  BY <1>1
<1>4. m + 1 \in 1..(m + 1)
  BY <1>1
<1>5. StartsOf(a, i) = {k \in 1..(m + 1) : a[k].kind = "start" /\ a[k].index = i}
  BY <1>1 DEF StartsOf
<1>6. StartsOf(evs, i) = {k \in 1..m : evs[k].kind = "start" /\ evs[k].index = i}
  BY DEF StartsOf, m
<1>7. StartsOf(a, i) = StartsOf(evs, i) \cup (IF IsStart(e, i) THEN {m + 1} ELSE {})
  BY <1>1, <1>2, <1>3, <1>4, <1>5, <1>6 DEF IsStart
<1> QED BY <1>6, <1>7 DEF a, m

LastStart(evs, i) == Max({0} \cup StartsOf(evs, i))

LEMMA LastStartIs ==
  ASSUME NEW evs \in Seq(Event), NEW i \in Index
  PROVE  /\ LastStart(evs, i) \in 0..Len(evs)
         /\ StartsOf(evs, i) = {} => LastStart(evs, i) = 0
         /\ StartsOf(evs, i) # {} => /\ LastStart(evs, i) = Max(StartsOf(evs, i))
                                     /\ Max(StartsOf(evs, i)) \in StartsOf(evs, i)
<1> DEFINE S == StartsOf(evs, i)
           N == Len(evs)
           T == {0} \cup S
<1>1. N \in Nat /\ S \in SUBSET (1..N)
  BY DEF StartsOf
<1> HIDE DEF S, N
<1>2. T \in SUBSET (0..N) /\ T # {} /\ S \in SUBSET (0..N)
  BY <1>1
<1>3. Max(T) \in T /\ \A y \in T : Max(T) >= y
  BY <1>1, <1>2, MaxOf
<1>4. Max(T) \in 0..N
  BY <1>2, <1>3
<1>5. S = {} => Max(T) = 0
  BY <1>3
<1>6. ASSUME S # {} PROVE Max(T) = Max(S) /\ Max(S) \in S
  <2>1. Max(S) \in S /\ \A y \in S : Max(S) >= y
    BY <1>1, <1>2, <1>6, MaxOf
  <2> DEFINE x == Max(S)
  <2>2. x \in S /\ \A y \in S : x >= y
    BY <2>1
  <2> HIDE DEF x
  <2>3. x \in Nat /\ x >= 0 /\ \A y \in S : y \in Nat
    BY <1>1, <2>2
  <2>4. T \in SUBSET Nat /\ x \in T /\ \A y \in T : x >= y
    BY <2>2, <2>3
  <2> HIDE DEF T
  <2>5. Max(T) = x
    BY <2>4, MaxIs
  <2> QED BY <2>2, <2>5 DEF x
<1>7. LastStart(evs, i) = Max(T)
  BY DEF LastStart, S
<1> HIDE DEF T
<1> QED BY <1>4, <1>5, <1>6, <1>7 DEF S, N

LEMMA LastStartNext ==
  ASSUME NEW evs \in Seq(Event), NEW e \in Event, NEW i \in Index
  PROVE  LastStart(Append(evs, e), i) = IF IsStart(e, i) THEN Len(evs) + 1 ELSE LastStart(evs, i)
<1>1. CASE IsStart(e, i)
  <2> DEFINE S == StartsOf(evs, i)
             N == Len(evs)
             T == {0} \cup (S \cup {N + 1})
  <2>1. N \in Nat /\ S \in SUBSET (1..N) /\ StartsOf(Append(evs, e), i) = S \cup {N + 1}
    BY <1>1, StartsNext
  <2> HIDE DEF S, N
  <2>2. T \in SUBSET Nat /\ N + 1 \in T /\ \A y \in T : N + 1 >= y
    <3>1. \A y \in S : y \in Nat /\ N + 1 >= y
      BY <2>1
    <3>2. N + 1 \in Nat /\ N + 1 >= 0
      BY <2>1
    <3> QED BY <3>1, <3>2
  <2>3. Max(T) = N + 1
    <3> DEFINE x == N + 1
    <3>1. x \in T /\ \A y \in T : x >= y
      BY <2>2
    <3> HIDE DEF T, x
    <3>2. Max(T) = x
      BY <2>2, <3>1, MaxIs
    <3> QED BY <3>2 DEF x
  <2> QED BY <1>1, <2>1, <2>3 DEF LastStart, N
<1>2. CASE ~IsStart(e, i)
  <2>1. StartsOf(Append(evs, e), i) = StartsOf(evs, i)
    <3>1. StartsOf(Append(evs, e), i) = StartsOf(evs, i) \cup {}
      BY <1>2, StartsNext
    <3> QED BY ONLY <3>1
  <2> QED BY ONLY <1>2, <2>1 DEF LastStart
<1> QED BY <1>1, <1>2

DeltaOf(e, i, kind) == IF e.kind = kind /\ e.index = i THEN e.data ELSE <<>>

LEMMA DeltaType ==
  ASSUME NEW e \in Event, NEW i \in Index, NEW kind
  PROVE  DeltaOf(e, i, kind) \in Seq(Char)
BY NoChars DEF DeltaOf, Event

LEMMA DeltasType ==
  ASSUME NEW evs \in Seq(Event), NEW i \in Index, NEW kind
  PROVE  DeltasOf(evs, i, kind) \in Seq(Char)
<1> DEFINE N == Len(evs)
           from == LastStart(evs, i)
           after == SubSeq(evs, from + 1, N)
           g == [k \in 1..Len(after) |-> DeltaOf(after[k], i, kind)]
<1>1. N \in Nat /\ from \in 0..N
  BY LastStartIs
<1>2. DeltasOf(evs, i, kind) = FlattenSeq(g)
  BY DEF DeltasOf, LastStart, DeltaOf
<1>3. after \in Seq(Event)
  <2> HIDE DEF from
  <2> QED BY <1>1
<1> HIDE DEF after
<1>4. \A k \in 1..Len(after) : DeltaOf(after[k], i, kind) \in Seq(Char)
  BY <1>3, DeltaType
<1>5. g \in Seq(Seq(Char))
  BY <1>3, <1>4
<1> HIDE DEF g
<1> QED BY <1>2, <1>5, FlattenType

LEMMA DeltasNext ==
  ASSUME NEW evs \in Seq(Event), NEW e \in Event, NEW i \in Index, NEW kind
  PROVE  /\ DeltasOf(evs, i, kind) \in Seq(Char)
         /\ DeltasOf(Append(evs, e), i, kind) =
              IF IsStart(e, i) THEN <<>> ELSE DeltasOf(evs, i, kind) \o DeltaOf(e, i, kind)
<1> DEFINE N == Len(evs)
           a == Append(evs, e)
           from == LastStart(evs, i)
           after == SubSeq(evs, from + 1, N)
           M == Len(after)
           g == [k \in 1..M |-> DeltaOf(after[k], i, kind)]
<1>1. N \in Nat /\ a \in Seq(Event) /\ Len(a) = N + 1 /\ a[N + 1] = e /\ \A k \in 1..N : a[k] = evs[k]
  OBVIOUS
<1>2. from \in 0..N
  BY LastStartIs
<1>3. DeltasOf(evs, i, kind) = FlattenSeq(g)
  BY DEF DeltasOf, LastStart, DeltaOf
<1>4. after \in Seq(Event) /\ M = N - from /\ M \in Nat
  <2> HIDE DEF from
  <2> QED BY <1>2
<1>5. \A k \in 1..M : DeltaOf(after[k], i, kind) \in Seq(Char)
  <2> HIDE DEF after
  <2> QED BY <1>4, DeltaType
<1>7. FlattenSeq(g) \in Seq(Char)
  BY <1>3, DeltasType
<1>8. CASE IsStart(e, i)
  <2>1. LastStart(a, i) = N + 1
    BY <1>8, LastStartNext
  <2>2. SubSeq(a, (N + 1) + 1, N + 1) = <<>>
    <3> HIDE DEF a
    <3> QED BY <1>1
  <2>3. DeltasOf(a, i, kind) = FlattenSeq(<<>>)
    <3> DEFINE b == SubSeq(a, Max({0} \cup StartsOf(a, i)) + 1, Len(a))
    <3>1. b = <<>>
      BY <1>1, <2>1, <2>2 DEF LastStart
    <3>2. DeltasOf(a, i, kind) = FlattenSeq([k \in 1..Len(b) |-> DeltaOf(b[k], i, kind)])
      BY DEF DeltasOf, DeltaOf
    <3> HIDE DEF b
    <3>3. [k \in 1..Len(b) |-> DeltaOf(b[k], i, kind)] = <<>>
      BY <3>1
    <3> QED BY <3>2, <3>3
  <2> QED BY <1>3, <1>7, <1>8, <2>3, FlattenEmpty
<1>9. CASE ~IsStart(e, i)
  <2> DEFINE b == SubSeq(a, from + 1, N + 1)
             f == [k \in 1..(M + 1) |-> DeltaOf(b[k], i, kind)]
  <2>1. LastStart(a, i) = from
    BY <1>9, LastStartNext
  <2>2. b = Append(after, e)
    <3> HIDE DEF a, from
    <3>1. b = Append(SubSeq(a, from + 1, N), a[N + 1])
      <4>1. from \in Nat /\ from <= N /\ N < Len(a) /\ N \in Nat
        BY <1>1, <1>2
      <4> HIDE DEF N
      <4> QED BY <1>1, <4>1, SliceNext
    <3>2. SubSeq(a, from + 1, N) = after
      BY <1>1, <1>2
    <3> QED BY <1>1, <3>1, <3>2
  <2> HIDE DEF a, from, after
  <2>3. Len(b) = M + 1 /\ b[M + 1] = e /\ \A k \in 1..M : b[k] = after[k]
    <3> HIDE DEF b
    <3> QED BY <1>4, <2>2
  <2>4. DeltasOf(a, i, kind) = FlattenSeq(f)
    BY <1>1, <2>1, <2>3 DEF DeltasOf, LastStart, DeltaOf
  <2> HIDE DEF b, M
  <2>5. \A k \in 1..(M + 1) : DeltaOf(b[k], i, kind) \in Seq(Char)
    <3> TAKE k \in 1..(M + 1)
    <3>1. CASE k = M + 1
      BY <2>3, <3>1, DeltaType
    <3>2. CASE k # M + 1
      <4>1. k \in 1..M
        BY <1>4, <3>2
      <4> QED BY <1>5, <2>3, <4>1
    <3> QED BY <3>1, <3>2
  <2>6. f \in [1..(M + 1) -> Seq(Char)] /\ f[M + 1] = DeltaOf(e, i, kind)
    BY <1>4, <2>3, <2>5
  <2>7. g = [k \in 1..M |-> f[k]]
    BY <1>4, <2>3
  <2> HIDE DEF f, g
  <2>8. FlattenSeq(f) = FlattenSeq(g) \o f[M + 1]
    BY <1>4, <2>6, <2>7, FlattenNext
  <2> QED BY <1>3, <1>7, <1>9, <2>4, <2>6, <2>8 DEF a
<1> QED BY <1>8, <1>9

-----------------------------------------------------------------------------
(* handle_event computes the next reference block from the last one.       *)
NextBlock(b, e, i) ==
  IF IsStart(e, i)
  THEN [type |-> e.type, id |-> e.id, text |-> <<>>, partial |-> <<>>]
  ELSE [type |-> b.type, id |-> b.id,
        text |-> Capped(b.text, DeltaOf(e, i, "text")),
        partial |-> Capped(b.partial, DeltaOf(e, i, "input"))]

LEMMA CapNone ==
  ASSUME NEW s \in Seq(Char), Len(s) <= MaxBlockSize
  PROVE  Capped(s, <<>>) = s
<1> DEFINE c == Capped(s, <<>>)
           k == Len(s)
<1>1. <<>> \in Seq(Char) /\ k \in Nat /\ k = Len(s) + Len(<<>>) /\ s \o <<>> = s /\ MaxBlockSize \in Nat
  BY SseAssumption
<1>2. /\ c \in Seq(Char) /\ Len(c) = IF k < MaxBlockSize THEN k ELSE MaxBlockSize
      /\ \A i \in 1..Len(c) : c[i] = s[i]
  <2> DEFINE z == <<>>
  <2>1. z \in Seq(Char) /\ k = Len(s) + Len(z) /\ s \o z = s
    BY <1>1
  <2> HIDE DEF z, k
  <2>2. /\ Capped(s, z) \in Seq(Char)
        /\ Len(Capped(s, z)) = IF k < MaxBlockSize THEN k ELSE MaxBlockSize
        /\ \A i \in 1..Len(Capped(s, z)) : Capped(s, z)[i] = (s \o z)[i]
    BY <1>1, <2>1, CappedLen
  <2> QED BY <2>1, <2>2 DEF z
<1> HIDE DEF c
<1>3. Len(c) = Len(s)
  BY <1>1, <1>2
<1>4. c = s
  BY <1>2, <1>3, SameSeq
<1> QED BY <1>4 DEF c

LEMMA BlockNext ==
  ASSUME NEW evs \in Seq(Event), NEW e \in Event, NEW i \in Index
  PROVE  ReferenceBlock(Append(evs, e), i) = NextBlock(ReferenceBlock(evs, i), e, i)
<1> DEFINE a == Append(evs, e)
           b == ReferenceBlock(evs, i)
           S == StartsOf(evs, i)
           N == Len(evs)
<1>1. N \in Nat /\ Len(a) = N + 1 /\ a[N + 1] = e /\ \A k \in 1..N : a[k] = evs[k]
  OBVIOUS
<1>2. S \in SUBSET (1..N) /\ StartsOf(a, i) = S \cup (IF IsStart(e, i) THEN {N + 1} ELSE {})
  BY StartsNext
<1>3. /\ b.type = (IF S = {} THEN "" ELSE evs[Max(S)].type)
      /\ b.id = (IF S = {} THEN "" ELSE evs[Max(S)].id)
      /\ b.text = Capped(<<>>, DeltasOf(evs, i, "text"))
      /\ b.partial = Capped(<<>>, DeltasOf(evs, i, "input"))
  BY DEF ReferenceBlock
<1>4. CASE IsStart(e, i)
  <2>1. DeltasOf(a, i, "text") = <<>> /\ DeltasOf(a, i, "input") = <<>>
    BY <1>4, DeltasNext
  <2>2. Capped(<<>>, <<>>) = <<>>
    <3> DEFINE z == <<>>
    <3>1. z \in Seq(Char) /\ Len(z) <= MaxBlockSize
      BY SseAssumption
    <3>2. Capped(z, z) = z
      <4> HIDE DEF z
      <4>1. Capped(z, <<>>) = z
        BY <3>1, CapNone
      <4> QED BY <4>1 DEF z
    <3> QED BY <3>2
  <2>3. StartsOf(a, i) # {} /\ Max(StartsOf(a, i)) = N + 1
    <3> DEFINE x == N + 1
               T == S \cup {x}
    <3>1. StartsOf(a, i) = T
      BY <1>2, <1>4
    <3> HIDE DEF S, N, a
    <3>2. T \in SUBSET Nat /\ x \in T /\ \A y \in T : x >= y
      <4>1. \A y \in S : y \in Nat /\ x >= y
        BY <1>1, <1>2
      <4>2. x \in Nat /\ x >= x
        BY <1>1
      <4> QED BY <4>1, <4>2
    <3> HIDE DEF T, x
    <3>3. Max(T) = x
      BY <3>2, MaxIs
    <3> QED BY <3>1, <3>2, <3>3 DEF x
  <2>4. ReferenceBlock(a, i) = [type |-> e.type, id |-> e.id, text |-> <<>>, partial |-> <<>>]
    <3> HIDE DEF a
    <3> QED BY <1>1, <2>1, <2>2, <2>3 DEF ReferenceBlock
  <2> QED BY <1>4, <2>4 DEF NextBlock
<1>5. CASE ~IsStart(e, i)
  <2>1. StartsOf(a, i) = S
    BY <1>2, <1>5
  <2>2. S # {} => a[Max(S)] = evs[Max(S)]
    <3>1. S # {} => Max(S) \in 1..N
      BY <1>2, LastStartIs
    <3> HIDE DEF a, S, N
    <3> QED BY <1>1, <3>1
  <2>3. ASSUME NEW kind
        PROVE  /\ DeltasOf(a, i, kind) = DeltasOf(evs, i, kind) \o DeltaOf(e, i, kind)
               /\ Capped(<<>>, DeltasOf(a, i, kind)) =
                    Capped(Capped(<<>>, DeltasOf(evs, i, kind)), DeltaOf(e, i, kind))
    <3>1. /\ DeltasOf(evs, i, kind) \in Seq(Char) /\ DeltaOf(e, i, kind) \in Seq(Char)
          /\ DeltasOf(a, i, kind) = DeltasOf(evs, i, kind) \o DeltaOf(e, i, kind)
      BY <1>5, DeltasNext, DeltaType
    <3> QED BY <3>1, CapTwice
  <2>4. ReferenceBlock(a, i) =
          [type |-> IF S = {} THEN "" ELSE a[Max(S)].type,
           id   |-> IF S = {} THEN "" ELSE a[Max(S)].id,
           text |-> Capped(<<>>, DeltasOf(a, i, "text")),
           partial |-> Capped(<<>>, DeltasOf(a, i, "input"))]
    <3> HIDE DEF a, S
    <3> QED BY <2>1 DEF ReferenceBlock
  <2>5. NextBlock(b, e, i) =
          [type |-> b.type, id |-> b.id, text |-> Capped(b.text, DeltaOf(e, i, "text")),
           partial |-> Capped(b.partial, DeltaOf(e, i, "input"))]
    BY <1>5 DEF NextBlock
  <2> HIDE DEF a, b, S
  <2>6. (IF S = {} THEN "" ELSE a[Max(S)].type) = b.type /\ (IF S = {} THEN "" ELSE a[Max(S)].id) = b.id
    BY <1>3, <2>2
  <2>7. /\ Capped(<<>>, DeltasOf(a, i, "text")) = Capped(b.text, DeltaOf(e, i, "text"))
        /\ Capped(<<>>, DeltasOf(a, i, "input")) = Capped(b.partial, DeltaOf(e, i, "input"))
    BY <1>3, <2>3
  <2>8. ReferenceBlock(a, i) = NextBlock(b, e, i)
    BY <2>4, <2>5, <2>6, <2>7
  <2> QED BY <2>8 DEF a, b
<1> QED BY <1>4, <1>5

LEMMA SameBlock ==
  ASSUME NEW b \in Block, NEW c \in Block,
         b.type = c.type, b.id = c.id, b.text = c.text, b.partial = c.partial
  PROVE  b = c
<1>1. b = [type |-> b.type, id |-> b.id, text |-> b.text, partial |-> b.partial]
  BY DEF Block
<1>2. c = [type |-> c.type, id |-> c.id, text |-> c.text, partial |-> c.partial]
  BY DEF Block
<1> QED BY <1>1, <1>2

LEMMA HandleNext ==
  ASSUME BlocksOK, NEW e \in Event, handle_event(e)
  PROVE  blocks' = [i \in Index |-> NextBlock(blocks[i], e, i)]
<1> DEFINE next(i) == NextBlock(blocks[i], e, i)
<1>0. /\ e.data \in Seq(Char) /\ MaxBlockSize \in Nat
      /\ blocks \in [Index -> Block]
      /\ \A i \in Index : /\ blocks[i] \in Block /\ blocks[i].text \in Seq(Char) /\ blocks[i].partial \in Seq(Char)
                          /\ Len(blocks[i].text) <= MaxBlockSize /\ Len(blocks[i].partial) <= MaxBlockSize
  BY SseAssumption DEF BlocksOK, Event, Block
<1>1. ASSUME NEW i \in Index, ~IsStart(e, i), DeltaOf(e, i, "text") = <<>>, DeltaOf(e, i, "input") = <<>>
      PROVE  next(i) = blocks[i]
  <2> DEFINE b == blocks[i]
  <2>1. b \in Block /\ Capped(b.text, <<>>) = b.text /\ Capped(b.partial, <<>>) = b.partial
    BY <1>0, CapNone
  <2>2. next(i) = [type |-> b.type, id |-> b.id, text |-> b.text, partial |-> b.partial]
    BY <1>1, <2>1 DEF NextBlock
  <2> HIDE DEF b
  <2>3. b = [type |-> b.type, id |-> b.id, text |-> b.text, partial |-> b.partial]
    BY <2>1 DEF Block
  <2> QED BY <2>2, <2>3 DEF b
<1>2. ASSUME NEW i \in Index, e.index # i PROVE next(i) = blocks[i]
  BY <1>1, <1>2 DEF IsStart, DeltaOf
<1>3. CASE content_block_start(e)
  <2> DEFINE b == [type |-> e.type, id |-> e.id, text |-> <<>>, partial |-> <<>>]
  <2>1. e.index \in Index /\ blocks' = [blocks EXCEPT ![e.index] = b] /\ e.kind = "start"
    BY <1>3 DEF content_block_start
  <2>2. next(e.index) = b
    BY <2>1 DEF NextBlock, IsStart
  <2> HIDE DEF b, next
  <2> QED BY <1>0, <1>2, <2>1, <2>2 DEF next
<1>4. CASE text_delta(e)
  <2> DEFINE b == blocks[e.index]
             t == Capped(b.text, e.data)
  <2>1. e.index \in Index /\ blocks' = [blocks EXCEPT ![e.index] = [b EXCEPT !.text = t]] /\ e.kind = "text"
    BY <1>4 DEF text_delta
  <2>2. ~IsStart(e, e.index) /\ DeltaOf(e, e.index, "text") = e.data /\ DeltaOf(e, e.index, "input") = <<>>
    BY <2>1 DEF IsStart, DeltaOf
  <2>3. Capped(b.partial, <<>>) = b.partial /\ b \in Block /\ t \in Seq(Char)
    BY <1>0, <2>1, CapNone, CappedIs
  <2>4. next(e.index) = [type |-> b.type, id |-> b.id, text |-> t, partial |-> b.partial]
    BY <2>2, <2>3 DEF NextBlock
  <2> HIDE DEF b, t
  <2>5. [b EXCEPT !.text = t] = [type |-> b.type, id |-> b.id, text |-> t, partial |-> b.partial]
    <3>1. [b EXCEPT !.text = t] \in Block
      BY <2>3 DEF Block
    <3> DEFINE x == [b EXCEPT !.text = t]
               y == [type |-> b.type, id |-> b.id, text |-> t, partial |-> b.partial]
    <3>2. y \in Block
      BY <2>3 DEF Block
    <3>3. x.type = y.type /\ x.id = y.id /\ x.text = y.text /\ x.partial = y.partial
      BY <2>3 DEF Block
    <3>4. x \in Block
      BY <3>1
    <3> HIDE DEF x, y
    <3>5. x = y
      BY <3>2, <3>3, <3>4, SameBlock
    <3> QED BY <3>5 DEF x, y
  <2> HIDE DEF next
  <2> QED BY <1>0, <1>2, <2>1, <2>4, <2>5 DEF next
<1>5. CASE input_json_delta(e)
  <2> DEFINE b == blocks[e.index]
             t == Capped(b.partial, e.data)
  <2>1. e.index \in Index /\ blocks' = [blocks EXCEPT ![e.index] = [b EXCEPT !.partial = t]] /\ e.kind = "input"
    BY <1>5 DEF input_json_delta
  <2>2. ~IsStart(e, e.index) /\ DeltaOf(e, e.index, "input") = e.data /\ DeltaOf(e, e.index, "text") = <<>>
    BY <2>1 DEF IsStart, DeltaOf
  <2>3. Capped(b.text, <<>>) = b.text /\ b \in Block /\ t \in Seq(Char)
    BY <1>0, <2>1, CapNone, CappedIs
  <2>4. next(e.index) = [type |-> b.type, id |-> b.id, text |-> b.text, partial |-> t]
    BY <2>2, <2>3 DEF NextBlock
  <2> HIDE DEF b, t
  <2>5. [b EXCEPT !.partial = t] = [type |-> b.type, id |-> b.id, text |-> b.text, partial |-> t]
    <3>1. [b EXCEPT !.partial = t] \in Block
      BY <2>3 DEF Block
    <3> DEFINE x == [b EXCEPT !.partial = t]
               y == [type |-> b.type, id |-> b.id, text |-> b.text, partial |-> t]
    <3>2. y \in Block
      BY <2>3 DEF Block
    <3>3. x.type = y.type /\ x.id = y.id /\ x.text = y.text /\ x.partial = y.partial
      BY <2>3 DEF Block
    <3>4. x \in Block
      BY <3>1
    <3> HIDE DEF x, y
    <3>5. x = y
      BY <3>2, <3>3, <3>4, SameBlock
    <3> QED BY <3>5 DEF x, y
  <2> HIDE DEF next
  <2> QED BY <1>0, <1>2, <2>1, <2>4, <2>5 DEF next
<1>6. CASE event_ignored(e)
  <2>1. blocks' = blocks
    BY <1>6 DEF event_ignored, accumulated
  <2>2. ASSUME NEW i \in Index PROVE next(i) = blocks[i]
    <3>1. CASE e.index # i
      BY <1>2, <3>1
    <3>2. CASE e.kind \in {"ignored", "thinking"}
      BY <1>1, <3>2 DEF IsStart, DeltaOf
    <3>3. CASE e.index = i /\ e.kind \in {"text", "input"} /\ Full(e)
      <4> DEFINE b == blocks[i]
      <4>1. b \in Block /\ Capped(b.text, <<>>) = b.text /\ Capped(b.partial, <<>>) = b.partial
        BY <1>0, CapNone
      <4>2. CASE e.kind = "text"
        <5>1. Len(b.text) = MaxBlockSize
          <6>1. Len(b.text) >= MaxBlockSize /\ Len(b.text) <= MaxBlockSize /\ Len(b.text) \in Nat
            BY <1>0, <3>3, <4>2 DEF Full
          <6> QED BY ONLY <1>0, <6>1
        <5>2. Capped(b.text, e.data) = b.text
          BY <1>0, <5>1, FullStays
        <5>3. ~IsStart(e, i) /\ DeltaOf(e, i, "text") = e.data /\ DeltaOf(e, i, "input") = <<>>
          BY <3>3, <4>2 DEF IsStart, DeltaOf
        <5>4. next(i) = [type |-> b.type, id |-> b.id, text |-> b.text, partial |-> b.partial]
          BY <4>1, <5>2, <5>3 DEF NextBlock
        <5> HIDE DEF b
        <5>5. b = [type |-> b.type, id |-> b.id, text |-> b.text, partial |-> b.partial]
          BY <4>1 DEF Block
        <5> QED BY <5>4, <5>5 DEF b
      <4>3. CASE e.kind = "input"
        <5>1. Len(b.partial) = MaxBlockSize
          <6>1. Len(b.partial) >= MaxBlockSize /\ Len(b.partial) <= MaxBlockSize /\ Len(b.partial) \in Nat
            BY <1>0, <3>3, <4>3 DEF Full
          <6> QED BY ONLY <1>0, <6>1
        <5>2. Capped(b.partial, e.data) = b.partial
          BY <1>0, <5>1, FullStays
        <5>3. ~IsStart(e, i) /\ DeltaOf(e, i, "input") = e.data /\ DeltaOf(e, i, "text") = <<>>
          BY <3>3, <4>3 DEF IsStart, DeltaOf
        <5>4. next(i) = [type |-> b.type, id |-> b.id, text |-> b.text, partial |-> b.partial]
          BY <4>1, <5>2, <5>3 DEF NextBlock
        <5> HIDE DEF b
        <5>5. b = [type |-> b.type, id |-> b.id, text |-> b.text, partial |-> b.partial]
          BY <4>1 DEF Block
        <5> QED BY <5>4, <5>5 DEF b
      <4> QED BY <3>3, <4>2, <4>3
    <3> QED BY <1>6, <3>1, <3>2, <3>3 DEF event_ignored
  <2> HIDE DEF next
  <2> QED BY <1>0, <2>1, <2>2 DEF next
<1> QED BY <1>3, <1>4, <1>5, <1>6 DEF handle_event

(* The blocks that the events have started, counted from 1.                *)
Ended(evs) ==
  {evs[k].index + 1 : k \in {j \in 1..Len(evs) : evs[j].kind = "start" /\ evs[j].index \in Index}}

LEMMA EndedNext ==
  ASSUME NEW evs \in Seq(Event), NEW e \in Event
  PROVE  /\ Ended(evs) \in SUBSET (0..MaxBlocks)
         /\ Ended(Append(evs, e)) =
              Ended(evs) \cup (IF e.kind = "start" /\ e.index \in Index THEN {e.index + 1} ELSE {})
<1> DEFINE m == Len(evs)
           a == Append(evs, e)
           S(s, k) == s[k].kind = "start" /\ s[k].index \in Index
<1>1. m \in Nat /\ Len(a) = m + 1 /\ a[m + 1] = e /\ \A k \in 1..m : a[k] = evs[k]
  OBVIOUS
<1>2. MaxBlocks \in Nat /\ \A x \in Index : x + 1 \in 0..MaxBlocks
  BY SseAssumption DEF Index
<1>3. Ended(evs) \in SUBSET (0..MaxBlocks)
  BY <1>2 DEF Ended
<1> HIDE DEF m, a
<1>4. \A k \in 1..(m + 1) : k \in 1..m \/ k = m + 1
  BY <1>1
<1>5. m + 1 \in 1..(m + 1) /\ \A k \in 1..m : k \in 1..(m + 1)
  BY <1>1
<1>6. Ended(a) = {a[k].index + 1 : k \in {j \in 1..(m + 1) : S(a, j)}}
  BY <1>1 DEF Ended
<1>7. Ended(evs) = {evs[k].index + 1 : k \in {j \in 1..m : S(evs, j)}}
  BY DEF Ended, m
<1>8. {j \in 1..(m + 1) : S(a, j)} = {j \in 1..m : S(evs, j)} \cup (IF S(a, m + 1) THEN {m + 1} ELSE {})
  BY <1>1, <1>4, <1>5
<1>9. {a[k].index + 1 : k \in {j \in 1..m : S(evs, j)}} = Ended(evs)
  BY <1>1, <1>7
<1>10. Ended(a) = Ended(evs) \cup {a[k].index + 1 : k \in (IF S(a, m + 1) THEN {m + 1} ELSE {})}
  <2> DEFINE U == {j \in 1..m : S(evs, j)}
             V == IF S(a, m + 1) THEN {m + 1} ELSE {}
  <2>1. Ended(a) = {a[k].index + 1 : k \in U \cup V}
    BY <1>6, <1>8
  <2>2. Ended(evs) = {a[k].index + 1 : k \in U}
    BY <1>9
  <2> HIDE DEF U, V
  <2>3. {a[k].index + 1 : k \in U \cup V} = {a[k].index + 1 : k \in U} \cup {a[k].index + 1 : k \in V}
    OBVIOUS
  <2> QED BY <2>1, <2>2, <2>3 DEF V
<1>11. {a[k].index + 1 : k \in (IF S(a, m + 1) THEN {m + 1} ELSE {})}
       = IF e.kind = "start" /\ e.index \in Index THEN {e.index + 1} ELSE {}
  BY <1>1
<1> QED BY <1>3, <1>10, <1>11 DEF a

LEMMA NextCount ==
  ASSUME BlocksOK, NEW e \in Event, NEW evs \in Seq(Event), handle_event(e),
         n = Max({0} \cup Ended(evs))
  PROVE  n' = Max({0} \cup Ended(Append(evs, e)))
<1> DEFINE E == Ended(evs)
           T == {0} \cup E
<1>0. MaxBlocks \in Nat /\ E \in SUBSET (0..MaxBlocks)
  BY SseAssumption, EndedNext
<1>1. n \in T /\ n \in Nat /\ T \in SUBSET Nat /\ \A y \in T : n >= y
  <2> HIDE DEF E
  <2>1. T \in SUBSET (0..MaxBlocks) /\ T # {}
    BY <1>0
  <2>2. n = Max(T)
    BY DEF E
  <2> HIDE DEF T
  <2>3. T \in SUBSET Nat
    BY <1>0, <2>1
  <2>4. Max(T) \in T /\ \A y \in T : Max(T) >= y
    BY <1>0, <2>1, MaxOf
  <2> QED BY <2>2, <2>3, <2>4
<1>2. CASE content_block_start(e)
  <2> DEFINE k == e.index + 1
  <2>1. e.kind = "start" /\ e.index \in Index /\ n' = IF k > n THEN k ELSE n
    BY <1>2 DEF content_block_start
  <2>2. k \in Nat
    BY <2>1 DEF Index
  <2>3. Ended(Append(evs, e)) = E \cup {k}
    BY <2>1, EndedNext
  <2> HIDE DEF k, E
  <2> DEFINE x == IF k > n THEN k ELSE n
             U == {0} \cup (E \cup {k})
  <2>4. x \in Nat /\ x >= k /\ x >= n /\ (x = k \/ x = n)
    BY <1>1, <2>2
  <2>5. U \in SUBSET Nat /\ x \in U
    BY <1>1, <2>2, <2>4
  <2>6. \A y \in U : x >= y
    <3> TAKE y \in U
    <3>1. CASE y = k
      BY <2>4, <3>1
    <3>2. CASE y \in T
      <4>1. n >= y /\ y \in Nat
        BY <1>1, <3>2
      <4> HIDE DEF x, T, U
      <4> QED BY ONLY <1>1, <2>4, <4>1
    <3> QED BY <3>1, <3>2
  <2> HIDE DEF x, U
  <2>7. Max(U) = x
    BY <2>5, <2>6, MaxIs
  <2> QED BY <2>1, <2>3, <2>7 DEF x, U
<1>3. CASE text_delta(e) \/ input_json_delta(e) \/ event_ignored(e)
  <2>1. n' = n /\ ~(e.kind = "start" /\ e.index \in Index)
    BY <1>3 DEF text_delta, input_json_delta, event_ignored, accumulated
  <2>2. Ended(Append(evs, e)) = E
    BY <2>1, EndedNext
  <2> QED BY <2>1, <2>2
<1> QED BY <1>2, <1>3 DEF handle_event

-----------------------------------------------------------------------------
Replays(b, m, evs) ==
  /\ b = [i \in Index |-> ReferenceBlock(evs, i)]
  /\ m = Max({0} \cup Ended(evs))

LEMMA ReplayIs == BlocksReplay <=> Replays(blocks, n, EventsUpTo(pos))
BY DEF BlocksReplay, Replays, Ended

LEMMA ReplayInit == Init => Replays(blocks, n, EventsUpTo(pos))
<1> SUFFICES ASSUME Init PROVE Replays(blocks, n, <<>>)
  BY EventsUpToZero DEF Init
<1>1. \A i \in Index : ReferenceBlock(<<>>, i) = EmptyBlock
  <2> TAKE i \in Index
  <2>1. <<>> \in Seq(Event) /\ StartsOf(<<>>, i) = {}
    BY DEF StartsOf
  <2>2. ASSUME NEW kind PROVE DeltasOf(<<>>, i, kind) = <<>>
    <3> DEFINE after == SubSeq(<<>>, Max({0} \cup StartsOf(<<>>, i)) + 1, Len(<<>>))
    <3>1. LastStart(<<>>, i) = 0
      BY <2>1, LastStartIs
    <3>2. after = <<>>
      BY <3>1 DEF LastStart
    <3>3. DeltasOf(<<>>, i, kind) = FlattenSeq([k \in 1..Len(after) |-> DeltaOf(after[k], i, kind)])
      BY DEF DeltasOf, DeltaOf
    <3> HIDE DEF after
    <3>4. [k \in 1..Len(after) |-> DeltaOf(after[k], i, kind)] = <<>>
      BY <3>2
    <3> QED BY <3>3, <3>4, FlattenEmpty
  <2>3. Capped(<<>>, <<>>) = <<>>
    <3>1. <<>> \in Seq(Char) /\ Len(<<>>) <= MaxBlockSize
      BY SseAssumption
    <3> QED BY <3>1, CapNone
  <2> QED BY <2>1, <2>2, <2>3 DEF ReferenceBlock, EmptyBlock
<1>2. Ended(<<>>) = {}
  BY DEF Ended
<1>3. Max({0}) = 0
  <2>1. {0} \in SUBSET Nat /\ 0 \in {0} /\ \A y \in {0} : 0 >= y
    OBVIOUS
  <2> QED BY <2>1, MaxIs
<1> QED BY <1>1, <1>2, <1>3 DEF Init, Replays

LEMMA ReplayHandle ==
  ASSUME BlocksOK, NEW e \in Event, NEW evs \in Seq(Event), handle_event(e), Replays(blocks, n, evs)
  PROVE  Replays(blocks', n', Append(evs, e))
<1>1. blocks' = [i \in Index |-> NextBlock(blocks[i], e, i)]
  BY HandleNext
<1>2. \A i \in Index : blocks[i] = ReferenceBlock(evs, i)
  BY DEF Replays
<1>3. \A i \in Index : NextBlock(blocks[i], e, i) = ReferenceBlock(Append(evs, e), i)
  BY <1>2, BlockNext
<1>4. blocks' = [i \in Index |-> ReferenceBlock(Append(evs, e), i)]
  BY <1>1, <1>3
<1>5. n' = Max({0} \cup Ended(Append(evs, e)))
  BY NextCount DEF Replays
<1> QED BY <1>4, <1>5 DEF Replays

LEMMA SameEvents ==
  ASSUME UNCHANGED payload
  PROVE  EventsUpTo(pos)' = EventsUpTo(pos')
BY DEF EventsUpTo, EventOfLine, EventsOfLine, LineAt, LineStart

ReplayInv == ScanOK /\ BlocksOK /\ LineInv /\ Replays(blocks, n, EventsUpTo(pos))

LEMMA ReplayScan ==
  ASSUME ReplayInv, Scan
  PROVE  Replays(blocks, n, EventsUpTo(pos))'
<1> USE DEF ReplayInv
<1> DEFINE evs == EventsUpTo(pos)
           new == EventOfLine(pos + 1)
<1>1. pos < upto /\ pos' = pos + 1 /\ payload' = payload
  BY LineScan
<1>2. pos \in Nat
  BY <1>1, AtNextByte
<1>3. evs \in Seq(Event) /\ EventsUpTo(pos + 1) = evs \o new
  BY <1>2, EventsUpToNext
<1>4. (EventsUpTo(pos))' = evs \o new
  <2>1. (EventsUpTo(pos))' = EventsUpTo(pos')
    BY <1>1, SameEvents
  <2> QED BY <1>1, <1>3, <2>1
<1>5. Replays(blocks', n', evs \o new)
  <2>1. CASE new = <<>> /\ UNCHANGED accumulated
    <3>1. evs \o new = evs
      <4> HIDE DEF evs
      <4> QED BY <1>3, <2>1
    <3>2. blocks' = blocks /\ n' = n
      BY <2>1 DEF accumulated
    <3>3. Replays(blocks, n, evs)
      OBVIOUS
    <3> HIDE DEF evs, new
    <3> QED BY <3>1, <3>2, <3>3
  <2>2. ASSUME NEW e \in 1..Len(Events), new = <<Events[e]>>, handle_event(Events[e])
        PROVE  Replays(blocks', n', evs \o new)
    <3>1. Events[e] \in Event
      BY EventType
    <3>2. evs \o new = Append(evs, Events[e])
      <4> HIDE DEF evs
      <4> QED BY <1>3, <2>2, <3>1
    <3>3. Replays(blocks', n', Append(evs, Events[e]))
      BY <1>3, <2>2, <3>1, ReplayHandle
    <3> QED BY <3>2, <3>3
  <2> QED BY <2>1, <2>2, EventsOfNext
<1> QED BY <1>4, <1>5 DEF Replays

LEMMA ReplayOther ==
  ASSUME ReplayInv, [Next]_vars, ~Scan
  PROVE  LineInv' /\ Replays(blocks, n, EventsUpTo(pos))'
<1>1. payload' = payload /\ pos' = pos /\ blocks' = blocks /\ n' = n
  BY DEF Next, vars, accumulated, lineState, Done, Chunk, ChunkDone, TransportEnds, Abort, StoreAnswer,
         DiscardAnswer, Sigint
<1>2. line' = line /\ line_dropped' = line_dropped
  BY Zenon DEF Next, vars, lineState, Done, Chunk, ChunkDone, TransportEnds, Abort, StoreAnswer,
         DiscardAnswer, Sigint
<1>3. LineInv'
  <2>1. LineAt(pos + 1)' = LineAt(pos + 1)
    BY <1>1 DEF LineAt, LineStart
  <2>2. LineInv
    BY DEF ReplayInv
  <2> QED BY <1>2, <2>1, <2>2 DEF LineInv
<1>4. EventsUpTo(pos)' = EventsUpTo(pos)
  BY <1>1, SameEvents
<1>5. Replays(blocks, n, EventsUpTo(pos))
  BY DEF ReplayInv
<1> QED BY <1>1, <1>3, <1>4, <1>5

LEMMA ReplayStep == ReplayInv /\ [Next]_vars => ReplayInv'
<1> SUFFICES ASSUME ReplayInv, [Next]_vars PROVE ReplayInv'
  OBVIOUS
<1>1. ScanOK' /\ BlocksOK'
  BY TypeStep DEF ReplayInv
<1>2. CASE Scan
  <2>1. LineInv'
    BY <1>2, LineScan DEF ReplayInv
  <2>2. Replays(blocks, n, EventsUpTo(pos))'
    BY <1>2, ReplayScan
  <2> QED BY <1>1, <2>1, <2>2 DEF ReplayInv
<1>3. CASE ~Scan
  <2>1. LineInv' /\ Replays(blocks, n, EventsUpTo(pos))'
    BY <1>3, ReplayOther
  <2> QED BY <1>1, <2>1 DEF ReplayInv
<1> QED BY <1>2, <1>3

LEMMA ReplayInvariant == Spec => []ReplayInv
<1>1. Init => ReplayInv
  <2>1. Init => ScanOK /\ BlocksOK
    BY TypeInit, TypeParts
  <2> QED BY <2>1, LineInit, ReplayInit DEF ReplayInv
<1> QED BY <1>1, ReplayStep, PTL DEF Spec

(* However the body is cut into chunks and wherever it ends, the blocks    *)
(* are those of the events of its complete lines: st->line and             *)
(* line_dropped carry exactly what the next on_chunk needs (main.c:396-    *)
(* 413), and handle_event loses nothing but what the caps take.            *)
THEOREM StreamReplays == Spec => []BlocksReplay
<1>1. ReplayInv => BlocksReplay
  BY ReplayIs DEF ReplayInv
<1> QED BY <1>1, ReplayInvariant, PTL

-----------------------------------------------------------------------------
(* What is accumulated when the body breaks off, against the whole body.   *)
Extends(evs, more, i) ==
  /\ more \in Seq(Event) /\ Len(evs) <= Len(more)
  /\ \A k \in 1..Len(evs) : more[k] = evs[k]
  /\ LastStart(more, i) = LastStart(evs, i) =>
       \E t \in Seq(Char) : DeltasOf(more, i, "input") = DeltasOf(evs, i, "input") \o t

LEMMA ExtendsNext ==
  ASSUME NEW evs \in Seq(Event), NEW more, NEW e \in Event, NEW i \in Index, Extends(evs, more, i)
  PROVE  Extends(evs, Append(more, e), i)
<1> DEFINE a == Append(more, e)
           N == Len(more)
           M == Len(evs)
<1>1. more \in Seq(Event) /\ M <= N /\ N \in Nat /\ M \in Nat /\ \A k \in 1..M : more[k] = evs[k]
  BY DEF Extends
<1>2. a \in Seq(Event) /\ Len(a) = N + 1 /\ \A k \in 1..N : a[k] = more[k]
  BY <1>1
<1>3. LastStart(evs, i) \in 0..M
  BY LastStartIs
<1>4. LastStart(a, i) = IF IsStart(e, i) THEN N + 1 ELSE LastStart(more, i)
  BY <1>1, LastStartNext
<1>5. DeltasOf(a, i, "input") = IF IsStart(e, i) THEN <<>> ELSE DeltasOf(more, i, "input") \o DeltaOf(e, i, "input")
  BY <1>1, DeltasNext
<1> HIDE DEF a
<1>6. M <= Len(a) /\ \A k \in 1..M : a[k] = evs[k]
  <2>1. \A k \in 1..M : k \in 1..N
    BY <1>1
  <2>2. M <= N + 1
    BY <1>1
  <2> QED BY <1>1, <1>2, <2>1, <2>2
<1>7. ASSUME LastStart(a, i) = LastStart(evs, i)
      PROVE  \E t \in Seq(Char) : DeltasOf(a, i, "input") = DeltasOf(evs, i, "input") \o t
  <2>1. ~IsStart(e, i)
    <3> SUFFICES ASSUME IsStart(e, i) PROVE FALSE
      OBVIOUS
    <3> DEFINE x == LastStart(evs, i)
    <3>1. x = N + 1 /\ x \in 0..M
      BY <1>3, <1>4, <1>7
    <3> HIDE DEF x
    <3> QED BY ONLY <1>1, <3>1
  <2>2. PICK t \in Seq(Char) : DeltasOf(more, i, "input") = DeltasOf(evs, i, "input") \o t
    BY <1>4, <1>7, <2>1 DEF Extends
  <2> DEFINE d == DeltaOf(e, i, "input")
             D == DeltasOf(evs, i, "input")
  <2>3. d \in Seq(Char) /\ D \in Seq(Char)
    BY DeltaType, DeltasNext
  <2>4. DeltasOf(a, i, "input") = (D \o t) \o d
    BY <1>5, <2>1, <2>2
  <2> HIDE DEF d, D
  <2>5. (D \o t) \o d = D \o (t \o d) /\ t \o d \in Seq(Char)
    BY <2>3
  <2> QED BY <2>4, <2>5 DEF D
<1> QED BY <1>2, <1>6, <1>7 DEF Extends, a

LEMMA LinesExtend ==
  ASSUME NEW q \in Nat, NEW last \in Nat, q <= last, NEW i \in Index
  PROVE  Extends(EventsUpTo(q), EventsUpTo(last), i)
<1> DEFINE evs == EventsUpTo(q)
           G == {d \in Nat : Extends(evs, EventsUpTo(q + d), i)}
<1>1. evs \in Seq(Event)
  BY EventsUpToNext
<1>2. 0 \in G
  <2>1. Extends(evs, evs, i)
    <3> DEFINE D == DeltasOf(evs, i, "input")
    <3>1. D \in Seq(Char)
      BY <1>1, DeltasType
    <3>2. D = D \o <<>> /\ <<>> \in Seq(Char)
      <4> HIDE DEF D
      <4> QED BY <3>1
    <3>3. \E t \in Seq(Char) : D = D \o t
      <4> HIDE DEF D
      <4> QED BY <3>2
    <3> HIDE DEF evs
    <3> QED BY <1>1, <3>3 DEF Extends
  <2>2. q + 0 = q
    OBVIOUS
  <2> QED BY <2>1, <2>2
<1>3. ASSUME NEW d \in G PROVE d + 1 \in G
  <2> DEFINE more == EventsUpTo(q + d)
             new == EventOfLine(q + d + 1)
  <2>1. q + d \in Nat /\ (q + d) + 1 = q + (d + 1) /\ d + 1 \in Nat
    OBVIOUS
  <2>2. more \in Seq(Event) /\ EventsUpTo(q + (d + 1)) = more \o new
    BY <2>1, EventsUpToNext
  <2>3. Extends(evs, more, i)
    OBVIOUS
  <2>4. new = <<>> \/ \E e \in Event : new = <<e>>
    <3>1. CASE EventsOfLine(q + d + 1) = {}
      BY <3>1 DEF EventOfLine
    <3>2. CASE EventsOfLine(q + d + 1) # {}
      <4> DEFINE e == CHOOSE e \in EventsOfLine(q + d + 1) : TRUE
      <4>1. e \in 1..Len(Events)
        BY <3>2 DEF EventsOfLine
      <4>2. Events[e] \in Event /\ new = <<Events[e]>>
        BY <3>2, <4>1, EventType DEF EventOfLine
      <4> QED BY <4>2
    <3> QED BY <3>1, <3>2
  <2> HIDE DEF evs, more, new
  <2>5. CASE new = <<>>
    <3>1. more \o new = more
      BY <2>2, <2>5
    <3> QED BY <2>1, <2>2, <2>3, <3>1
  <2>6. ASSUME NEW e \in Event, new = <<e>> PROVE d + 1 \in G
    <3>1. more \o new = Append(more, e)
      BY <2>2, <2>6
    <3>2. Extends(evs, Append(more, e), i)
      BY <1>1, <2>3, ExtendsNext
    <3> QED BY <2>1, <2>2, <3>1, <3>2
  <2> QED BY <2>4, <2>5, <2>6
<1>4. G = Nat
  <2>1. G \in SUBSET Nat
    OBVIOUS
  <2> HIDE DEF G
  <2> QED BY <1>2, <1>3, <2>1, SetInduction
<1>5. last - q \in G /\ q + (last - q) = last
  <2>1. last - q \in Nat /\ q + (last - q) = last
    OBVIOUS
  <2> HIDE DEF G
  <2> QED BY <1>4, <2>1
<1> QED BY <1>5

(* An input that is closed says what the uncapped input of the whole body  *)
(* says.                                                                   *)
LEMMA InputClosed ==
  ASSUME NEW s \in Seq(Char), NEW i \in 3..Len(s), ClosedAt(s, i)
  PROVE  InputOf(s) = SubSeq(s, 1, i)
<1> DEFINE closing == {j \in 2..Len(s) : ClosedAt(s, j)}
<1>1. i \in closing
  OBVIOUS
<1>2. \A j \in closing : j = i
  <2> TAKE j \in closing
  <2>1. j \in 2..Len(s) /\ s[j] = "}" /\ \A k \in 1..(j - 1) : s[k] # "}"
    BY DEF ClosedAt
  <2>2. i \in 3..Len(s) /\ s[i] = "}" /\ \A k \in 1..(i - 1) : s[k] # "}"
    BY DEF ClosedAt
  <2>3. i \in Nat /\ j \in Nat /\ 1 <= i /\ 1 <= j
    <3>1. Len(s) \in Nat
      BY ONLY s \in Seq(Char)
    <3>2. j \in 2..Len(s)
      OBVIOUS
    <3> HIDE DEF closing
    <3> QED BY ONLY <3>1, <3>2, i \in 3..Len(s)
  <2>4. i < j => i \in 1..(j - 1)
    BY ONLY <2>3
  <2>5. j < i => j \in 1..(i - 1)
    BY ONLY <2>3
  <2>6. ~(i < j) /\ ~(j < i)
    BY <2>1, <2>2, <2>4, <2>5
  <2> QED BY ONLY <2>3, <2>6
<1>3. (CHOOSE j \in closing : TRUE) = i
  BY <1>1, <1>2
<1> QED BY <1>1, <1>3 DEF InputOf

LEMMA ClosedIsWhole ==
  ASSUME NEW D \in Seq(Char), NEW t \in Seq(Char),
         NEW i \in 3..Len(Capped(<<>>, D)), ClosedAt(Capped(<<>>, D), i)
  PROVE  InputOf(Capped(<<>>, D)) = InputOf(D \o t)
<1> DEFINE s == Capped(<<>>, D)
           w == D \o t
           m == Len(s)
<1>1. s \in Seq(Char) /\ m \in Nat /\ m <= Len(D) /\ \A j \in 1..m : s[j] = D[j]
  <2>1. MaxBlockSize \in Nat /\ Len(D) \in Nat
    BY SseAssumption
  <2>2. /\ s \in Seq(Char) /\ m = IF Len(D) < MaxBlockSize THEN Len(D) ELSE MaxBlockSize
        /\ \A j \in 1..m : s[j] = D[j]
    BY CappedFrom
  <2> HIDE DEF s
  <2> QED BY <2>1, <2>2
<1>2. w \in Seq(Char) /\ Len(D) <= Len(w) /\ Len(w) \in Nat /\ \A j \in 1..Len(D) : w[j] = D[j]
  OBVIOUS
<1>3. i \in 3..m /\ ClosedAt(s, i)
  OBVIOUS
<1> HIDE DEF s, w, m
<1>4. \A j \in 1..m : w[j] = s[j]
  <2> TAKE j \in 1..m
  <2>1. j \in 1..Len(D)
    BY <1>1
  <2> QED BY <1>1, <1>2, <2>1
<1>5. i \in 3..Len(w) /\ ClosedAt(w, i)
  <2>1. i \in 3..Len(w) /\ i \in 1..m /\ 1 \in 1..m /\ \A j \in 1..(i - 1) : j \in 1..m
    BY <1>1, <1>2, <1>3
  <2> QED BY <1>3, <1>4, <2>1 DEF ClosedAt
<1>6. InputOf(s) = SubSeq(s, 1, i) /\ InputOf(w) = SubSeq(w, 1, i)
  BY <1>1, <1>2, <1>3, <1>5, InputClosed DEF m
<1>7. SubSeq(s, 1, i) = SubSeq(w, 1, i)
  <2> DEFINE x == SubSeq(s, 1, i)
             y == SubSeq(w, 1, i)
  <2>1. x \in Seq(Char) /\ Len(x) = i /\ \A j \in 1..i : x[j] = s[j]
    BY <1>1, <1>3 DEF m
  <2>2. y \in Seq(Char) /\ Len(y) = i /\ \A j \in 1..i : y[j] = w[j]
    BY <1>2, <1>5
  <2>3. \A j \in 1..i : j \in 1..m
    BY <1>1, <1>3
  <2> HIDE DEF x, y
  <2>4. \A j \in 1..Len(x) : x[j] = y[j]
    BY <1>4, <2>1, <2>2, <2>3
  <2>5. x = y
    BY <2>1, <2>2, <2>4, SameSeq
  <2> QED BY <2>5 DEF x, y
<1> QED BY <1>6, <1>7 DEF s, w

LEMMA OneStart ==
  ASSUME NEW evs \in Seq(Event), NEW more, NEW i \in Index, Extends(evs, more, i),
         StartsOf(evs, i) # {}, Cardinality(StartsOf(more, i)) < 2
  PROVE  LastStart(more, i) = LastStart(evs, i) /\ StartsOf(more, i) # {}
<1> DEFINE S == StartsOf(more, i)
           N == Len(more)
           x == LastStart(evs, i)
           y == LastStart(more, i)
<1>1. more \in Seq(Event) /\ N \in Nat /\ Len(evs) \in Nat /\ Len(evs) <= N
      /\ \A k \in 1..Len(evs) : more[k] = evs[k]
  BY DEF Extends
<1>2. x \in StartsOf(evs, i)
  BY LastStartIs
<1>3. x \in S
  <2>1. x \in 1..Len(evs) /\ evs[x].kind = "start" /\ evs[x].index = i
    BY <1>2 DEF StartsOf
  <2> HIDE DEF x
  <2>2. x \in 1..N /\ more[x] = evs[x]
    BY <1>1, <2>1
  <2> QED BY <2>1, <2>2 DEF StartsOf
<1>4. y \in S
  BY <1>1, <1>3, LastStartIs
<1>5. IsFiniteSet(S) /\ Cardinality(S) < 2
  <2>1. S \in SUBSET (1..N)
    BY DEF StartsOf
  <2>2. IsFiniteSet(1..N)
    BY <1>1, FS_Interval
  <2> QED BY <2>1, <2>2, FS_Subset
<1> HIDE DEF S, x, y
<1>6. ASSUME x # y PROVE FALSE
  <2>1. {x, y} \subseteq S
    BY <1>3, <1>4
  <2>2. IsFiniteSet({x}) /\ Cardinality({x}) = 1
    BY FS_Singleton
  <2>3. IsFiniteSet({x} \cup {y}) /\ Cardinality({x} \cup {y}) = Cardinality({x}) + 1
    BY <1>6, <2>2, FS_AddElement
  <2>4. {x, y} = {x} \cup {y}
    OBVIOUS
  <2>5. Cardinality({x, y}) = 2
    <3>1. Cardinality({x} \cup {y}) = 1 + 1
      BY <2>2, <2>3
    <3>2. Cardinality({x, y}) = 1 + 1
      BY ONLY <3>1, <2>4
    <3> QED BY <3>2
  <2>6. Cardinality({x, y}) <= Cardinality(S) /\ Cardinality(S) \in Nat
    BY <1>5, <2>1, FS_Subset, FS_CardinalityType
  <2> QED BY <1>5, <2>5, <2>6
<1> QED BY <1>3, <1>6 DEF S, x, y

-----------------------------------------------------------------------------
(* Every block of a stored answer is one of st->blocks.                    *)
StartedBlocks == {blocks[i] : i \in {j \in Index : blocks[j].type # ""}}

LEMMA StartedIs ==
  ASSUME BlocksOK
  PROVE  Started \in Seq(StartedBlocks)
<1> DEFINE f == [i \in 1..n |-> IF blocks[i - 1].type # "" THEN <<blocks[i - 1]>> ELSE <<>>]
<1>1. n \in Nat /\ n <= MaxBlocks /\ MaxBlocks \in Nat
  <2>1. MaxBlocks \in Nat /\ n \in 0..MaxBlocks
    BY SseAssumption DEF BlocksOK
  <2> QED BY ONLY <2>1
<1>2. \A i \in 1..n : f[i] \in Seq(StartedBlocks)
  <2> TAKE i \in 1..n
  <2>1. i - 1 \in Index
    BY <1>1 DEF Index
  <2>2. CASE blocks[i - 1].type # ""
    <3> DEFINE b == blocks[i - 1]
    <3>1. b \in StartedBlocks
      BY <2>1, <2>2 DEF StartedBlocks
    <3>2. f[i] = <<b>>
      BY <2>2
    <3> HIDE DEF b, f
    <3>3. <<b>> \in Seq(StartedBlocks)
      BY <3>1
    <3> QED BY <3>2, <3>3
  <2>3. CASE blocks[i - 1].type = ""
    <3>1. f[i] = <<>>
      BY <2>3
    <3>2. <<>> \in Seq(StartedBlocks)
      OBVIOUS
    <3> HIDE DEF f
    <3> QED BY <3>1, <3>2
  <2> QED BY <2>2, <2>3
<1>3. f \in Seq(Seq(StartedBlocks))
  <2>1. f = [i \in 1..n |-> f[i]]
    OBVIOUS
  <2> HIDE DEF f
  <2> QED BY <1>1, <1>2, <2>1
<1>4. Started = FlattenSeq(f)
  BY DEF Started
<1> HIDE DEF f
<1> QED BY <1>3, <1>4, FlattenType

WholeIn(b, evs) ==
  \E i \in Index : /\ StartsOf(evs, i) # {}
                   /\ b.id = evs[Max(StartsOf(evs, i))].id
                   /\ b.data = InputOf(DeltasOf(evs, i, "input"))

Wholes(c, evs) ==
  (\A i \in Index : Cardinality(StartsOf(evs, i)) < 2) =>
     \A k \in 1..Len(c) : c[k].type = "tool_use" => WholeIn(c[k], evs)

LEMMA BlockIsWhole ==
  ASSUME NEW evs \in Seq(Event), NEW more, NEW i \in Index, Extends(evs, more, i),
         Cardinality(StartsOf(more, i)) < 2,
         NEW b, b = ReferenceBlock(evs, i), b.type = "tool_use", Usable(b)
  PROVE  WholeIn(ContentBlock(b), more)
<1> DEFINE S == StartsOf(evs, i)
           D == DeltasOf(evs, i, "input")
           last == LastStart(evs, i)
<1>1. /\ b.type = (IF S = {} THEN "" ELSE evs[Max(S)].type)
      /\ b.id = (IF S = {} THEN "" ELSE evs[Max(S)].id)
      /\ b.partial = Capped(<<>>, D)
  BY DEF ReferenceBlock
<1>2. S # {}
  BY <1>1
<1>3. last = Max(S) /\ last \in S
  BY <1>2, LastStartIs
<1>4. last \in 1..Len(evs)
  BY <1>3 DEF StartsOf
<1>5. LastStart(more, i) = last /\ StartsOf(more, i) # {}
  BY <1>2, OneStart
<1>6. more \in Seq(Event) /\ more[last] = evs[last]
  <2> HIDE DEF last
  <2> QED BY <1>4 DEF Extends
<1>7. Max(StartsOf(more, i)) = last
  BY <1>5, <1>6, LastStartIs
<1>8. PICK t \in Seq(Char) : DeltasOf(more, i, "input") = D \o t
  BY <1>5 DEF Extends
<1>9. D \in Seq(Char)
  BY DeltasType
<1>10. PICK k \in 3..Len(b.partial) : ClosedAt(b.partial, k)
  BY DEF Usable
<1>11. InputOf(b.partial) = InputOf(DeltasOf(more, i, "input"))
  <2> HIDE DEF D
  <2>1. k \in 3..Len(Capped(<<>>, D)) /\ ClosedAt(Capped(<<>>, D), k)
    BY <1>1, <1>10
  <2>2. InputOf(Capped(<<>>, D)) = InputOf(D \o t)
    BY <1>9, <2>1, ClosedIsWhole
  <2> QED BY <1>1, <1>8, <2>2
<1>12. ContentBlock(b).id = b.id /\ ContentBlock(b).data = InputOf(b.partial)
  BY DEF ContentBlock
<1>13. b.id = more[Max(StartsOf(more, i))].id
  <2> HIDE DEF S, last
  <2> QED BY <1>1, <1>2, <1>3, <1>6, <1>7
<1> QED BY <1>5, <1>11, <1>12, <1>13 DEF WholeIn

LEMMA StoredIsWhole ==
  ASSUME ReplayInv, StoreAnswer
  PROVE  Wholes(content', EventsUpTo(Len(payload)))
<1> DEFINE evs == EventsUpTo(pos)
           more == EventsUpTo(Len(payload))
<1>1. /\ \A k \in 1..Len(Started) : Usable(Started[k])
      /\ content' = [k \in 1..Len(Started) |-> ContentBlock(Started[k])]
  BY DEF StoreAnswer
<1>2. Started \in Seq(StartedBlocks)
  BY StartedIs DEF ReplayInv
<1>3. Len(content') = Len(Started)
  <2>1. Len(Started) \in Nat
    BY <1>2
  <2> QED BY <1>1, <2>1
<1>4. pos \in Nat /\ Len(payload) \in Nat /\ pos <= Len(payload)
  <2>1. Len(payload) \in Nat
    BY SseAssumption DEF ReplayInv, ScanOK
  <2> QED BY <2>1 DEF ReplayInv, ScanOK
<1>5. evs \in Seq(Event) /\ \A i \in Index : Extends(evs, more, i)
  BY <1>4, EventsUpToNext, LinesExtend
<1>6. \A i \in Index : blocks[i] = ReferenceBlock(evs, i)
  BY DEF ReplayInv, Replays
<1> HIDE DEF evs, more
<1> SUFFICES ASSUME \A i \in Index : Cardinality(StartsOf(more, i)) < 2,
                    NEW k \in 1..Len(content'), content'[k].type = "tool_use"
             PROVE  WholeIn(content'[k], more)
  BY DEF Wholes, more
<1> DEFINE b == Started[k]
<1>7. content'[k] = ContentBlock(b) /\ Usable(b) /\ b \in StartedBlocks
  BY <1>1, <1>2, <1>3
<1>8. b.type = "tool_use"
  BY <1>7 DEF ContentBlock
<1>9. PICK i \in Index : b = blocks[i]
  BY <1>7 DEF StartedBlocks
<1>10. b = ReferenceBlock(evs, i)
  BY <1>6, <1>9
<1> HIDE DEF b
<1> QED BY <1>5, <1>7, <1>8, <1>10, BlockIsWhole

ToolsInv == ReplayInv /\ (content # NoTurn => Wholes(content, EventsUpTo(Len(payload))))

LEMMA ToolsStep == ToolsInv /\ [Next]_vars => ToolsInv'
<1> SUFFICES ASSUME ToolsInv, [Next]_vars PROVE ToolsInv'
  OBVIOUS
<1>1. ReplayInv /\ ReplayInv'
  BY ReplayStep DEF ToolsInv
<1>2. payload' = payload
  BY DEF Next, vars, Done, Chunk, ChunkDone, TransportEnds, Abort, StoreAnswer, DiscardAnswer, Sigint,
         Scan, DropLine, DataLine, OtherLine, SkipCarriageReturn, OverflowLine, CollectByte, EndOfLine
<1>3. EventsUpTo(Len(payload))' = EventsUpTo(Len(payload))
  BY <1>2 DEF EventsUpTo, EventOfLine, EventsOfLine, LineAt, LineStart
<1>4. CASE StoreAnswer
  <2>1. Wholes(content', EventsUpTo(Len(payload)))
    BY <1>1, <1>4, StoredIsWhole
  <2> QED BY <1>1, <1>3, <2>1 DEF ToolsInv
<1>5. CASE ~StoreAnswer
  <2>1. content' = content
    BY <1>5 DEF Next, vars, Done, Chunk, ChunkDone, TransportEnds, Abort, DiscardAnswer, Sigint,
         Scan, DropLine, DataLine, OtherLine, SkipCarriageReturn, OverflowLine, CollectByte, EndOfLine
  <2> QED BY <1>1, <1>3, <2>1 DEF ToolsInv
<1> QED BY <1>4, <1>5

(* A tool call that is stored has the input of the full answer, whatever   *)
(* the end of the body and the caps have cut off, or the turn is given up: *)
(* blocks_to_content takes an input only up to the brace that closes it    *)
(* (main.c:430-434).                                                       *)
THEOREM StoredToolsAreWhole == Spec => []ToolsAreWhole
<1>1. Init => ToolsInv
  <2>1. Init => ReplayInv
    <3>1. Init => ScanOK /\ BlocksOK
      BY TypeInit, TypeParts
    <3> QED BY <3>1, LineInit, ReplayInit DEF ReplayInv
  <2> QED BY <2>1 DEF ToolsInv, Init
<1>2. ToolsInv => ToolsAreWhole
  BY DEF ToolsInv, ToolsAreWhole, Wholes, WholeIn
<1> QED BY <1>1, <1>2, ToolsStep, PTL DEF Spec
=============================================================================
