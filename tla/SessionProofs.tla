--------------------------- MODULE SessionProofs ----------------------------
(***************************************************************************)
(* Theorems of Session, for every set of tool ids, every KeepLast and      *)
(* MaxToolIter, every set of responses, every session file of an earlier   *)
(* version and, unless a theorem says otherwise, all Faults.               *)
(***************************************************************************)
EXTENDS Session, TLAPS

(***************************************************************************)
(* What the operations on transcripts preserve.                            *)
(***************************************************************************)
(* Compaction changes no block's type and no block's id: every message     *)
(* asks for and answers the same tools as before (ClearBlock).             *)
LEMMA ClearMessageIds ==
  ASSUME NEW m \in Message
  PROVE  /\ ClearMessage(m) \in Message
         /\ Len(ClearMessage(m).content) = Len(m.content)
         /\ UseIds(ClearMessage(m)) = UseIds(m)
         /\ ResultIds(ClearMessage(m)) = ResultIds(m)
         /\ SameButCleared(m, ClearMessage(m))
<1> DEFINE c == [k \in 1..Len(m.content) |-> ClearBlock(m.content[k])]
<1>1. m.content \in Seq(Block) /\ m.role \in {"user", "assistant"}
  BY DEF Message
<1>2. \A k \in 1..Len(m.content) : m.content[k] \in Block
  BY <1>1
<1>3. \A b \in Block : /\ ClearBlock(b) \in Block
                       /\ ClearBlock(b).type = b.type
                       /\ ClearBlock(b).id = b.id
  BY DEF ClearBlock, Clearable, Block, Body
<1>4. c \in Seq(Block) /\ Len(c) = Len(m.content) /\ DOMAIN c = DOMAIN m.content
  BY <1>1, <1>2, <1>3
<1>5. ClearMessage(m) = [role |-> m.role, content |-> c]
  BY DEF ClearMessage
<1>6. \A k \in DOMAIN m.content : c[k].type = m.content[k].type /\ c[k].id = m.content[k].id
  BY <1>1, <1>2, <1>3
<1>7. \A type : IdsOf(ClearMessage(m), type) = IdsOf(m, type)
  <2> HIDE DEF c
  <2>1. ClearMessage(m).content = c
    BY <1>5
  <2>2. ASSUME NEW type, NEW id
        PROVE  (\E k \in DOMAIN c : c[k].type = type /\ c[k].id = id)
                 <=> \E k \in DOMAIN m.content : m.content[k].type = type /\ m.content[k].id = id
    BY <1>4, <1>6
  <2> QED  BY <2>1, <2>2 DEF IdsOf
<1>8. SameButCleared(m, ClearMessage(m))
  BY <1>1, <1>4, <1>5 DEF SameButCleared, ClearBlock
<1> QED  BY <1>1, <1>4, <1>5, <1>7, <1>8 DEF Message, UseIds, ResultIds

(* Compaction keeps the number of messages, the pairs of every message and *)
(* the last KeepLast messages (compact_clear_tool_results).                *)
LEMMA CompactKeeps ==
  ASSUME NEW ms \in Seq(Message)
  PROVE  LET cs == compact_clear_tool_results(ms)
         IN  /\ cs \in Seq(Message)
             /\ Len(cs) = Len(ms)
             /\ \A i \in 1..Len(ms) :
                  /\ UseIds(cs[i]) = UseIds(ms[i])
                  /\ ResultIds(cs[i]) = ResultIds(ms[i])
                  /\ SameButCleared(ms[i], cs[i])
                  /\ i + KeepLast > Len(ms) => cs[i] = ms[i]
<1> DEFINE cs == compact_clear_tool_results(ms)
<1>1. \A i \in 1..Len(ms) : ms[i] \in Message
  OBVIOUS
<1>2. \A i \in 1..Len(ms) : cs[i] \in Message
  BY <1>1, ClearMessageIds DEF compact_clear_tool_results
<1>3. cs \in Seq(Message) /\ Len(cs) = Len(ms)
  BY <1>2 DEF compact_clear_tool_results
<1>4. \A m \in Message : SameButCleared(m, m)
  BY DEF SameButCleared
<1>5. \A i \in 1..Len(ms) : i + KeepLast > Len(ms) => cs[i] = ms[i]
  BY MessagesAssumption DEF compact_clear_tool_results, keep_from
<1>6. \A i \in 1..Len(ms) : cs[i] = ms[i] \/ cs[i] = ClearMessage(ms[i])
  BY DEF compact_clear_tool_results
<1> QED  BY <1>1, <1>3, <1>4, <1>5, <1>6, ClearMessageIds

(* Compaction is pair-safe.                                                *)
LEMMA CompactPaired ==
  ASSUME NEW ms \in Seq(Message), NEW start \in Nat, PairedFrom(ms, start)
  PROVE  PairedFrom(compact_clear_tool_results(ms), start)
<1> DEFINE cs == compact_clear_tool_results(ms)
<1>1. /\ Len(cs) = Len(ms)
      /\ \A i \in 1..Len(ms) : UseIds(cs[i]) = UseIds(ms[i]) /\ ResultIds(cs[i]) = ResultIds(ms[i])
  BY CompactKeeps
<1> HIDE DEF cs
<1>2. ASSUME NEW i \in (start + 1)..Len(cs)
      PROVE  /\ UseIds(cs[i]) # {} => UsesAnswered(cs, i)
             /\ ResultIds(cs[i]) # {} => ResultsAsked(cs, i)
  <2>1. i \in (start + 1)..Len(ms) /\ i \in 1..Len(ms)
    BY <1>1
  <2>2. /\ UseIds(ms[i]) # {} => UsesAnswered(ms, i)
        /\ ResultIds(ms[i]) # {} => ResultsAsked(ms, i)
    BY <2>1 DEF PairedFrom
  <2> QED  BY <1>1, <2>1, <2>2 DEF UsesAnswered, ResultsAsked
<1> QED  BY <1>2 DEF PairedFrom, cs

(* A second compaction finds nothing: what the first one cleared is no     *)
(* longer "long" (the strlen and strcmp tests of the C function).          *)
LEMMA CompactOnce ==
  ASSUME NEW ms \in Seq(Message)
  PROVE  ~SomethingToClear(compact_clear_tool_results(ms))
<1> DEFINE cs == compact_clear_tool_results(ms)
<1>1. Len(cs) = Len(ms) /\ keep_from(cs) = keep_from(ms)
  BY CompactKeeps DEF keep_from
<1>2. keep_from(ms) \in Nat /\ keep_from(ms) <= Len(ms)
  BY MessagesAssumption DEF keep_from
<1>3. ASSUME NEW i \in 1..keep_from(ms)
      PROVE  \A k \in DOMAIN cs[i].content : ~Clearable(cs[i].content[k])
  <2>1. i \in 1..Len(ms) /\ cs[i] = ClearMessage(ms[i])
    BY <1>2 DEF compact_clear_tool_results
  <2>2. ms[i] \in Message
    BY <2>1
  <2>6. ms[i].content \in Seq(Block)
    BY <2>2 DEF Message
  <2>3. cs[i].content = [k \in 1..Len(ms[i].content) |-> ClearBlock(ms[i].content[k])]
    BY <2>1 DEF ClearMessage
  <2>4. \A b \in Block : ~Clearable(ClearBlock(b))
    BY DEF Clearable, ClearBlock, Block, Body
  <2>5. \A k \in 1..Len(ms[i].content) : ms[i].content[k] \in Block
    BY <2>6
  <2> QED  BY <2>3, <2>4, <2>5
<1> QED  BY <1>1, <1>3 DEF SomethingToClear

(* Pruning returns messages that were there (session_prune_empty_tool_use). *)
LEMMA DeleteType ==
  ASSUME NEW ms \in Seq(Message), NEW i \in 1..Len(ms)
  PROVE  Delete(ms, i) \in Seq(Message) /\ Len(Delete(ms, i)) = Len(ms) - 1
<1>1. Len(ms) - 1 \in Nat
  OBVIOUS
<1>2. \A j \in 1..(Len(ms) - 1) : ms[j] \in Message /\ ms[j + 1] \in Message
  OBVIOUS
<1> QED  BY <1>1, <1>2 DEF Delete

LEMMA PruneAtType ==
  ASSUME NEW ms \in Seq(Message), NEW i \in 1..Len(ms)
  PROVE  /\ PruneAt(ms, i) \in Seq(Message)
         /\ Len(PruneAt(ms, i)) >= i - 1
<1> DEFINE rest == Delete(ms, i)
<1>1. rest \in Seq(Message) /\ Len(rest) = Len(ms) - 1
  BY DeleteType
<1>2. CASE i <= Len(rest) /\ SingleToolResult(rest[i])
  <2>1. PruneAt(ms, i) = Delete(rest, i)
    BY <1>2 DEF PruneAt
  <2>2. i \in 1..Len(rest)
    BY <1>1, <1>2
  <2> HIDE DEF rest
  <2>3. Delete(rest, i) \in Seq(Message) /\ Len(Delete(rest, i)) = Len(rest) - 1
    BY <1>1, <2>2, DeleteType
  <2> QED  BY <1>1, <2>1, <2>2, <2>3
<1>3. CASE ~(i <= Len(rest) /\ SingleToolResult(rest[i]))
  <2>1. PruneAt(ms, i) = rest
    BY <1>3 DEF PruneAt
  <2> QED  BY <1>1, <2>1
<1> QED  BY <1>2, <1>3

(* What the program adds to a transcript.                                  *)
LEMMA NewMessages ==
  /\ make_user_msg \in Message /\ UseIds(make_user_msg) = {} /\ ResultIds(make_user_msg) = {}
  /\ \A b \in Seq(Block) : assistant_msg(b) \in Message /\ results_msg(b) \in Message
<1>1. Text \in Block /\ Text.type = "text"
  BY DEF Text, Block, BlockType, Body
<1>2. <<Text>> \in Seq(Block) /\ DOMAIN <<Text>> = {1}
  BY <1>1
<1>3. make_user_msg \in Message
  BY <1>2 DEF make_user_msg, Message
<1>4. UseIds(make_user_msg) = {} /\ ResultIds(make_user_msg) = {}
  BY <1>1, <1>2 DEF make_user_msg, UseIds, ResultIds, IdsOf
<1>5. \A b \in Seq(Block) : assistant_msg(b) \in Message /\ results_msg(b) \in Message
  BY DEF assistant_msg, results_msg, Message
<1> QED  BY <1>3, <1>4, <1>5

(* A message that asks and answers nothing leaves a transcript paired.     *)
LEMMA AppendPlain ==
  ASSUME NEW ms \in Seq(Message), NEW start \in Nat, NEW m \in Message,
         PairedFrom(ms, start), UseIds(m) = {}, ResultIds(m) = {}
  PROVE  PairedFrom(Append(ms, m), start)
<1> DEFINE ns == Append(ms, m)
<1>1. /\ Len(ns) = Len(ms) + 1 /\ ns[Len(ms) + 1] = m
      /\ \A i \in 1..Len(ms) : ns[i] = ms[i]
  OBVIOUS
<1> HIDE DEF ns
<1>2. ASSUME NEW i \in (start + 1)..Len(ns)
      PROVE  /\ UseIds(ns[i]) # {} => UsesAnswered(ns, i)
             /\ ResultIds(ns[i]) # {} => ResultsAsked(ns, i)
  <2>1. CASE i = Len(ms) + 1
    BY <1>1, <2>1
  <2>2. CASE i # Len(ms) + 1
    <3>1. i \in (start + 1)..Len(ms) /\ i \in 1..Len(ms)
      BY <1>1, <2>2
    <3>2. /\ UseIds(ms[i]) # {} => UsesAnswered(ms, i)
          /\ ResultIds(ms[i]) # {} => ResultsAsked(ms, i)
      BY <3>1 DEF PairedFrom
    <3> QED  BY <1>1, <3>1, <3>2 DEF UsesAnswered, ResultsAsked
  <2> QED  BY <2>1, <2>2
<1> QED  BY <1>2 DEF PairedFrom, ns

(* An exchange is paired: an assistant message u and the results r that    *)
(* answer exactly its tool_use blocks (chat_turn, one iteration).          *)
LEMMA AppendExchange ==
  ASSUME NEW ms \in Seq(Message), NEW start \in 0..Len(ms), NEW u \in Message, NEW r \in Message,
         PairedFrom(ms, start),
         ResultIds(u) = {}, UseIds(r) = {}, ResultIds(r) = UseIds(u)
  PROVE  PairedFrom(Append(Append(ms, u), r), start)
<1> DEFINE ns == Append(Append(ms, u), r)
           n == Len(ms)
<1>1. /\ n \in Nat /\ Len(ns) = n + 2 /\ ns[n + 1] = u /\ ns[n + 2] = r
      /\ \A i \in 1..n : ns[i] = ms[i]
  OBVIOUS
<1> HIDE DEF ns, n
<1>2. ASSUME NEW i \in (start + 1)..Len(ns)
      PROVE  /\ UseIds(ns[i]) # {} => UsesAnswered(ns, i)
             /\ ResultIds(ns[i]) # {} => ResultsAsked(ns, i)
  <2>1. CASE i = n + 1
    <3>1. ns[i] = u /\ ns[i + 1] = r /\ i < Len(ns)
      BY <1>1, <2>1
    <3> QED  BY <3>1 DEF UsesAnswered
  <2>2. CASE i = n + 2
    <3>1. ns[i] = r /\ ns[i - 1] = u /\ i > 1
      BY <1>1, <2>2
    <3> QED  BY <3>1 DEF ResultsAsked
  <2>3. CASE i # n + 1 /\ i # n + 2
    <3>1. i \in (start + 1)..n /\ i \in 1..n
      BY <1>1, <2>3
    <3>2. /\ UseIds(ms[i]) # {} => UsesAnswered(ms, i)
          /\ ResultIds(ms[i]) # {} => ResultsAsked(ms, i)
      BY <3>1 DEF PairedFrom, n
    <3> QED  BY <1>1, <3>1, <3>2 DEF UsesAnswered, ResultsAsked, n
  <2> QED  BY <2>1, <2>2, <2>3
<1> QED  BY <1>2 DEF PairedFrom, ns

-----------------------------------------------------------------------------
(***************************************************************************)
(* A transcript from which pruning makes a paired one: all is paired but   *)
(* for an empty tool use that has no result; one that has a result has     *)
(* nothing else beside it ("paired tool_result always directly follows",   *)
(* main.c:1098).                                                           *)
(***************************************************************************)
Healable(ms) ==
  \A i \in 1..Len(ms) :
    /\ UseIds(ms[i]) # {} =>
         \/ UsesAnswered(ms, i)
         \/ EmptyToolUse(ms[i]) /\ (i < Len(ms) => ResultIds(ms[i + 1]) = {})
    /\ ResultIds(ms[i]) # {} => ResultsAsked(ms, i)
    /\ EmptyToolUse(ms[i]) /\ i < Len(ms) /\ ResultIds(ms[i + 1]) # {} => SingleToolResult(ms[i + 1])

LEMMA HealedPaired ==
  ASSUME NEW ms \in Seq(Message), Healable(ms), \A i \in 1..Len(ms) : ~EmptyToolUse(ms[i])
  PROVE  PairedFrom(ms, 0)
<1>1. (0 + 1)..Len(ms) = 1..Len(ms)
  OBVIOUS
<1> QED  BY <1>1 DEF Healable, PairedFrom

(* A message that is one tool_use answers nothing, and one that is one     *)
(* tool_result asks for nothing.                                           *)
LEMMA SingleIds ==
  ASSUME NEW m \in Message
  PROVE  /\ EmptyToolUse(m) => ResultIds(m) = {}
         /\ SingleToolResult(m) => UseIds(m) = {}
<1>1. m.content \in Seq(Block)
  BY DEF Message
<1>2. Len(m.content) = 1 => DOMAIN m.content = {1}
  BY <1>1
<1> QED  BY <1>2 DEF EmptyToolUse, SingleToolResult, ResultIds, UseIds, IdsOf

(* What the pruning loop does at i: one message or two are gone.           *)
LEMMA PruneAtCases ==
  ASSUME NEW ms \in Seq(Message), NEW i \in 1..Len(ms)
  PROVE  LET ns == PruneAt(ms, i)
         IN  \/ /\ i < Len(ms) /\ SingleToolResult(ms[i + 1])
                /\ Len(ns) = Len(ms) - 2
                /\ \A j \in 1..Len(ns) : ns[j] = IF j < i THEN ms[j] ELSE ms[j + 2]
             \/ /\ ~(i < Len(ms) /\ SingleToolResult(ms[i + 1]))
                /\ Len(ns) = Len(ms) - 1
                /\ \A j \in 1..Len(ns) : ns[j] = IF j < i THEN ms[j] ELSE ms[j + 1]
<1> DEFINE rest == Delete(ms, i)
<1>1. /\ rest \in Seq(Message) /\ Len(rest) = Len(ms) - 1 /\ Len(ms) \in Nat
      /\ \A j \in 1..(Len(ms) - 1) : rest[j] = IF j < i THEN ms[j] ELSE ms[j + 1]
  BY DeleteType DEF Delete
<1> HIDE DEF rest
<1>2. i < Len(ms) => i \in 1..(Len(ms) - 1) /\ rest[i] = ms[i + 1]
  BY <1>1
<1>3. i <= Len(rest) <=> i < Len(ms)
  BY <1>1
<1>4. CASE i < Len(ms) /\ SingleToolResult(ms[i + 1])
  <2> DEFINE ns == Delete(rest, i)
  <2>1. PruneAt(ms, i) = ns
    BY <1>2, <1>3, <1>4 DEF PruneAt, rest
  <2>2. i \in 1..Len(rest)
    BY <1>1, <1>4
  <2>3. /\ Len(ns) = Len(rest) - 1
        /\ \A j \in 1..(Len(rest) - 1) : ns[j] = IF j < i THEN rest[j] ELSE rest[j + 1]
    BY <1>1, <2>2, DeleteType DEF Delete
  <2> HIDE DEF ns
  <2>4. ASSUME NEW j \in 1..Len(ns)
        PROVE  ns[j] = IF j < i THEN ms[j] ELSE ms[j + 2]
    <3>1. j \in 1..(Len(rest) - 1) /\ j \in 1..(Len(ms) - 1) /\ j + 1 \in 1..(Len(ms) - 1)
      BY <1>1, <2>3
    <3>2. ns[j] = IF j < i THEN rest[j] ELSE rest[j + 1]
      BY <2>3, <3>1
    <3>3. CASE j < i
      BY <1>1, <3>1, <3>2, <3>3
    <3>4. CASE ~(j < i)
      <4>1. ~(j + 1 < i) /\ (j + 1) + 1 = j + 2
        BY <3>4
      <4> QED  BY <1>1, <3>1, <3>2, <3>4, <4>1
    <3> QED  BY <3>3, <3>4
  <2>5. Len(ns) = Len(ms) - 2
    BY <1>1, <2>3
  <2> QED  BY <1>4, <2>1, <2>4, <2>5
<1>5. CASE ~(i < Len(ms) /\ SingleToolResult(ms[i + 1]))
  <2>1. PruneAt(ms, i) = rest
    BY <1>2, <1>3, <1>5 DEF PruneAt, rest
  <2> QED  BY <1>1, <1>5, <2>1
<1> QED  BY <1>4, <1>5

(* Pruning keeps a transcript healable: the messages that move together    *)
(* ask and answer nothing across the gap (session_prune_empty_tool_use).   *)
LEMMA PruneAtHealable ==
  ASSUME NEW ms \in Seq(Message), NEW i \in 1..Len(ms), Healable(ms), EmptyToolUse(ms[i])
  PROVE  Healable(PruneAt(ms, i))
<1> DEFINE ns == PruneAt(ms, i)
           n == Len(ms)
<1>1. n \in Nat /\ i \in 1..n /\ \A j \in 1..n : ms[j] \in Message
  OBVIOUS
<1>2. PICK gap \in {1, 2} :
        /\ i + gap - 1 <= n
        /\ Len(ns) = n - gap
        /\ \A j \in 1..Len(ns) : ns[j] = IF j < i THEN ms[j] ELSE ms[j + gap]
        /\ gap = 1 => ~(i < n /\ SingleToolResult(ms[i + 1]))
        /\ gap = 2 => i < n /\ SingleToolResult(ms[i + 1])
  BY PruneAtCases
<1> HIDE DEF ns
<1>3. \A j \in 1..n :
        /\ UseIds(ms[j]) # {} =>
             \/ UsesAnswered(ms, j)
             \/ EmptyToolUse(ms[j]) /\ (j < n => ResultIds(ms[j + 1]) = {})
        /\ ResultIds(ms[j]) # {} => ResultsAsked(ms, j)
        /\ EmptyToolUse(ms[j]) /\ j < n /\ ResultIds(ms[j + 1]) # {} => SingleToolResult(ms[j + 1])
  BY DEF Healable
<1> HIDE DEF n
<1>4. ResultIds(ms[i]) = {}
  BY <1>1, SingleIds
<1>5. ASSUME i + gap <= n PROVE ResultIds(ms[i + gap]) = {}
  <2>1. CASE gap = 1
    <3>1. i < n /\ i + gap = i + 1
      BY <1>1, <1>5, <2>1
    <3>2. ~SingleToolResult(ms[i + 1])
      BY <1>2, <2>1, <3>1
    <3> QED  BY <1>1, <1>3, <3>1, <3>2
  <2>2. CASE gap = 2
    <3>1. i + 1 \in 1..n /\ i + 2 \in 1..n /\ (i + 2) - 1 = i + 1
      BY <1>1, <1>5, <2>2
    <3>2. UseIds(ms[i + 1]) = {}
      BY <1>1, <1>2, <2>2, <3>1, SingleIds
    <3>3. ResultIds(ms[i + 2]) # {} => ResultsAsked(ms, i + 2)
      BY <1>3, <3>1
    <3> QED  BY <2>2, <3>1, <3>2, <3>3 DEF ResultsAsked
  <2> QED  BY <1>2, <2>1, <2>2
<1>6. ASSUME NEW j \in 1..Len(ns)
      PROVE  /\ UseIds(ns[j]) # {} =>
                  \/ UsesAnswered(ns, j)
                  \/ EmptyToolUse(ns[j]) /\ (j < Len(ns) => ResultIds(ns[j + 1]) = {})
             /\ ResultIds(ns[j]) # {} => ResultsAsked(ns, j)
             /\ EmptyToolUse(ns[j]) /\ j < Len(ns) /\ ResultIds(ns[j + 1]) # {}
                  => SingleToolResult(ns[j + 1])
  <2>0. gap \in Nat /\ j \in Nat /\ i \in Nat /\ 1 <= j /\ j <= n - gap /\ Len(ns) = n - gap /\ 1 <= i
    BY <1>1, <1>2
  <2>1. CASE j + 1 < i
    <3>1. /\ j \in 1..n /\ j < n /\ j + 1 \in 1..n /\ j < Len(ns) /\ j < i
          /\ j > 1 => j - 1 \in 1..Len(ns) /\ j - 1 < i
      BY <1>1, <1>2, <2>0, <2>1
    <3>2. ns[j] = ms[j] /\ ns[j + 1] = ms[j + 1] /\ (j > 1 => ns[j - 1] = ms[j - 1])
      BY <1>2, <2>0, <2>1, <3>1
    <3> QED  BY <1>3, <3>1, <3>2 DEF UsesAnswered, ResultsAsked, n
  <2>2. CASE j + 1 = i
    <3>1. /\ j \in 1..n /\ j < n /\ j < i
          /\ j > 1 => j - 1 \in 1..Len(ns) /\ j - 1 < i
          /\ j < Len(ns) => j + 1 \in 1..Len(ns) /\ ~(j + 1 < i) /\ i + gap <= n
      BY <1>1, <1>2, <2>0, <2>2
    <3>2. ns[j] = ms[j] /\ (j > 1 => ns[j - 1] = ms[j - 1])
      BY <1>2, <3>1
    <3>3. j < Len(ns) => ResultIds(ns[j + 1]) = {}
      BY <1>2, <1>5, <2>2, <3>1
    <3>4. UseIds(ms[j]) # {} => EmptyToolUse(ms[j])
      BY <1>3, <1>4, <2>2, <3>1 DEF UsesAnswered
    <3>5. ResultIds(ms[j]) # {} => ResultsAsked(ms, j)
      BY <1>3, <3>1
    <3> QED  BY <3>1, <3>2, <3>3, <3>4, <3>5 DEF ResultsAsked
  <2>3. CASE i <= j
    <3>1. /\ j + gap \in 1..n /\ ~(j < i)
          /\ j < Len(ns) <=> j + gap < n
          /\ j < Len(ns) => j + 1 \in 1..Len(ns) /\ ~(j + 1 < i) /\ (j + 1) + gap = (j + gap) + 1
          /\ j > i => j - 1 \in 1..Len(ns) /\ ~(j - 1 < i) /\ (j - 1) + gap = (j + gap) - 1 /\ j > 1
      BY ONLY <1>1, <2>0, <2>3
    <3>2. ns[j] = ms[j + gap] /\ (j < Len(ns) => ns[j + 1] = ms[(j + gap) + 1])
      BY <1>2, <3>1
    <3>3. j > i => ns[j - 1] = ms[(j + gap) - 1]
      BY <1>2, <3>1
    <3>4. j = i => ResultIds(ns[j]) = {}
      BY <1>5, <3>1, <3>2
    <3>5. j = i \/ j > i
      BY <1>1, <2>0, <2>3
    <3>6. /\ UseIds(ms[j + gap]) # {} =>
               \/ UsesAnswered(ms, j + gap)
               \/ EmptyToolUse(ms[j + gap]) /\ (j + gap < n => ResultIds(ms[(j + gap) + 1]) = {})
          /\ ResultIds(ms[j + gap]) # {} => ResultsAsked(ms, j + gap)
          /\ EmptyToolUse(ms[j + gap]) /\ j + gap < n /\ ResultIds(ms[(j + gap) + 1]) # {}
               => SingleToolResult(ms[(j + gap) + 1])
      BY <1>3, <3>1
    <3>7. UsesAnswered(ms, j + gap) => UsesAnswered(ns, j)
      BY <3>1, <3>2 DEF UsesAnswered, n
    <3>8. ResultsAsked(ms, j + gap) /\ j > i => ResultsAsked(ns, j)
      BY <3>1, <3>2, <3>3 DEF ResultsAsked
    <3> QED  BY <3>1, <3>2, <3>4, <3>5, <3>6, <3>7, <3>8
  <2> QED  BY <1>1, <2>0, <2>1, <2>2, <2>3
<1> QED  BY <1>6 DEF Healable, ns

(* So does compaction: it empties results, and no tool use.                *)
LEMMA CompactHealable ==
  ASSUME NEW ms \in Seq(Message), Healable(ms)
  PROVE  Healable(compact_clear_tool_results(ms))
<1> DEFINE cs == compact_clear_tool_results(ms)
<1>1. /\ Len(cs) = Len(ms) /\ cs \in Seq(Message)
      /\ \A i \in 1..Len(ms) : /\ UseIds(cs[i]) = UseIds(ms[i])
                               /\ ResultIds(cs[i]) = ResultIds(ms[i])
                               /\ SameButCleared(ms[i], cs[i])
  BY CompactKeeps
<1> HIDE DEF cs
<1>2. \A m, mm \in Message :
        SameButCleared(m, mm) => /\ EmptyToolUse(mm) <=> EmptyToolUse(m)
                                 /\ SingleToolResult(mm) <=> SingleToolResult(m)
  <2> SUFFICES ASSUME NEW m \in Message, NEW mm \in Message, SameButCleared(m, mm),
                      Len(m.content) = 1
               PROVE  /\ mm.content[1].type = m.content[1].type
                      /\ mm.content[1].type = "tool_use" => mm.content[1] = m.content[1]
    BY DEF SameButCleared, EmptyToolUse, SingleToolResult
  <2>1. m.content[1] \in Block
    BY DEF Message
  <2>2. mm.content[1] = m.content[1]
          \/ (Clearable(m.content[1]) /\ mm.content[1] = ClearBlock(m.content[1]))
    BY DEF SameButCleared
  <2> QED  BY <2>1, <2>2 DEF Clearable, ClearBlock, Block
<1>3. \A i \in 1..Len(ms) : /\ EmptyToolUse(cs[i]) <=> EmptyToolUse(ms[i])
                            /\ SingleToolResult(cs[i]) <=> SingleToolResult(ms[i])
  BY <1>1, <1>2
<1>4. ASSUME NEW i \in 1..Len(cs)
      PROVE  /\ UseIds(cs[i]) # {} =>
                  \/ UsesAnswered(cs, i)
                  \/ EmptyToolUse(cs[i]) /\ (i < Len(cs) => ResultIds(cs[i + 1]) = {})
             /\ ResultIds(cs[i]) # {} => ResultsAsked(cs, i)
             /\ EmptyToolUse(cs[i]) /\ i < Len(cs) /\ ResultIds(cs[i + 1]) # {}
                  => SingleToolResult(cs[i + 1])
  <2>1. /\ i \in 1..Len(ms) /\ (i < Len(ms) => i + 1 \in 1..Len(ms))
        /\ i > 1 => i - 1 \in 1..Len(ms)
    BY <1>1
  <2>2. /\ UseIds(ms[i]) # {} =>
             \/ UsesAnswered(ms, i)
             \/ EmptyToolUse(ms[i]) /\ (i < Len(ms) => ResultIds(ms[i + 1]) = {})
        /\ ResultIds(ms[i]) # {} => ResultsAsked(ms, i)
        /\ EmptyToolUse(ms[i]) /\ i < Len(ms) /\ ResultIds(ms[i + 1]) # {} => SingleToolResult(ms[i + 1])
    BY <2>1 DEF Healable
  <2> QED  BY <1>1, <1>3, <2>1, <2>2 DEF UsesAnswered, ResultsAsked
<1> QED  BY <1>4 DEF Healable, cs

(* A message that asks and answers nothing may follow any transcript.      *)
LEMMA HealablePlain ==
  ASSUME NEW ms \in Seq(Message), NEW m \in Message, Healable(ms), UseIds(m) = {}, ResultIds(m) = {},
         ~EmptyToolUse(m)
  PROVE  Healable(Append(ms, m))
<1> DEFINE ns == Append(ms, m)
           n == Len(ms)
<1>1. n \in Nat /\ Len(ns) = n + 1 /\ ns[n + 1] = m /\ \A i \in 1..n : ns[i] = ms[i]
  OBVIOUS
<1> HIDE DEF ns
<1>2. ASSUME NEW i \in 1..Len(ns)
      PROVE  /\ UseIds(ns[i]) # {} =>
                  \/ UsesAnswered(ns, i)
                  \/ EmptyToolUse(ns[i]) /\ (i < Len(ns) => ResultIds(ns[i + 1]) = {})
             /\ ResultIds(ns[i]) # {} => ResultsAsked(ns, i)
             /\ EmptyToolUse(ns[i]) /\ i < Len(ns) /\ ResultIds(ns[i + 1]) # {}
                  => SingleToolResult(ns[i + 1])
  <2>1. CASE i = n + 1
    BY <1>1, <2>1
  <2>2. CASE i # n + 1
    <3>1. /\ i \in 1..n /\ i < Len(ns) /\ ns[i] = ms[i] /\ (i > 1 => ns[i - 1] = ms[i - 1])
          /\ i < n => ns[i + 1] = ms[i + 1]
          /\ i = n => ns[i + 1] = m
      BY <1>1, <2>2
    <3>2. /\ UseIds(ms[i]) # {} =>
               \/ UsesAnswered(ms, i)
               \/ EmptyToolUse(ms[i]) /\ (i < n => ResultIds(ms[i + 1]) = {})
          /\ ResultIds(ms[i]) # {} => ResultsAsked(ms, i)
          /\ EmptyToolUse(ms[i]) /\ i < n /\ ResultIds(ms[i + 1]) # {} => SingleToolResult(ms[i + 1])
      BY <3>1 DEF Healable
    <3>3. i < n \/ i = n
      BY <1>1, <3>1
    <3> QED  BY <1>1, <3>1, <3>2, <3>3 DEF UsesAnswered, ResultsAsked
  <2> QED  BY <2>1, <2>2
<1> QED  BY <1>2 DEF Healable, ns

(* And so may an exchange.                                                 *)
LEMMA HealableExchange ==
  ASSUME NEW ms \in Seq(Message), NEW u \in Message, NEW r \in Message, Healable(ms),
         ResultIds(u) = {}, UseIds(r) = {}, ResultIds(r) = UseIds(u),
         ~EmptyToolUse(u), ~EmptyToolUse(r)
  PROVE  Healable(Append(Append(ms, u), r))
<1> DEFINE ns == Append(Append(ms, u), r)
           n == Len(ms)
<1>1. /\ n \in Nat /\ Len(ns) = n + 2 /\ ns[n + 1] = u /\ ns[n + 2] = r
      /\ \A i \in 1..n : ns[i] = ms[i]
  OBVIOUS
<1> HIDE DEF ns
<1>2. ASSUME NEW i \in 1..Len(ns)
      PROVE  /\ UseIds(ns[i]) # {} =>
                  \/ UsesAnswered(ns, i)
                  \/ EmptyToolUse(ns[i]) /\ (i < Len(ns) => ResultIds(ns[i + 1]) = {})
             /\ ResultIds(ns[i]) # {} => ResultsAsked(ns, i)
             /\ EmptyToolUse(ns[i]) /\ i < Len(ns) /\ ResultIds(ns[i + 1]) # {}
                  => SingleToolResult(ns[i + 1])
  <2>1. CASE i = n + 1
    <3>1. ns[i] = u /\ ns[i + 1] = r /\ i < Len(ns)
      BY <1>1, <2>1
    <3> QED  BY <3>1 DEF UsesAnswered
  <2>2. CASE i = n + 2
    <3>1. ns[i] = r /\ ns[i - 1] = u /\ i > 1
      BY <1>1, <2>2
    <3> QED  BY <3>1 DEF ResultsAsked
  <2>3. CASE i # n + 1 /\ i # n + 2
    <3>1. /\ i \in 1..n /\ i < Len(ns) /\ ns[i] = ms[i] /\ (i > 1 => ns[i - 1] = ms[i - 1])
          /\ i < n => ns[i + 1] = ms[i + 1]
          /\ i = n => ns[i + 1] = u
      BY <1>1, <2>3
    <3>2. /\ UseIds(ms[i]) # {} =>
               \/ UsesAnswered(ms, i)
               \/ EmptyToolUse(ms[i]) /\ (i < n => ResultIds(ms[i + 1]) = {})
          /\ ResultIds(ms[i]) # {} => ResultsAsked(ms, i)
          /\ EmptyToolUse(ms[i]) /\ i < n /\ ResultIds(ms[i + 1]) # {} => SingleToolResult(ms[i + 1])
      BY <3>1 DEF Healable
    <3>3. i < n \/ i = n
      BY <1>1, <3>1
    <3> QED  BY <1>1, <3>1, <3>2, <3>3 DEF UsesAnswered, ResultsAsked
  <2> QED  BY <2>1, <2>2, <2>3
<1> QED  BY <1>2 DEF Healable, ns

-----------------------------------------------------------------------------

(* Which indexes and lengths the control points rely on.                   *)
Bounds ==
  /\ pc # "prune" => idx >= 1
  /\ pc = "prune" => idx <= Len(messages)
  /\ pc \in {"saveUser", "saveAssist", "saveResults"} => Len(messages) >= 1
  /\ pc \in {"http", "rewrite", "saveAssist", "tools", "saveResults"} => iter < MaxToolIter
  /\ ~eol => Len(disk) >= 1

TypeInv == TypeOK /\ Bounds

FileOK == disk \in Seq(FileLine) /\ eol \in BOOLEAN /\ (~eol => Len(disk) >= 1)

(***************************************************************************)
(* Types.                                                                  *)
(***************************************************************************)
LEMMA LineType == \A m \in Message : Line(m) \in FileLine /\ Line(m).msg = m /\ Line(m).shape = "alone"
BY DEF Line, FileLine

LEMMA TornType == Torn \in FileLine
<1>1. <<>> \in Seq(Block)
  OBVIOUS
<1>2. [role |-> "user", content |-> <<>>] \in Message
  BY <1>1 DEF Message
<1> QED  BY <1>2 DEF Torn, FileLine

LEMMA GlueType == \A l \in FileLine : Glue(l) \in FileLine
BY DEF Glue, FileLine

LEMMA FileOfType ==
  ASSUME NEW ms \in Seq(Message)
  PROVE  /\ FileOf(ms) \in Seq(FileLine)
         /\ Len(FileOf(ms)) = Len(ms)
         /\ \A i \in 1..Len(ms) : FileOf(ms)[i] = Line(ms[i])
<1>1. \A i \in 1..Len(ms) : ms[i] \in Message /\ Line(ms[i]) \in FileLine
  BY LineType
<1> QED  BY <1>1 DEF FileOf

LEMMA SlotBlock == \A r \in Seq(Slot) : r \in Seq(Block) /\ assistant_msg(r) \in Message
<1>1. Slot \subseteq Block
  BY DEF Slot, Block, BlockType, Body
<1> SUFFICES ASSUME NEW r \in Seq(Slot) PROVE r \in Seq(Block)
  BY NewMessages
<1>2. \A k \in 1..Len(r) : r[k] \in Block
  BY <1>1
<1> QED  BY <1>2

LEMMA WriteType ==
  ASSUME FileOK, NEW line \in FileLine, NEW newline \in BOOLEAN, Write(line, newline)
  PROVE  FileOK'
<1>1. CASE eol
  <2>1. disk' = Append(disk, line) /\ eol' = newline
    BY <1>1 DEF Write
  <2> QED  BY <2>1 DEF FileOK
<1>2. CASE ~eol
  <2>1. disk' = [disk EXCEPT ![Len(disk)] = Glue(disk[Len(disk)])] /\ eol' = newline
    BY <1>2 DEF Write
  <2>2. Len(disk) \in 1..Len(disk) /\ Glue(disk[Len(disk)]) \in FileLine
    BY <1>2, GlueType DEF FileOK
  <2> QED  BY <2>1, <2>2 DEF FileOK
<1> QED  BY <1>1, <1>2 DEF FileOK

LEMMA AppendType ==
  ASSUME FileOK, NEW m \in Message, session_append(m)
  PROVE  FileOK'
<1>1. CASE Write(Line(m), TRUE) \/ Write(Line(m), FALSE)
  BY <1>1, LineType, WriteType
<1>2. CASE \E newline \in BOOLEAN : Write(Torn, newline)
  BY <1>2, TornType, WriteType
<1>3. CASE UNCHANGED file
  BY <1>3 DEF file, FileOK
<1>4. CASE eol' = TRUE /\ UNCHANGED disk
  BY <1>4 DEF FileOK
<1> QED  BY <1>1, <1>2, <1>3, <1>4 DEF session_append

LEMMA RewriteType ==
  ASSUME FileOK, messages \in Seq(Message), session_rewrite
  PROVE  FileOK'
<1>1. CASE disk' = FileOf(messages) /\ eol' = TRUE
  BY <1>1, FileOfType DEF FileOK
<1>2. CASE UNCHANGED file
  BY <1>2 DEF file, FileOK
<1>3. ASSUME NEW n \in 0..(Len(messages) - 1), ShortFile(n)
      PROVE  FileOK'
  <2> DEFINE kept == FileOf(SubSeq(messages, 1, n))
  <2>1. SubSeq(messages, 1, n) \in Seq(Message)
    OBVIOUS
  <2>2. kept \in Seq(FileLine)
    BY <2>1, FileOfType
  <2> HIDE DEF kept
  <2>3. CASE disk' = kept /\ eol' = TRUE
    BY <2>2, <2>3 DEF FileOK
  <2>4. CASE disk' = Append(kept, Torn) /\ eol' = FALSE
    <3>1. disk' \in Seq(FileLine) /\ Len(disk') = Len(kept) + 1 /\ Len(kept) \in Nat
      BY <2>2, <2>4, TornType
    <3>2. Len(disk') >= 1
      BY <3>1
    <3> QED  BY <2>4, <3>1, <3>2 DEF FileOK
  <2>5. CASE disk' = Append(kept, Line(messages[n + 1])) /\ eol' = FALSE
    <3>1. Line(messages[n + 1]) \in FileLine
      BY LineType
    <3>2. disk' \in Seq(FileLine) /\ Len(disk') = Len(kept) + 1 /\ Len(kept) \in Nat
      BY <2>2, <2>5, <3>1
    <3>3. Len(disk') >= 1
      BY <3>2
    <3> QED  BY <2>5, <3>2, <3>3 DEF FileOK
  <2> QED  BY <1>3, <2>3, <2>4, <2>5 DEF ShortFile, kept
<1> QED  BY <1>1, <1>2, <1>3 DEF session_rewrite

LEMMA MaxToolIterType == MaxToolIter \in Nat /\ MaxToolIter > 0
BY SessionAssumption

LEMMA GoneType ==
  ASSUME TypeInv, NEW status \in {0, 1, 2, 130, 137}, Gone(status), FileOK'
  PROVE  TypeInv'
<1>1. <<>> \in Seq(Message) /\ <<>> \in Seq(Slot) /\ <<>> \in Seq(Block)
  OBVIOUS
<1>2. TypeOK'
  <2>1. oneshot' \in BOOLEAN /\ interrupt' \in BOOLEAN /\ pruned' \in BOOLEAN /\ retry' \in BOOLEAN
    BY DEF Gone
  <2>2. /\ pc' = "off" /\ rc' \in {0, 1, 2, 130, 137} /\ idx' \in Nat /\ base' \in Nat
        /\ messages' \in Seq(Message) /\ response' \in Seq(Slot) /\ results' \in Seq(Block)
    BY <1>1 DEF Gone
  <2>3. iter' \in 0..MaxToolIter
    BY MaxToolIterType DEF Gone
  <2> QED  BY <2>1, <2>2, <2>3 DEF TypeOK, FileOK
<1>3. Bounds'
  BY DEF Gone, Bounds, FileOK
<1> QED  BY <1>2, <1>3 DEF TypeInv

LEMMA ReturnType ==
  ASSUME TypeInv, pc # "prune", NEW r \in {0, 1, 2, 130}, Return(r), FileOK'
  PROVE  TypeInv'
<1>1. CASE Gone(r)
  BY <1>1, GoneType
<1>2. CASE /\ pc' = "reset"
           /\ iter' = 0 /\ response' = <<>> /\ results' = <<>> /\ idx' = 1 /\ retry' = FALSE
           /\ UNCHANGED <<oneshot, rc, interrupt, messages, pruned, base>>
  <2>1. <<>> \in Seq(Slot) /\ <<>> \in Seq(Block)
    OBVIOUS
  <2>2. TypeOK'
    <3>1. iter' \in 0..MaxToolIter
      BY <1>2, MaxToolIterType
    <3>2. retry' \in BOOLEAN /\ idx' \in Nat
      BY <1>2
    <3>3. pc' \in AtPrompt
      BY <1>2 DEF AtPrompt
    <3> QED  BY <1>2, <2>1, <3>1, <3>2, <3>3 DEF TypeInv, TypeOK, FileOK
  <2>3. Bounds'
    BY <1>2 DEF Bounds, FileOK
  <2> QED  BY <2>2, <2>3 DEF TypeInv
<1> QED  BY <1>1, <1>2 DEF Return

LEMMA FgetsFailsType ==
  ASSUME TypeInv, FileOK, NEW from \in {"blocked", "eintr"}, FgetsFails(from)
  PROVE  TypeInv'
<1>1. FileOK'
  BY DEF FgetsFails, file, FileOK
<1>2. CASE Gone(0)
  BY <1>1, <1>2, GoneType
<1>3. CASE /\ interrupt' = FALSE
           /\ pc' = "reset"
           /\ UNCHANGED <<oneshot, rc, memory>>
  <2>1. TypeOK'
    BY <1>1, <1>3 DEF TypeInv, TypeOK, FileOK, AtPrompt, memory
  <2>2. Bounds'
    BY <1>1, <1>3 DEF FgetsFails, TypeInv, Bounds, FileOK, memory
  <2> QED  BY <2>1, <2>2 DEF TypeInv
<1> QED  BY <1>2, <1>3 DEF FgetsFails

LEMMA TypeNext == TypeInv /\ [Next]_vars => TypeInv'
<1> SUFFICES ASSUME TypeInv, [Next]_vars PROVE TypeInv'
  OBVIOUS
<1>0. FileOK
  BY DEF TypeInv, TypeOK, Bounds, FileOK
<1> USE DEF TypeInv, TypeOK, Bounds, Booting, AtPrompt, InTurn, memory, file
<1>1. CASE Resume
  <2>1. CASE LoadLine
    <3>1. disk[idx] \in FileLine
      BY <2>1 DEF LoadLine
    <3>2. disk[idx].msg \in Message
      BY <3>1 DEF FileLine
    <3> QED  BY <2>1, <3>2 DEF LoadLine
  <2>2. CASE LoadEnd
    BY <2>2 DEF LoadEnd
  <2>3. CASE PruneMessage
    <3>1. idx \in 1..Len(messages)
      BY <2>3 DEF PruneMessage
    <3>2. /\ PruneAt(messages, idx) \in Seq(Message)
          /\ Len(PruneAt(messages, idx)) >= idx - 1
      BY <3>1, PruneAtType
    <3>3. messages' \in Seq(Message) /\ Len(messages') >= idx - 1 /\ pruned' \in BOOLEAN
      <4>1. CASE messages' = PruneAt(messages, idx) /\ pruned' = TRUE
        BY <3>2, <4>1
      <4>2. CASE UNCHANGED <<messages, pruned>>
        BY <3>1, <4>2
      <4> QED  BY <2>3, <4>1, <4>2 DEF PruneMessage
    <3> QED  BY <2>3, <3>1, <3>3 DEF PruneMessage
  <2>4. CASE PruneEnd
    <3>1. pc' \in {"heal", "oneshot", "reset"}
      BY <2>4 DEF PruneEnd, Booted
    <3>2. pruned' \in BOOLEAN
      BY <2>4 DEF PruneEnd
    <3>3. idx' = 1 /\ base' \in Nat
      BY <2>4 DEF PruneEnd
    <3> QED  BY <2>4, <3>1, <3>2, <3>3 DEF PruneEnd
  <2>5. CASE Heal
    <3>1. FileOK'
      BY <1>0, <2>5, RewriteType DEF Heal
    <3> QED  BY <2>5, <3>1 DEF Heal, Booted, FileOK
  <2> QED  BY <1>1, <2>1, <2>2, <2>3, <2>4, <2>5 DEF Resume
<1>2. CASE Prompting
  <2>1. CASE OneshotPrompt
    BY <2>1, NewMessages DEF OneshotPrompt
  <2>2. CASE ResetInterrupt
    BY <2>2 DEF ResetInterrupt
  <2>3. CASE EnterRead
    BY <2>3 DEF EnterRead
  <2>4. CASE FgetsFails("eintr")
    BY <1>0, <2>4, FgetsFailsType
  <2>5. CASE SaveUser
    <3>1. messages[Len(messages)] \in Message
      BY <2>5 DEF SaveUser
    <3>2. FileOK'
      BY <1>0, <2>5, <3>1, AppendType DEF SaveUser
    <3> QED  BY <2>5, <3>2 DEF SaveUser, FileOK
  <2> QED  BY <1>2, <2>1, <2>2, <2>3, <2>4, <2>5 DEF Prompting
<1>3. CASE ChatTurn
  <2>1. CASE IterLimit
    BY <1>0, <2>1, ReturnType DEF IterLimit, FileOK
  <2>2. CASE TopInterrupted
    BY <1>0, <2>2, ReturnType DEF TopInterrupted, FileOK
  <2>3. CASE SendRequest
    BY <2>3 DEF SendRequest
  <2>4. CASE DoTurn
    <3>1. CASE TurnInterrupted
      BY <1>0, <3>1, ReturnType DEF TurnInterrupted, FileOK
    <3>2. CASE TurnFailed
      BY <1>0, <3>2, ReturnType DEF TurnFailed, FileOK
    <3>3. CASE Compact
      <4>1. compact_clear_tool_results(messages) \in Seq(Message)
        BY CompactKeeps
      <4> QED  BY <3>3, <4>1 DEF Compact
    <3>4. CASE NothingToCompact
      BY <1>0, <3>4, ReturnType DEF NothingToCompact, FileOK
    <3>5. ASSUME NEW r \in Responses, BrokenToolUse(r)
          PROVE  TypeInv'
      BY <1>0, <3>5, ReturnType DEF BrokenToolUse, FileOK
    <3>6. ASSUME NEW r \in Responses, Answer(r)
          PROVE  TypeInv'
      <4>1. r \in Seq(Slot) /\ assistant_msg(r) \in Message
        BY SlotBlock, SessionAssumption
      <4>2. messages' \in Seq(Message) /\ Len(messages') >= 1
        BY <3>6, <4>1 DEF Answer
      <4> QED  BY <3>6, <4>1, <4>2 DEF Answer
    <3> QED  BY <2>4, <3>1, <3>2, <3>3, <3>4, <3>5, <3>6 DEF DoTurn
  <2>5. CASE RewriteAndRetry
    <3>1. FileOK'
      BY <1>0, <2>5, RewriteType DEF RewriteAndRetry
    <3> QED  BY <2>5, <3>1, MaxToolIterType DEF RewriteAndRetry, FileOK
  <2>6. CASE SaveAnswer
    <3>1. messages[Len(messages)] \in Message
      BY <2>6 DEF SaveAnswer
    <3>2. FileOK'
      BY <1>0, <2>6, <3>1, AppendType DEF SaveAnswer
    <3>3. CASE Return(0)
      BY <2>6, <3>2, <3>3, ReturnType DEF SaveAnswer
    <3>4. CASE pc' = "tools" /\ UNCHANGED <<oneshot, rc, interrupt, memory>>
      BY <2>6, <3>2, <3>4 DEF SaveAnswer, FileOK
    <3> QED  BY <2>6, <3>3, <3>4 DEF SaveAnswer
  <2>7. CASE DispatchTool
    <3>1. response[idx] \in Slot
      BY <2>7 DEF DispatchTool
    <3>2. \A body \in {"long", "short"} : ToolResult(response[idx].id, body) \in Block
      BY <3>1 DEF ToolResult, Slot, Block, BlockType, Body
    <3> QED  BY <2>7, <3>2 DEF DispatchTool
  <2>8. CASE SkipBlock
    BY <2>8 DEF SkipBlock
  <2>9. CASE CollectResults
    BY <2>9, NewMessages DEF CollectResults
  <2>10. CASE SaveResults
    <3>1. messages[Len(messages)] \in Message
      BY <2>10 DEF SaveResults
    <3>2. FileOK'
      BY <1>0, <2>10, <3>1, AppendType DEF SaveResults
    <3>3. <<>> \in Seq(Slot) /\ <<>> \in Seq(Block)
      OBVIOUS
    <3> QED  BY <2>10, <3>2, <3>3, MaxToolIterType DEF SaveResults, FileOK
  <2> QED  BY <1>3, <2>1, <2>2, <2>3, <2>4, <2>5, <2>6, <2>7, <2>8, <2>9, <2>10 DEF ChatTurn, Rounds
<1>4. CASE User
  <2>1. CASE ReadLine
    BY <2>1, NewMessages DEF ReadLine
  <2>2. CASE ReadEmptyLine
    BY <2>2 DEF ReadEmptyLine
  <2>3. CASE FgetsFails("blocked")
    BY <1>0, <2>3, FgetsFailsType
  <2> QED  BY <1>4, <2>1, <2>2, <2>3 DEF User
<1>5. CASE \E continue, one \in BOOLEAN : Start(continue, one)
  BY <1>5 DEF Start
<1>6. CASE Sigint
  BY <1>6 DEF Sigint
<1>7. CASE Crash
  BY <1>0, <1>7, GoneType DEF Crash, FileOK
<1>8. CASE UNCHANGED vars
  BY <1>8 DEF vars
<1> QED  BY <1>1, <1>2, <1>3, <1>4, <1>5, <1>6, <1>7, <1>8 DEF Next, Program

LEMMA TypeInit == Init => TypeInv
<1> SUFFICES ASSUME Init PROVE TypeInv
  OBVIOUS
<1>1. <<>> \in Seq(Message) /\ <<>> \in Seq(Slot) /\ <<>> \in Seq(Block)
  OBVIOUS
<1>2. disk \in Seq(FileLine)
  BY SessionAssumption DEF Init
<1>3. oneshot \in BOOLEAN /\ interrupt \in BOOLEAN /\ pruned \in BOOLEAN /\ retry \in BOOLEAN /\ eol \in BOOLEAN
  BY DEF Init
<1>4. iter \in 0..MaxToolIter
  BY MaxToolIterType DEF Init
<1>5. TypeOK
  BY <1>1, <1>2, <1>3, <1>4 DEF Init, TypeOK
<1>6. Bounds
  BY DEF Init, Bounds
<1> QED  BY <1>5, <1>6 DEF TypeInv

LEMMA TypeInvariant == Spec => []TypeInv
BY TypeInit, TypeNext, PTL DEF Spec

(* Every variable keeps its type: no index of session_load, of the pruning *)
(* loop and of the tool loop leaves its array, and MAX_TOOL_ITER bounds    *)
(* the requests of a turn, retries included.                               *)
THEOREM TypeCorrect == Spec => []TypeOK
<1>1. TypeInv => TypeOK
  BY DEF TypeInv
<1> QED  BY <1>1, TypeInvariant, PTL

(***************************************************************************)
(* Pairs.                                                                  *)
(***************************************************************************)
(* The message appended last is the answer whose tools are still to run.   *)
AnswerPending ==
  \E ms \in Seq(Message) :
    /\ messages = Append(ms, assistant_msg(response))
    /\ base <= Len(ms)
    /\ PairedFrom(ms, base)

(* The results answer exactly the tool_use blocks before idx.              *)
ResultsSoFar ==
  /\ \A k \in 1..Len(results) :
       /\ results[k].type = "tool_result"
       /\ \E j \in 1..Len(response) :
            response[j].type = "tool_use" /\ response[j].id = results[k].id
  /\ \A j \in 1..Len(response) :
       j < idx /\ response[j].type = "tool_use" =>
         \E k \in 1..Len(results) : results[k].id = response[j].id

PairInv ==
  /\ base <= Len(messages)
  /\ pc \in {"off", "load", "prune"} => base = 0
  /\ pc = "off" => messages = <<>>
  /\ pc \notin {"tools", "saveResults"} => results = <<>>
  /\ pc \notin {"load", "prune", "tools", "saveResults"} => idx = 1
  /\ pc \notin {"load", "prune", "saveAssist", "tools"} => PairedFrom(messages, base)
  /\ pc \in {"saveAssist", "tools"} => AnswerPending
  /\ pc = "tools" => ResultsSoFar

(* An answer contains no tool_result (Slot is what a stream can leave).    *)
LEMMA AnswerIds ==
  ASSUME NEW r \in Seq(Slot)
  PROVE  ResultIds(assistant_msg(r)) = {}
<1>1. \A k \in DOMAIN r : r[k].type # "tool_result"
  <2>1. \A k \in DOMAIN r : r[k] \in Slot
    OBVIOUS
  <2> QED  BY <2>1 DEF Slot
<1> QED  BY <1>1 DEF assistant_msg, ResultIds, IdsOf

(* The results message of a finished tool loop answers the assistant       *)
(* message id for id.                                                      *)
LEMMA ResultsAnswer ==
  ASSUME TypeInv, ResultsSoFar, idx > Len(response)
  PROVE  /\ UseIds(results_msg(results)) = {}
         /\ ResultIds(results_msg(results)) = UseIds(assistant_msg(response))
<1>1. response \in Seq(Slot) /\ results \in Seq(Block) /\ idx \in Nat
  BY DEF TypeInv, TypeOK
<1>2. DOMAIN results = 1..Len(results) /\ DOMAIN response = 1..Len(response)
  BY <1>1
<1>3. UseIds(results_msg(results)) = {}
  BY <1>2 DEF ResultsSoFar, results_msg, UseIds, IdsOf
<1>4. ASSUME NEW id
      PROVE  (\E k \in DOMAIN results : results[k].type = "tool_result" /\ results[k].id = id)
               <=> \E j \in DOMAIN response : response[j].type = "tool_use" /\ response[j].id = id
  <2>1. \A j \in DOMAIN response : j < idx
    BY <1>1, <1>2
  <2>2. ASSUME NEW k \in DOMAIN results, results[k].type = "tool_result", results[k].id = id
        PROVE  \E j \in DOMAIN response : response[j].type = "tool_use" /\ response[j].id = id
    BY <1>2, <2>2 DEF ResultsSoFar
  <2>3. ASSUME NEW j \in DOMAIN response, response[j].type = "tool_use", response[j].id = id
        PROVE  \E k \in DOMAIN results : results[k].type = "tool_result" /\ results[k].id = id
    <3>1. j \in 1..Len(response) /\ j < idx
      BY <1>2, <2>1
    <3>2. PICK k \in 1..Len(results) : results[k].id = response[j].id
      BY <2>3, <3>1 DEF ResultsSoFar
    <3> QED  BY <1>2, <2>3, <3>2 DEF ResultsSoFar
  <2> QED  BY <2>2, <2>3
<1>5. ResultIds(results_msg(results)) = UseIds(assistant_msg(response))
  BY <1>4 DEF results_msg, assistant_msg, ResultIds, UseIds, IdsOf
<1> QED  BY <1>3, <1>5

LEMMA EmptyPaired == PairedFrom(<<>>, 0)
BY DEF PairedFrom

LEMMA GonePair ==
  ASSUME NEW status, Gone(status)
  PROVE  PairInv'
BY EmptyPaired DEF Gone, PairInv

LEMMA ReturnPair ==
  ASSUME NEW r, Return(r), PairInv, PairedFrom(messages, base)
  PROVE  PairInv'
<1>1. CASE Gone(r)
  BY <1>1, GonePair
<1>2. CASE /\ pc' = "reset"
           /\ iter' = 0 /\ response' = <<>> /\ results' = <<>> /\ idx' = 1 /\ retry' = FALSE
           /\ UNCHANGED <<oneshot, rc, interrupt, messages, pruned, base>>
  BY <1>2 DEF PairInv
<1> QED  BY <1>1, <1>2 DEF Return

LEMMA FgetsFailsPair ==
  ASSUME NEW from \in {"blocked", "eintr"}, FgetsFails(from), PairInv
  PROVE  PairInv'
<1>1. CASE Gone(0)
  BY <1>1, GonePair
<1>2. CASE pc' = "reset" /\ UNCHANGED <<oneshot, rc, memory>>
  BY <1>2 DEF FgetsFails, PairInv, memory
<1> QED  BY <1>1, <1>2 DEF FgetsFails

LEMMA PairNext == TypeInv /\ PairInv /\ [Next]_vars => PairInv'
<1> SUFFICES ASSUME TypeInv, PairInv, [Next]_vars PROVE PairInv'
  OBVIOUS
<1>0. messages \in Seq(Message) /\ base \in Nat /\ Len(messages) \in Nat
  BY DEF TypeInv, TypeOK
<1>1. CASE Resume
  <2>1. CASE LoadLine
    <3>1. Len(messages') \in Nat
      <4>1. TypeInv'
        BY TypeNext
      <4> QED  BY <4>1 DEF TypeInv, TypeOK
    <3> QED  BY <2>1, <3>1 DEF LoadLine, PairInv
  <2>2. CASE LoadEnd
    BY <2>2 DEF LoadEnd, PairInv
  <2>3. CASE PruneMessage
    <3>1. Len(messages') \in Nat
      <4>1. TypeInv'
        BY TypeNext
      <4> QED  BY <4>1 DEF TypeInv, TypeOK
    <3> QED  BY <2>3, <3>1 DEF PruneMessage, PairInv
  <2>4. CASE PruneEnd
    <3>1. pc' \in {"heal", "oneshot", "reset"}
      BY <2>4 DEF PruneEnd, Booted
    <3>2. PairedFrom(messages, Len(messages))
      BY <1>0 DEF PairedFrom
    <3> QED  BY <1>0, <2>4, <3>1, <3>2 DEF PruneEnd, PairInv
  <2>5. CASE Heal
    BY <2>5 DEF Heal, Booted, PairInv, memory
  <2> QED  BY <1>1, <2>1, <2>2, <2>3, <2>4, <2>5 DEF Resume
<1>2. ASSUME messages' = Append(messages, make_user_msg), pc' = "saveUser",
             pc \in {"oneshot", "blocked"},
             UNCHANGED <<results, idx, base>>
      PROVE  PairInv'
  <2>1. PairedFrom(messages, base)
    BY <1>2 DEF PairInv
  <2>2. PairedFrom(messages', base)
    BY <1>0, <1>2, <2>1, NewMessages, AppendPlain
  <2>3. Len(messages') = Len(messages) + 1
    BY <1>0, <1>2
  <2> QED  BY <1>0, <1>2, <2>2, <2>3 DEF PairInv
<1>3. CASE Prompting
  <2>1. CASE OneshotPrompt
    BY <1>2, <2>1 DEF OneshotPrompt
  <2>2. CASE ResetInterrupt
    BY <2>2 DEF ResetInterrupt, PairInv, memory
  <2>3. CASE EnterRead
    BY <2>3 DEF EnterRead, PairInv, memory
  <2>4. CASE FgetsFails("eintr")
    BY <2>4, FgetsFailsPair
  <2>5. CASE SaveUser
    BY <2>5 DEF SaveUser, PairInv, memory
  <2> QED  BY <1>3, <2>1, <2>2, <2>3, <2>4, <2>5 DEF Prompting
<1>4. CASE ChatTurn
  <2>1. CASE IterLimit
    BY <2>1, ReturnPair DEF IterLimit, PairInv
  <2>2. CASE TopInterrupted
    BY <2>2, ReturnPair DEF TopInterrupted, PairInv
  <2>3. CASE SendRequest
    BY <2>3 DEF SendRequest, PairInv, memory
  <2>4. CASE DoTurn
    <3>1. CASE TurnInterrupted
      BY <3>1, ReturnPair DEF TurnInterrupted, PairInv
    <3>2. CASE TurnFailed
      BY <3>2, ReturnPair DEF TurnFailed, PairInv
    <3>3. CASE Compact
      <4>1. PairedFrom(messages, base)
        BY <3>3 DEF Compact, PairInv
      <4>2. PairedFrom(messages', base) /\ Len(messages') = Len(messages)
        BY <1>0, <3>3, <4>1, CompactPaired, CompactKeeps DEF Compact
      <4> QED  BY <3>3, <4>2 DEF Compact, PairInv
    <3>4. CASE NothingToCompact
      BY <3>4, ReturnPair DEF NothingToCompact, PairInv
    <3>5. ASSUME NEW r \in Responses, BrokenToolUse(r)
          PROVE  PairInv'
      BY <3>5, ReturnPair DEF BrokenToolUse, PairInv
    <3>6. ASSUME NEW r \in Responses, Answer(r)
          PROVE  PairInv'
      <4>1. assistant_msg(r) \in Message
        BY SlotBlock, SessionAssumption
      <4>2. Len(messages') = Len(messages) + 1
        BY <1>0, <3>6, <4>1 DEF Answer
      <4>3. PairedFrom(messages, base) /\ base <= Len(messages)
        BY <3>6 DEF Answer, PairInv
      <4>4. AnswerPending'
        BY <1>0, <3>6, <4>3 DEF Answer, AnswerPending
      <4> QED  BY <1>0, <3>6, <4>2, <4>4 DEF Answer, PairInv
    <3> QED  BY <2>4, <3>1, <3>2, <3>3, <3>4, <3>5, <3>6 DEF DoTurn
  <2>5. CASE RewriteAndRetry
    BY <2>5 DEF RewriteAndRetry, PairInv
  <2>6. CASE SaveAnswer
    <3>1. CASE ~has_tool_use(response) /\ Return(0)
      <4>1. PICK ms \in Seq(Message) : /\ messages = Append(ms, assistant_msg(response))
                                       /\ base <= Len(ms)
                                       /\ PairedFrom(ms, base)
        BY <2>6 DEF SaveAnswer, PairInv, AnswerPending
      <4>2. response \in Seq(Slot) /\ assistant_msg(response) \in Message
        BY SlotBlock DEF TypeInv, TypeOK
      <4>3. UseIds(assistant_msg(response)) = {} /\ ResultIds(assistant_msg(response)) = {}
        BY <3>1, <4>2, AnswerIds DEF has_tool_use, UseIds, IdsOf, assistant_msg
      <4>4. PairedFrom(messages, base)
        BY <1>0, <4>1, <4>2, <4>3, AppendPlain
      <4> QED  BY <3>1, <4>4, ReturnPair
    <3>2. CASE pc' = "tools" /\ UNCHANGED <<oneshot, rc, interrupt, memory>>
      <4>1. AnswerPending /\ results = <<>> /\ idx = 1
        BY <2>6 DEF SaveAnswer, PairInv
      <4>2. ResultsSoFar
        BY <4>1 DEF ResultsSoFar, TypeInv, TypeOK
      <4>3. AnswerPending' /\ ResultsSoFar'
        BY <3>2, <4>1, <4>2 DEF AnswerPending, ResultsSoFar, memory
      <4> QED  BY <2>6, <3>2, <4>3 DEF PairInv, memory
    <3> QED  BY <2>6, <3>1, <3>2 DEF SaveAnswer
  <2>7. CASE DispatchTool
    <3>1. AnswerPending'
      BY <2>7 DEF DispatchTool, PairInv, AnswerPending
    <3>2. PICK body : results' = Append(results, ToolResult(response[idx].id, body))
      BY <2>7 DEF DispatchTool
    <3>3. /\ results \in Seq(Block) /\ response \in Seq(Slot) /\ idx \in Nat
          /\ ResultsSoFar /\ idx \in 1..Len(response)
      BY <2>7 DEF DispatchTool, PairInv, TypeInv, TypeOK, Bounds
    <3>4. /\ Len(results') = Len(results) + 1
          /\ \A k \in 1..Len(results) : results'[k] = results[k]
          /\ results'[Len(results) + 1].type = "tool_result"
          /\ results'[Len(results) + 1].id = response[idx].id
      BY <3>2, <3>3 DEF ToolResult
    <3>5. ResultsSoFar'
      <4>1. /\ response' = response /\ idx' = idx + 1 /\ response[idx].type = "tool_use"
            /\ Len(results) \in Nat
        BY <2>7, <3>3 DEF DispatchTool
      <4>2. ASSUME NEW k \in 1..Len(results')
            PROVE  /\ results'[k].type = "tool_result"
                   /\ \E j \in 1..Len(response) :
                        response[j].type = "tool_use" /\ response[j].id = results'[k].id
        <5>1. CASE k = Len(results) + 1
          BY <3>3, <3>4, <4>1, <5>1
        <5>2. CASE k \in 1..Len(results)
          BY <3>3, <3>4, <5>2 DEF ResultsSoFar
        <5> QED  BY <3>4, <4>1, <5>1, <5>2
      <4>3. ASSUME NEW j \in 1..Len(response), j < idx + 1, response[j].type = "tool_use"
            PROVE  \E k \in 1..Len(results') : results'[k].id = response[j].id
        <5>1. CASE j = idx
          BY <3>4, <4>1, <5>1
        <5>2. CASE j < idx
          <6>1. PICK k \in 1..Len(results) : results[k].id = response[j].id
            BY <3>3, <4>3, <5>2 DEF ResultsSoFar
          <6> QED  BY <3>4, <4>1, <6>1
        <5> QED  BY <3>3, <4>3, <5>1, <5>2
      <4> QED  BY <4>1, <4>2, <4>3 DEF ResultsSoFar
    <3> QED  BY <2>7, <3>1, <3>5 DEF DispatchTool, PairInv
  <2>8. CASE SkipBlock
    <3>1. AnswerPending'
      BY <2>8 DEF SkipBlock, PairInv, AnswerPending
    <3>2. ResultsSoFar /\ idx \in Nat
      BY <2>8 DEF SkipBlock, PairInv, TypeInv, TypeOK
    <3>3. ResultsSoFar'
      BY <2>8, <3>2 DEF SkipBlock, ResultsSoFar
    <3> QED  BY <2>8, <3>1, <3>3 DEF SkipBlock, PairInv
  <2>9. CASE CollectResults
    <3>1. PICK ms \in Seq(Message) : /\ messages = Append(ms, assistant_msg(response))
                                     /\ base <= Len(ms)
                                     /\ PairedFrom(ms, base)
      BY <2>9 DEF CollectResults, PairInv, AnswerPending
    <3>2. /\ response \in Seq(Slot) /\ results \in Seq(Block)
          /\ assistant_msg(response) \in Message /\ results_msg(results) \in Message
      BY SlotBlock, NewMessages DEF TypeInv, TypeOK
    <3>3. /\ UseIds(results_msg(results)) = {}
          /\ ResultIds(results_msg(results)) = UseIds(assistant_msg(response))
      BY <2>9, ResultsAnswer DEF CollectResults, PairInv
    <3>4. messages' = Append(Append(ms, assistant_msg(response)), results_msg(results))
      BY <2>9, <3>1 DEF CollectResults
    <3>5. base \in 0..Len(ms)
      BY <1>0, <3>1
    <3>6. PairedFrom(messages', base)
      BY <3>1, <3>2, <3>3, <3>4, <3>5, AnswerIds, AppendExchange
    <3>7. Len(messages') = Len(messages) + 1
      BY <1>0, <2>9, <3>2 DEF CollectResults
    <3> QED  BY <1>0, <2>9, <3>6, <3>7 DEF CollectResults, PairInv
  <2>10. CASE SaveResults
    BY <2>10 DEF SaveResults, PairInv
  <2> QED  BY <1>4, <2>1, <2>2, <2>3, <2>4, <2>5, <2>6, <2>7, <2>8, <2>9, <2>10 DEF ChatTurn, Rounds
<1>5. CASE User
  <2>1. CASE ReadLine
    BY <1>2, <2>1 DEF ReadLine
  <2>2. CASE ReadEmptyLine
    BY <2>2 DEF ReadEmptyLine, PairInv, memory
  <2>3. CASE FgetsFails("blocked")
    BY <2>3, FgetsFailsPair
  <2> QED  BY <1>5, <2>1, <2>2, <2>3 DEF User
<1>6. CASE \E continue, one \in BOOLEAN : Start(continue, one)
  BY <1>6, EmptyPaired DEF Start, PairInv, memory
<1>7. CASE Sigint
  <2>1. AnswerPending' <=> AnswerPending
    BY <1>7 DEF Sigint, AnswerPending, memory
  <2>2. ResultsSoFar' <=> ResultsSoFar
    BY <1>7 DEF Sigint, ResultsSoFar, memory
  <2> QED  BY <1>7, <2>1, <2>2 DEF Sigint, PairInv, memory
<1>8. CASE Crash
  BY <1>8, GonePair DEF Crash
<1>9. CASE UNCHANGED vars
  BY <1>9 DEF vars, memory, PairInv, AnswerPending, ResultsSoFar
<1> QED  BY <1>1, <1>3, <1>4, <1>5, <1>6, <1>7, <1>8, <1>9 DEF Next, Program

LEMMA PairInit == Init => PairInv
BY EmptyPaired DEF Init, PairInv

(* However the turns of a process end, and whatever faults happen: at the  *)
(* prompt, in a request and before a rewrite every tool_use the process    *)
(* recorded is answered by the next message (chat_turn).                   *)
THEOREM TranscriptAlwaysPaired == Spec => []TranscriptPaired
<1>1. PairInv => TranscriptPaired
  BY DEF PairInv, TranscriptPaired, AtPrompt
<1> QED  BY <1>1, PairInit, TypeInit, PairNext, TypeNext, PTL DEF Spec

(***************************************************************************)
(* Compaction.                                                             *)
(***************************************************************************)
(* Between a compaction and the next response nothing is left to clear.    *)
RetryInv == retry => pc \in {"rewrite", "top", "http"} /\ ~SomethingToClear(messages)

LEMMA RetryNext == TypeInv /\ RetryInv /\ [Next]_vars => RetryInv'
<1> SUFFICES ASSUME TypeInv, RetryInv, [Next]_vars PROVE RetryInv'
  OBVIOUS
<1>1. ASSUME ~retry' PROVE RetryInv'
  BY <1>1 DEF RetryInv
<1>2. ASSUME retry' = retry, messages' = messages,
             pc' \in {"rewrite", "top", "http"} \/ pc \notin {"rewrite", "top", "http"}
      PROVE  RetryInv'
  BY <1>2 DEF RetryInv
<1>3. ASSUME NEW r, Return(r) PROVE ~retry'
  BY <1>3 DEF Return, Gone
<1>4. ASSUME retry' = retry, pc \notin {"rewrite", "top", "http"}
      PROVE  RetryInv'
  BY <1>4 DEF RetryInv
<1>5. CASE Resume
  BY <1>4, <1>5 DEF Resume, LoadLine, LoadEnd, PruneMessage, PruneEnd, Heal, memory
<1>6. CASE Prompting
  BY <1>1, <1>4, <1>6 DEF Prompting, OneshotPrompt, ResetInterrupt, EnterRead, FgetsFails, SaveUser,
                          Gone, memory
<1>7. CASE ChatTurn
  <2>1. CASE DoTurn
    <3>1. CASE Compact
      <4>1. ~SomethingToClear(messages')
        BY <3>1, CompactOnce DEF Compact, TypeInv, TypeOK
      <4> QED  BY <3>1, <4>1 DEF Compact, RetryInv
    <3>2. CASE TurnInterrupted \/ TurnFailed \/ NothingToCompact
      BY <1>1, <1>3, <3>2 DEF TurnInterrupted, TurnFailed, NothingToCompact
    <3>3. ASSUME NEW r \in Responses, BrokenToolUse(r) \/ Answer(r)
          PROVE  RetryInv'
      BY <1>1, <1>3, <3>3 DEF BrokenToolUse, Answer
    <3> QED  BY <2>1, <3>1, <3>2, <3>3 DEF DoTurn
  <2>2. CASE IterLimit \/ TopInterrupted
    BY <1>1, <1>3, <2>2 DEF IterLimit, TopInterrupted
  <2>3. CASE SendRequest \/ RewriteAndRetry
    BY <1>2, <2>3 DEF SendRequest, RewriteAndRetry, memory
  <2>4. CASE SaveAnswer
    BY <1>1, <1>3, <1>4, <2>4 DEF SaveAnswer, memory
  <2>5. CASE DispatchTool \/ SkipBlock \/ CollectResults \/ SaveResults
    BY <1>4, <2>5 DEF DispatchTool, SkipBlock, CollectResults, SaveResults
  <2> QED  BY <1>7, <2>1, <2>2, <2>3, <2>4, <2>5 DEF ChatTurn, Rounds
<1>8. CASE User
  BY <1>1, <1>4, <1>8 DEF User, ReadLine, ReadEmptyLine, FgetsFails, Gone, memory
<1>9. CASE \E continue, one \in BOOLEAN : Start(continue, one)
  BY <1>4, <1>9 DEF Start, memory
<1>10. CASE Sigint
  BY <1>2, <1>10 DEF Sigint, memory
<1>11. CASE Crash
  BY <1>1, <1>11 DEF Crash, Gone
<1>12. CASE UNCHANGED vars
  BY <1>12 DEF vars, memory, RetryInv
<1> QED  BY <1>5, <1>6, <1>7, <1>8, <1>9, <1>10, <1>11, <1>12 DEF Next, Program

(* Only Compact goes from a request to a rewrite.                          *)
LEMMA OnlyCompactRewrites ==
  ASSUME [Next]_vars, pc = "http", pc' = "rewrite"
  PROVE  Compact
<1> USE DEF memory
<1>1. ASSUME NEW r, Return(r) PROVE FALSE
  BY <1>1 DEF Return, Gone
<1>2. CASE Resume \/ Prompting \/ User \/ Sigint \/ Crash \/ UNCHANGED vars
  BY <1>2 DEF Resume, LoadLine, LoadEnd, PruneMessage, PruneEnd, Heal, Prompting, OneshotPrompt,
              ResetInterrupt, EnterRead, FgetsFails, SaveUser, User, ReadLine, ReadEmptyLine,
              Sigint, Crash, Gone, vars
<1>3. CASE \E continue, one \in BOOLEAN : Start(continue, one)
  BY <1>3 DEF Start
<1>4. CASE ChatTurn
  BY <1>1, <1>4 DEF ChatTurn, Rounds, IterLimit, TopInterrupted, SendRequest, RewriteAndRetry, SaveAnswer,
                    DispatchTool, SkipBlock, CollectResults, SaveResults, DoTurn, TurnInterrupted,
                    TurnFailed, NothingToCompact, BrokenToolUse, Answer
<1> QED  BY <1>2, <1>3, <1>4 DEF Next, Program

(* A second overflow in a row finds nothing to clear: compaction is not    *)
(* tried twice without a response in between (chat_turn, r == -3).         *)
THEOREM CompactsOnce == Spec => RetryOnce
<1>1. Init => RetryInv
  BY DEF Init, RetryInv
<1>2. RetryInv /\ [Next]_vars => [pc = "http" /\ pc' = "rewrite" => ~retry]_vars
  <2> SUFFICES ASSUME RetryInv, [Next]_vars, pc = "http", pc' = "rewrite" PROVE ~retry
    OBVIOUS
  <2> QED  BY OnlyCompactRewrites DEF Compact, RetryInv
<1> QED  BY <1>1, <1>2, RetryNext, TypeInit, TypeNext, PTL DEF Spec, RetryOnce

(* Compaction keeps every message, its blocks and their ids, and the last  *)
(* KeepLast messages whole (compact_clear_tool_results).                   *)
THEOREM CompactionKeepsStructure == Spec => CompactionOnlyClears
<1> DEFINE A == pc = "http" /\ pc' = "rewrite" =>
                  /\ Len(messages') = Len(messages)
                  /\ \A i \in 1..Len(messages) :
                       /\ SameButCleared(messages[i], messages'[i])
                       /\ i + KeepLast > Len(messages) => messages'[i] = messages[i]
<1>1. TypeInv /\ [Next]_vars => [A]_vars
  <2> SUFFICES ASSUME TypeInv, [Next]_vars, pc = "http", pc' = "rewrite" PROVE A
    OBVIOUS
  <2>1. Compact
    BY OnlyCompactRewrites
  <2>2. messages \in Seq(Message) /\ messages' = compact_clear_tool_results(messages)
    BY <2>1 DEF Compact, TypeInv, TypeOK
  <2> QED  BY <2>2, CompactKeeps
<1> QED  BY <1>1, TypeInit, TypeNext, PTL DEF Spec, CompactionOnlyClears

(***************************************************************************)
(* Poison.                                                                 *)
(***************************************************************************)
CleanAbove(n) == \A i \in 1..Len(messages) : i > n => ~EmptyToolUse(messages[i])

PoisonInv ==
  /\ pc = "off" => messages = <<>>
  /\ pc = "prune" => CleanAbove(idx)
  /\ pc \notin {"load", "prune"} => CleanAbove(0)

(* The step of the pruning loop at i keeps what was clean above i and      *)
(* cleans i.                                                               *)
LEMMA PruneAtClean ==
  ASSUME NEW ms \in Seq(Message), NEW i \in 1..Len(ms),
         \A j \in 1..Len(ms) : j > i => ~EmptyToolUse(ms[j])
  PROVE  LET ns == PruneAt(ms, i)
         IN  \A j \in 1..Len(ns) : j > i - 1 => ~EmptyToolUse(ns[j])
<1> DEFINE rest == Delete(ms, i)
<1>1. /\ rest \in Seq(Message) /\ Len(rest) = Len(ms) - 1
      /\ \A j \in 1..Len(rest) : j >= i => rest[j] = ms[j + 1]
  BY DeleteType DEF Delete
<1>2. \A j \in 1..Len(rest) : j >= i => ~EmptyToolUse(rest[j])
  <2> HIDE DEF rest
  <2> SUFFICES ASSUME NEW j \in 1..Len(rest), j >= i PROVE ~EmptyToolUse(rest[j])
    OBVIOUS
  <2>1. j + 1 \in 1..Len(ms) /\ j + 1 > i
    BY <1>1
  <2> QED  BY <1>1, <2>1
<1> HIDE DEF rest
<1>3. CASE i <= Len(rest) /\ SingleToolResult(rest[i])
  <2> DEFINE ns == Delete(rest, i)
  <2>1. PruneAt(ms, i) = ns
    BY <1>3 DEF PruneAt, rest
  <2>2. i \in 1..Len(rest)
    BY <1>1, <1>3
  <2>3. /\ Len(ns) = Len(rest) - 1
        /\ \A j \in 1..Len(ns) : j >= i => ns[j] = rest[j + 1]
    BY <1>1, <2>2, DeleteType DEF Delete
  <2> HIDE DEF ns
  <2>4. ASSUME NEW j \in 1..Len(ns), j > i - 1
        PROVE  ~EmptyToolUse(ns[j])
    <3>1. j >= i /\ j + 1 \in 1..Len(rest) /\ j + 1 >= i
      BY <1>1, <2>3, <2>4
    <3> QED  BY <1>2, <2>3, <3>1
  <2> QED  BY <2>1, <2>4
<1>4. CASE ~(i <= Len(rest) /\ SingleToolResult(rest[i]))
  <2>1. PruneAt(ms, i) = rest
    BY <1>4 DEF PruneAt, rest
  <2> QED  BY <1>1, <1>2, <2>1
<1> QED  BY <1>3, <1>4

LEMMA AppendClean ==
  ASSUME messages \in Seq(Message), CleanAbove(0), NEW m \in Message, ~EmptyToolUse(m),
         messages' = Append(messages, m)
  PROVE  CleanAbove(0)'
BY DEF CleanAbove

LEMMA UserClean ==
  /\ ~EmptyToolUse(make_user_msg)
  /\ \A b : ~EmptyToolUse(results_msg(b))
BY DEF EmptyToolUse, make_user_msg, results_msg

(* What passes blocks_to_content is not an empty tool_use.                 *)
LEMMA AnswerClean ==
  ASSUME NEW r \in Seq(Slot), ~Broken(r)
  PROVE  ~EmptyToolUse(assistant_msg(r))
BY DEF Broken, EmptyToolUse, assistant_msg

LEMMA CompactClean ==
  ASSUME messages \in Seq(Message), CleanAbove(0),
         messages' = compact_clear_tool_results(messages)
  PROVE  CleanAbove(0)'
<1>1. \A m \in Message : EmptyToolUse(ClearMessage(m)) => EmptyToolUse(m)
  <2> SUFFICES ASSUME NEW m \in Message, EmptyToolUse(ClearMessage(m)) PROVE EmptyToolUse(m)
    OBVIOUS
  <2> DEFINE c == [k \in 1..Len(m.content) |-> ClearBlock(m.content[k])]
  <2>1. m.content \in Seq(Block)
    BY DEF Message
  <2>2. ClearMessage(m).role = m.role /\ ClearMessage(m).content = c
    BY DEF ClearMessage
  <2>3. Len(c) = Len(m.content)
    BY <2>1
  <2>4. Len(m.content) = 1 /\ ClearBlock(m.content[1]).type = "tool_use"
                           /\ ClearBlock(m.content[1]).body = "empty"
    BY <2>1, <2>2, <2>3 DEF EmptyToolUse
  <2>5. m.content[1] \in Block
    BY <2>1, <2>4
  <2>6. m.content[1].type = "tool_use" /\ m.content[1].body = "empty"
    BY <2>4, <2>5 DEF ClearBlock, Clearable, Block
  <2> QED  BY <2>2, <2>4, <2>6 DEF EmptyToolUse
<1>2. /\ Len(messages') = Len(messages)
      /\ \A i \in 1..Len(messages) : messages[i] \in Message
      /\ \A i \in 1..Len(messages) : messages'[i] = messages[i] \/ messages'[i] = ClearMessage(messages[i])
  BY DEF compact_clear_tool_results
<1> QED  BY <1>1, <1>2 DEF CleanAbove

LEMMA GonePoison ==
  ASSUME NEW status, Gone(status)
  PROVE  PoisonInv'
BY DEF Gone, PoisonInv, CleanAbove

LEMMA ReturnPoison ==
  ASSUME NEW r, Return(r), CleanAbove(0)
  PROVE  PoisonInv'
<1>1. CASE Gone(r)
  BY <1>1, GonePoison
<1>2. CASE pc' = "reset" /\ UNCHANGED messages
  BY <1>2 DEF PoisonInv, CleanAbove
<1> QED  BY <1>1, <1>2 DEF Return

LEMMA PoisonNext == TypeInv /\ PoisonInv /\ [Next]_vars => PoisonInv'
<1> SUFFICES ASSUME TypeInv, PoisonInv, [Next]_vars PROVE PoisonInv'
  OBVIOUS
<1> USE DEF memory
<1>0. messages \in Seq(Message)
  BY DEF TypeInv, TypeOK
<1>1. ASSUME messages' = messages, pc \notin {"off", "load", "prune"},
             pc' \notin {"off", "load", "prune"}
      PROVE  PoisonInv'
  BY <1>1 DEF PoisonInv, CleanAbove
<1>2. ASSUME NEW m \in Message, ~EmptyToolUse(m), messages' = Append(messages, m),
             pc \notin {"off", "load", "prune"}, pc' \notin {"off", "load", "prune"}
      PROVE  PoisonInv'
  <2>1. CleanAbove(0)
    BY <1>2 DEF PoisonInv
  <2>2. CleanAbove(0)'
    BY <1>0, <1>2, <2>1, AppendClean
  <2> QED  BY <1>2, <2>2 DEF PoisonInv
<1>3. CASE Resume
  <2>1. CASE LoadLine
    BY <2>1 DEF LoadLine, PoisonInv
  <2>2. CASE LoadEnd
    BY <1>0, <2>2 DEF LoadEnd, PoisonInv, CleanAbove
  <2>3. CASE PruneMessage
    <3>1. idx \in 1..Len(messages) /\ CleanAbove(idx)
      BY <2>3 DEF PruneMessage, PoisonInv, TypeInv, TypeOK, Bounds
    <3>2. pc' = "prune" /\ idx' = idx - 1
      BY <2>3 DEF PruneMessage
    <3>3. CASE messages' = PruneAt(messages, idx)
      BY <1>0, <3>1, <3>2, <3>3, PruneAtClean DEF PoisonInv, CleanAbove
    <3>4. CASE ~EmptyToolUse(messages[idx]) /\ UNCHANGED messages
      <4>1. \A i \in 1..Len(messages) : i > idx - 1 => ~EmptyToolUse(messages[i])
        BY <3>1, <3>4 DEF CleanAbove
      <4> QED  BY <3>2, <3>4, <4>1 DEF PoisonInv, CleanAbove
    <3> QED  BY <2>3, <3>3, <3>4 DEF PruneMessage
  <2>4. CASE PruneEnd
    <3>1. pc' \in {"heal", "oneshot", "reset"} /\ messages' = messages /\ CleanAbove(0)
      BY <2>4 DEF PruneEnd, Booted, PoisonInv
    <3> QED  BY <3>1 DEF PoisonInv, CleanAbove
  <2>5. CASE Heal
    BY <1>1, <2>5 DEF Heal, Booted
  <2> QED  BY <1>3, <2>1, <2>2, <2>3, <2>4, <2>5 DEF Resume
<1>4. CASE Prompting
  <2>1. CASE OneshotPrompt
    BY <1>2, <2>1, NewMessages, UserClean DEF OneshotPrompt
  <2>2. CASE ResetInterrupt \/ EnterRead \/ SaveUser
    BY <1>1, <2>2 DEF ResetInterrupt, EnterRead, SaveUser
  <2>3. CASE FgetsFails("eintr")
    BY <1>1, <2>3, GonePoison DEF FgetsFails
  <2> QED  BY <1>4, <2>1, <2>2, <2>3 DEF Prompting
<1>5. CASE ChatTurn
  <2>0. ASSUME NEW r, Return(r), pc \notin {"off", "load", "prune"}
        PROVE  PoisonInv'
    BY <2>0, ReturnPoison DEF PoisonInv
  <2>1. CASE IterLimit \/ TopInterrupted
    BY <2>0, <2>1 DEF IterLimit, TopInterrupted
  <2>2. CASE SendRequest \/ RewriteAndRetry \/ DispatchTool \/ SkipBlock \/ SaveResults
    BY <1>1, <2>2 DEF SendRequest, RewriteAndRetry, DispatchTool, SkipBlock, SaveResults
  <2>3. CASE DoTurn
    <3>1. CASE TurnInterrupted \/ TurnFailed \/ NothingToCompact
      BY <2>0, <3>1 DEF TurnInterrupted, TurnFailed, NothingToCompact
    <3>2. CASE Compact
      <4>1. CleanAbove(0)
        BY <3>2 DEF Compact, PoisonInv
      <4>2. CleanAbove(0)'
        BY <1>0, <3>2, <4>1, CompactClean DEF Compact
      <4> QED  BY <3>2, <4>2 DEF Compact, PoisonInv
    <3>3. ASSUME NEW r \in Responses, BrokenToolUse(r)
          PROVE  PoisonInv'
      BY <2>0, <3>3 DEF BrokenToolUse
    <3>4. ASSUME NEW r \in Responses, Answer(r)
          PROVE  PoisonInv'
      <4>1. r \in Seq(Slot) /\ assistant_msg(r) \in Message
        BY SlotBlock, SessionAssumption
      <4>2. ~EmptyToolUse(assistant_msg(r))
        BY <3>4, <4>1, AnswerClean DEF Answer
      <4> QED  BY <1>2, <3>4, <4>1, <4>2 DEF Answer
    <3> QED  BY <2>3, <3>1, <3>2, <3>3, <3>4 DEF DoTurn
  <2>4. CASE SaveAnswer
    BY <1>1, <2>0, <2>4 DEF SaveAnswer
  <2>5. CASE CollectResults
    <3>1. results_msg(results) \in Message
      BY NewMessages DEF TypeInv, TypeOK
    <3> QED  BY <1>2, <2>5, <3>1, UserClean DEF CollectResults
  <2> QED  BY <1>5, <2>1, <2>2, <2>3, <2>4, <2>5 DEF ChatTurn, Rounds
<1>6. CASE User
  <2>1. CASE ReadLine
    BY <1>2, <2>1, NewMessages, UserClean DEF ReadLine
  <2>2. CASE ReadEmptyLine
    BY <1>1, <2>2 DEF ReadEmptyLine
  <2>3. CASE FgetsFails("blocked")
    BY <1>1, <2>3, GonePoison DEF FgetsFails
  <2> QED  BY <1>6, <2>1, <2>2, <2>3 DEF User
<1>7. CASE \E continue, one \in BOOLEAN : Start(continue, one)
  BY <1>7 DEF Start, PoisonInv, CleanAbove
<1>8. CASE Sigint
  BY <1>8 DEF Sigint, PoisonInv, CleanAbove
<1>9. CASE Crash
  BY <1>9, GonePoison DEF Crash
<1>10. CASE UNCHANGED vars
  BY <1>10 DEF vars, PoisonInv, CleanAbove
<1> QED  BY <1>3, <1>4, <1>5, <1>6, <1>7, <1>8, <1>9, <1>10 DEF Next, Program

LEMMA PoisonInit == Init => PoisonInv
BY DEF Init, PoisonInv, CleanAbove

(***************************************************************************)
(* A tool_use without input stands alone in its message, in memory and in  *)
(* the file, if it does so in the files an earlier version left.           *)
(***************************************************************************)
SoloMessage == {m \in Message : HasEmptyUse(m) => EmptyToolUse(m)}

SoloLine == [msg : SoloMessage, shape : {"alone", "glued", "torn"}]

OldFilesSolo == \A f \in InitialDisks : f \in Seq(SoloLine)

SoloInv == messages \in Seq(SoloMessage) /\ disk \in Seq(SoloLine)

LEMMA DeleteSolo ==
  ASSUME NEW ms \in Seq(SoloMessage), NEW i \in 1..Len(ms)
  PROVE  Delete(ms, i) \in Seq(SoloMessage) /\ Len(Delete(ms, i)) = Len(ms) - 1
<1>1. Len(ms) - 1 \in Nat
  OBVIOUS
<1>2. \A j \in 1..(Len(ms) - 1) : ms[j] \in SoloMessage /\ ms[j + 1] \in SoloMessage
  OBVIOUS
<1> QED  BY <1>1, <1>2 DEF Delete

LEMMA PruneSolo ==
  ASSUME NEW ms \in Seq(SoloMessage), NEW i \in 1..Len(ms)
  PROVE  PruneAt(ms, i) \in Seq(SoloMessage)
<1> DEFINE rest == Delete(ms, i)
<1>1. rest \in Seq(SoloMessage)
  BY DeleteSolo
<1>2. CASE i <= Len(rest) /\ SingleToolResult(rest[i])
  <2>1. PruneAt(ms, i) = Delete(rest, i)
    BY <1>2 DEF PruneAt
  <2>2. i \in 1..Len(rest)
    BY <1>1, <1>2
  <2> HIDE DEF rest
  <2> QED  BY <1>1, <2>1, <2>2, DeleteSolo
<1>3. CASE ~(i <= Len(rest) /\ SingleToolResult(rest[i]))
  BY <1>1, <1>3 DEF PruneAt
<1> QED  BY <1>2, <1>3

LEMMA ClearSolo == \A m \in SoloMessage : ClearMessage(m) \in SoloMessage
<1> SUFFICES ASSUME NEW m \in SoloMessage PROVE ClearMessage(m) \in SoloMessage
  OBVIOUS
<1> DEFINE c == [k \in 1..Len(m.content) |-> ClearBlock(m.content[k])]
<1>1. m \in Message /\ m.content \in Seq(Block)
  BY DEF SoloMessage, Message
<1>2. ClearMessage(m) \in Message
  BY <1>1, ClearMessageIds
<1>3. ClearMessage(m).role = m.role /\ ClearMessage(m).content = c
  BY DEF ClearMessage
<1>4. Len(c) = Len(m.content) /\ DOMAIN c = DOMAIN m.content /\ DOMAIN c = 1..Len(m.content)
  BY <1>1
<1>5. ASSUME NEW k \in DOMAIN m.content
      PROVE  /\ c[k].type = m.content[k].type
             /\ c[k].body = "empty" <=> m.content[k].body = "empty"
  <2>1. m.content[k] \in Block /\ c[k] = ClearBlock(m.content[k])
    BY <1>1, <1>4, <1>5
  <2> QED  BY <2>1 DEF ClearBlock, Clearable, Block
<1> HIDE DEF c
<1>6. HasEmptyUse(ClearMessage(m)) => HasEmptyUse(m)
  BY <1>3, <1>4, <1>5 DEF HasEmptyUse
<1>7. EmptyToolUse(m) => EmptyToolUse(ClearMessage(m))
  <2>1. Len(m.content) = 1 => 1 \in DOMAIN m.content
    BY <1>1
  <2> QED  BY <1>3, <1>4, <1>5, <2>1 DEF EmptyToolUse
<1> QED  BY <1>2, <1>6, <1>7 DEF SoloMessage

LEMMA CompactSolo ==
  ASSUME NEW ms \in Seq(SoloMessage)
  PROVE  compact_clear_tool_results(ms) \in Seq(SoloMessage)
<1>1. \A i \in 1..Len(ms) : ms[i] \in SoloMessage /\ ClearMessage(ms[i]) \in SoloMessage
  BY ClearSolo
<1> QED  BY <1>1 DEF compact_clear_tool_results

(* What the program itself adds has no tool_use without input.             *)
LEMMA NewSolo ==
  /\ make_user_msg \in SoloMessage
  /\ \A r \in Seq(Slot) : ~Broken(r) => assistant_msg(r) \in SoloMessage
  /\ TypeInv /\ PairInv /\ CollectResults => results_msg(results) \in SoloMessage
<1>1. make_user_msg \in SoloMessage
  <2>1. make_user_msg.content = <<Text>> /\ DOMAIN <<Text>> = {1} /\ Text.type = "text"
    BY DEF make_user_msg, Text
  <2> QED  BY <2>1, NewMessages DEF SoloMessage, HasEmptyUse
<1>2. ASSUME NEW r \in Seq(Slot), ~Broken(r) PROVE assistant_msg(r) \in SoloMessage
  <2>1. assistant_msg(r) \in Message /\ assistant_msg(r).content = r
    BY SlotBlock DEF assistant_msg
  <2> QED  BY <1>2, <2>1 DEF SoloMessage, HasEmptyUse, Broken
<1>3. ASSUME TypeInv, PairInv, CollectResults PROVE results_msg(results) \in SoloMessage
  <2>1. results \in Seq(Block) /\ results_msg(results) \in Message /\ results_msg(results).content = results
    BY <1>3, NewMessages DEF TypeInv, TypeOK, results_msg
  <2>2. \A k \in DOMAIN results : results[k].type = "tool_result"
    BY <1>3 DEF CollectResults, PairInv, ResultsSoFar
  <2> QED  BY <2>1, <2>2 DEF SoloMessage, HasEmptyUse
<1> QED  BY <1>1, <1>2, <1>3

LEMMA SoloMemory ==
  ASSUME TypeInv, PairInv, SoloInv, [Next]_vars
  PROVE  messages' \in Seq(SoloMessage)
<1> USE DEF memory
<1>0. messages \in Seq(SoloMessage) /\ disk \in Seq(SoloLine) /\ messages \in Seq(Message)
  BY DEF SoloInv, TypeInv, TypeOK
<1>1. ASSUME messages' = messages \/ messages' = <<>> PROVE messages' \in Seq(SoloMessage)
  <2>1. <<>> \in Seq(SoloMessage)
    OBVIOUS
  <2> QED  BY <1>0, <1>1, <2>1
<1>2. ASSUME NEW m \in SoloMessage, messages' = Append(messages, m) PROVE messages' \in Seq(SoloMessage)
  BY <1>0, <1>2
<1>3. ASSUME NEW r, Return(r) PROVE messages' = messages \/ messages' = <<>>
  BY <1>3 DEF Return, Gone
<1>4. CASE Resume
  <2>1. CASE LoadLine
    <3>1. idx \in 1..Len(disk)
      BY <2>1 DEF LoadLine, TypeInv, TypeOK, Bounds
    <3>2. disk[idx].msg \in SoloMessage
      <4>1. disk[idx] \in SoloLine
        BY <1>0, <3>1
      <4> QED  BY <4>1 DEF SoloLine
    <3>3. messages' = messages \/ messages' = Append(messages, disk[idx].msg)
      BY <2>1 DEF LoadLine
    <3> QED  BY <1>1, <1>2, <3>2, <3>3
  <2>2. CASE PruneMessage
    <3>1. idx \in 1..Len(messages)
      BY <2>2 DEF PruneMessage, TypeInv, TypeOK, Bounds
    <3>2. messages' = messages \/ messages' = PruneAt(messages, idx)
      BY <2>2 DEF PruneMessage
    <3> QED  BY <1>0, <1>1, <3>1, <3>2, PruneSolo
  <2>3. CASE LoadEnd \/ PruneEnd \/ Heal
    BY <1>1, <2>3 DEF LoadEnd, PruneEnd, Heal
  <2> QED  BY <1>4, <2>1, <2>2, <2>3 DEF Resume
<1>5. CASE Prompting
  <2>1. CASE OneshotPrompt
    BY <1>2, <2>1, NewSolo DEF OneshotPrompt
  <2>2. CASE ResetInterrupt \/ EnterRead \/ SaveUser \/ FgetsFails("eintr")
    BY <1>1, <2>2 DEF ResetInterrupt, EnterRead, SaveUser, FgetsFails, Gone
  <2> QED  BY <1>5, <2>1, <2>2 DEF Prompting
<1>6. CASE ChatTurn
  <2>1. CASE Compact
    BY <1>0, <2>1, CompactSolo DEF Compact
  <2>2. ASSUME NEW r \in Responses, Answer(r) PROVE messages' \in Seq(SoloMessage)
    <3>1. assistant_msg(r) \in SoloMessage
      BY <2>2, NewSolo, SessionAssumption DEF Answer
    <3> QED  BY <1>2, <2>2, <3>1 DEF Answer
  <2>3. CASE CollectResults
    <3>1. results_msg(results) \in SoloMessage
      BY <2>3, NewSolo
    <3> QED  BY <1>2, <2>3, <3>1 DEF CollectResults
  <2>4. CASE TurnInterrupted \/ TurnFailed \/ NothingToCompact \/ \E r \in Responses : BrokenToolUse(r)
    BY <1>1, <1>3, <2>4 DEF TurnInterrupted, TurnFailed, NothingToCompact, BrokenToolUse
  <2>5. CASE IterLimit \/ TopInterrupted \/ SaveAnswer
    BY <1>1, <1>3, <2>5 DEF IterLimit, TopInterrupted, SaveAnswer
  <2>6. CASE SendRequest \/ RewriteAndRetry \/ DispatchTool \/ SkipBlock \/ SaveResults
    BY <1>1, <2>6 DEF SendRequest, RewriteAndRetry, DispatchTool, SkipBlock, SaveResults
  <2> QED  BY <1>6, <2>1, <2>2, <2>3, <2>4, <2>5, <2>6 DEF ChatTurn, DoTurn, Rounds
<1>7. CASE User
  <2>1. CASE ReadLine
    BY <1>2, <2>1, NewSolo DEF ReadLine
  <2>2. CASE ReadEmptyLine \/ FgetsFails("blocked")
    BY <1>1, <2>2 DEF ReadEmptyLine, FgetsFails, Gone
  <2> QED  BY <1>7, <2>1, <2>2 DEF User
<1>8. CASE \E continue, one \in BOOLEAN : Start(continue, one)
  BY <1>1, <1>8 DEF Start
<1>9. CASE Sigint \/ Crash \/ UNCHANGED vars
  BY <1>1, <1>9 DEF Sigint, Crash, Gone, vars
<1> QED  BY <1>4, <1>5, <1>6, <1>7, <1>8, <1>9 DEF Next, Program

LEMMA SoloLines ==
  /\ \A m \in SoloMessage : Line(m) \in SoloLine
  /\ Torn \in SoloLine
  /\ \A l \in SoloLine : Glue(l) \in SoloLine
<1>1. [role |-> "user", content |-> <<>>] \in SoloMessage
  <2>1. <<>> \in Seq(Block) /\ DOMAIN <<>> = {}
    OBVIOUS
  <2> QED  BY <2>1 DEF SoloMessage, Message, HasEmptyUse
<1>2. Torn \in SoloLine
  BY <1>1 DEF Torn, SoloLine
<1> QED  BY <1>2 DEF Line, Glue, SoloLine

LEMMA SoloWrite ==
  ASSUME TypeInv, SoloInv, NEW line \in SoloLine, NEW newline, Write(line, newline)
  PROVE  disk' \in Seq(SoloLine)
<1>1. CASE eol
  BY <1>1 DEF Write, SoloInv
<1>2. CASE ~eol
  <2>1. disk' = [disk EXCEPT ![Len(disk)] = Glue(disk[Len(disk)])]
    BY <1>2 DEF Write
  <2>2. Len(disk) \in 1..Len(disk) /\ disk \in Seq(SoloLine)
    BY <1>2 DEF TypeInv, Bounds, SoloInv
  <2>3. Glue(disk[Len(disk)]) \in SoloLine
    BY <2>2, SoloLines
  <2> QED  BY <2>1, <2>2, <2>3
<1> QED  BY <1>1, <1>2

LEMMA SoloAppend ==
  ASSUME TypeInv, SoloInv, NEW m \in SoloMessage, session_append(m)
  PROVE  disk' \in Seq(SoloLine)
<1>1. CASE Write(Line(m), TRUE) \/ Write(Line(m), FALSE)
  BY <1>1, SoloLines, SoloWrite
<1>2. CASE \E newline \in BOOLEAN : Write(Torn, newline)
  BY <1>2, SoloLines, SoloWrite
<1>3. CASE UNCHANGED disk
  BY <1>3 DEF SoloInv
<1> QED  BY <1>1, <1>2, <1>3 DEF session_append, file

LEMMA SoloRewrite ==
  ASSUME TypeInv, SoloInv, session_rewrite
  PROVE  disk' \in Seq(SoloLine)
<1>0. messages \in Seq(SoloMessage) /\ disk \in Seq(SoloLine)
  BY DEF SoloInv
<1>1. ASSUME NEW ms \in Seq(SoloMessage) PROVE FileOf(ms) \in Seq(SoloLine)
  <2>1. \A i \in 1..Len(ms) : Line(ms[i]) \in SoloLine
    BY SoloLines
  <2> QED  BY <2>1 DEF FileOf
<1>2. ASSUME NEW n \in 0..(Len(messages) - 1), ShortFile(n) PROVE disk' \in Seq(SoloLine)
  <2> DEFINE kept == FileOf(SubSeq(messages, 1, n))
  <2>1. SubSeq(messages, 1, n) \in Seq(SoloMessage) /\ messages[n + 1] \in SoloMessage
    BY <1>0
  <2>2. kept \in Seq(SoloLine)
    BY <1>1, <2>1
  <2>3. Line(messages[n + 1]) \in SoloLine /\ Torn \in SoloLine
    BY <2>1, SoloLines
  <2>4. disk' = kept \/ disk' = Append(kept, Torn) \/ disk' = Append(kept, Line(messages[n + 1]))
    BY <1>2 DEF ShortFile
  <2> HIDE DEF kept
  <2> QED  BY <2>2, <2>3, <2>4
<1>3. disk' = FileOf(messages) => disk' \in Seq(SoloLine)
  BY <1>0, <1>1
<1>4. UNCHANGED file => disk' \in Seq(SoloLine)
  BY <1>0 DEF file
<1> QED  BY <1>2, <1>3, <1>4 DEF session_rewrite

LEMMA SoloFile ==
  ASSUME TypeInv, SoloInv, [Next]_vars
  PROVE  disk' \in Seq(SoloLine)
<1> USE DEF file
<1>1. ASSUME disk' = disk PROVE disk' \in Seq(SoloLine)
  BY <1>1 DEF SoloInv
<1>2. ASSUME session_append(messages[Len(messages)]), Len(messages) >= 1
      PROVE  disk' \in Seq(SoloLine)
  <2>1. messages[Len(messages)] \in SoloMessage
    BY <1>2 DEF SoloInv
  <2> QED  BY <1>2, <2>1, SoloAppend
<1>3. CASE Heal \/ RewriteAndRetry
  BY <1>3, SoloRewrite DEF Heal, RewriteAndRetry
<1>4. CASE SaveUser \/ SaveAnswer \/ SaveResults
  BY <1>2, <1>4 DEF SaveUser, SaveAnswer, SaveResults, TypeInv, Bounds
<1>5. CASE LoadLine \/ LoadEnd \/ PruneMessage \/ PruneEnd
  BY <1>1, <1>5 DEF LoadLine, LoadEnd, PruneMessage, PruneEnd
<1>6. CASE OneshotPrompt \/ ResetInterrupt \/ EnterRead \/ User \/ FgetsFails("eintr")
  BY <1>1, <1>6 DEF OneshotPrompt, ResetInterrupt, EnterRead, User, ReadLine, ReadEmptyLine, FgetsFails
<1>7. CASE DoTurn
  BY <1>1, <1>7 DEF DoTurn, TurnInterrupted, TurnFailed, Compact, NothingToCompact, BrokenToolUse, Answer
<1>8. CASE IterLimit \/ TopInterrupted \/ SendRequest \/ DispatchTool \/ SkipBlock \/ CollectResults
  BY <1>1, <1>8 DEF IterLimit, TopInterrupted, SendRequest, DispatchTool, SkipBlock, CollectResults
<1>9. CASE Sigint \/ Crash \/ UNCHANGED vars \/ \E continue, one \in BOOLEAN : Start(continue, one)
  BY <1>1, <1>9 DEF Sigint, Crash, vars, Start
<1> QED  BY <1>3, <1>4, <1>5, <1>6, <1>7, <1>8, <1>9
         DEF Next, Program, Resume, Prompting, ChatTurn, Rounds

LEMMA SoloInit == ASSUME OldFilesSolo PROVE Init => SoloInv
BY DEF OldFilesSolo, Init, SoloInv

(* No request carries a tool_use without input, in whatever message and    *)
(* among whatever blocks, whatever writes fail and whenever the process is *)
(* killed (blocks_to_content, session_prune_empty_tool_use), if in the     *)
(* files of an earlier version such a tool_use is alone in its message.    *)
(* In other files pruning does not find it (main.c:1091), and it is sent.  *)
THEOREM RequestsClean == ASSUME OldFilesSolo PROVE Spec => []NeverSendsPoison
<1>1. SoloInv /\ PoisonInv => NeverSendsPoison
  <2> SUFFICES ASSUME SoloInv, PoisonInv, pc = "http", NEW i \in 1..Len(messages)
               PROVE  ~HasEmptyUse(messages[i])
    BY DEF NeverSendsPoison
  <2>1. messages[i] \in SoloMessage
    BY DEF SoloInv
  <2>2. ~EmptyToolUse(messages[i])
    BY DEF PoisonInv, CleanAbove
  <2> QED  BY <2>1, <2>2 DEF SoloMessage
<1>2. TypeInv /\ PairInv /\ SoloInv /\ [Next]_vars => SoloInv'
  BY SoloMemory, SoloFile DEF SoloInv
<1>3. Init => TypeInv /\ PairInv /\ PoisonInv /\ SoloInv
  BY TypeInit, PairInit, PoisonInit, SoloInit
<1>4. TypeInv /\ PairInv /\ PoisonInv /\ SoloInv /\ [Next]_vars
        => (TypeInv /\ PairInv /\ PoisonInv /\ SoloInv)'
  BY <1>2, TypeNext, PairNext, PoisonNext
<1> QED  BY <1>1, <1>3, <1>4, PTL DEF Spec

(***************************************************************************)
(* The exit status.                                                        *)
(***************************************************************************)
(* A one-shot process has no prompt to come back to, and ends as a whole.  *)
OneshotInv == oneshot => pc \notin AtPrompt \cup {"off"}

LEMMA OneshotNext == OneshotInv /\ [Next]_vars => OneshotInv'
<1> SUFFICES ASSUME OneshotInv, [Next]_vars PROVE OneshotInv'
  OBVIOUS
<1> USE DEF OneshotInv, AtPrompt
<1>1. ASSUME NEW r, Return(r) PROVE OneshotInv'
  BY <1>1 DEF Return, Gone
<1>2. CASE Resume
  BY <1>2 DEF Resume, LoadLine, LoadEnd, PruneMessage, PruneEnd, Heal, Booted
<1>3. CASE Prompting \/ User
  BY <1>3 DEF Prompting, OneshotPrompt, ResetInterrupt, EnterRead, FgetsFails, SaveUser, User,
              ReadLine, ReadEmptyLine, Gone
<1>4. CASE ChatTurn
  <2>1. CASE DoTurn
    BY <1>1, <2>1 DEF DoTurn, TurnInterrupted, TurnFailed, Compact, NothingToCompact,
                      BrokenToolUse, Answer
  <2>2. CASE IterLimit \/ TopInterrupted \/ SendRequest \/ RewriteAndRetry \/ SaveAnswer
    BY <1>1, <2>2 DEF IterLimit, TopInterrupted, SendRequest, RewriteAndRetry, SaveAnswer
  <2>3. CASE DispatchTool \/ SkipBlock \/ CollectResults \/ SaveResults
    BY <2>3 DEF DispatchTool, SkipBlock, CollectResults, SaveResults
  <2> QED  BY <1>4, <2>1, <2>2, <2>3 DEF ChatTurn, Rounds
<1>5. CASE \E continue, one \in BOOLEAN : Start(continue, one)
  BY <1>5 DEF Start
<1>6. CASE Sigint \/ Crash \/ UNCHANGED vars
  BY <1>6 DEF Sigint, Crash, Gone, vars
<1> QED  BY <1>2, <1>3, <1>4, <1>5, <1>6 DEF Next, Program

(* Which steps end a one-shot process with status 0.                       *)
LEMMA ExitsWithZero ==
  ASSUME [Next]_vars, OneshotInv, oneshot, pc # "off", pc' = "off", rc' = 0
  PROVE  IterLimit \/ (pc = "saveAssist" /\ ~has_tool_use(response))
<1> USE DEF OneshotInv, AtPrompt
<1>1. ASSUME NEW r, Return(r) PROVE r = 0
  BY <1>1 DEF Return, Gone
<1>2. CASE Resume
  BY <1>2 DEF Resume, LoadLine, LoadEnd, PruneMessage, PruneEnd, Heal, Booted
<1>6. CASE Sigint \/ Crash \/ UNCHANGED vars
  <2>1. CASE Crash
    BY <2>1 DEF Crash, Gone
  <2> QED  BY <1>6, <2>1 DEF Sigint, vars
<1>3. CASE Prompting \/ User
  BY <1>3 DEF Prompting, OneshotPrompt, ResetInterrupt, EnterRead, FgetsFails, SaveUser, User,
              ReadLine, ReadEmptyLine, Gone
<1>4. CASE ChatTurn
  <2>1. CASE DoTurn
    <3>1. ASSUME NEW r \in Responses, BrokenToolUse(r) \/ Answer(r) PROVE FALSE
      BY <1>1, <3>1 DEF BrokenToolUse, Answer
    <3> QED  BY <1>1, <2>1, <3>1 DEF DoTurn, TurnInterrupted, TurnFailed, Compact, NothingToCompact
  <2>2. CASE TopInterrupted \/ SendRequest \/ RewriteAndRetry
    BY <1>1, <2>2 DEF TopInterrupted, SendRequest, RewriteAndRetry
  <2>3. CASE DispatchTool \/ SkipBlock \/ CollectResults \/ SaveResults
    BY <2>3 DEF DispatchTool, SkipBlock, CollectResults, SaveResults
  <2>4. CASE SaveAnswer
    BY <2>4 DEF SaveAnswer
  <2> QED  BY <1>4, <2>1, <2>2, <2>3, <2>4 DEF ChatTurn, Rounds
<1>5. CASE \E continue, one \in BOOLEAN : Start(continue, one)
  BY <1>5 DEF Start
<1> QED  BY <1>2, <1>3, <1>4, <1>5, <1>6 DEF Next, Program

(* A one-shot process that exits with 0 has an answer that asks for no     *)
(* tool, or has used up MAX_TOOL_ITER (chat_turn, main.c:1272-1279).       *)
THEOREM ExitZeroIsEarned == Spec => ExitZeroMeansAnswered
<1> DEFINE Earned == \/ iter = MaxToolIter
                     \/ LET last == messages[Len(messages)]
                        IN  last.role = "assistant" /\ UseIds(last) = {}
<1>1. Init => OneshotInv
  BY DEF Init, OneshotInv
<1>2. TypeInv /\ PairInv /\ OneshotInv /\ [Next]_vars
        => [oneshot /\ pc' = "off" /\ rc' = 0 => Earned]_vars
  <2> SUFFICES ASSUME TypeInv, PairInv, OneshotInv, Next, oneshot, pc' = "off", rc' = 0
               PROVE  Earned
    OBVIOUS
  <2>1. pc # "off"
    BY DEF OneshotInv
  <2>2. CASE IterLimit
    BY <2>2 DEF IterLimit
  <2>3. CASE pc = "saveAssist" /\ ~has_tool_use(response)
    <3>1. PICK ms \in Seq(Message) : messages = Append(ms, assistant_msg(response))
      BY <2>3 DEF PairInv, AnswerPending
    <3>2. response \in Seq(Slot) /\ assistant_msg(response) \in Message
      BY SlotBlock DEF TypeInv, TypeOK
    <3>3. messages[Len(messages)] = assistant_msg(response)
      BY <3>1, <3>2
    <3>4. UseIds(assistant_msg(response)) = {} /\ assistant_msg(response).role = "assistant"
      BY <2>3, <3>2 DEF has_tool_use, UseIds, IdsOf, assistant_msg
    <3> QED  BY <3>3, <3>4
  <2> QED  BY <2>1, <2>2, <2>3, ExitsWithZero
<1> QED  BY <1>1, <1>2, OneshotNext, PairInit, PairNext, TypeInit, TypeNext, PTL
         DEF Spec, ExitZeroMeansAnswered

-----------------------------------------------------------------------------
(* The session file: when files do not fail, it is in step with memory at  *)
(* every point where the process can be killed.                            *)

MirrorInv ==
  /\ eol
  /\ \A i \in 1..Len(disk) : disk[i].shape = "alone"
  /\ pc = "off" => messages = <<>>
  /\ pc # "prune" => pruned = FALSE
  /\ pc = "load" => /\ Len(messages) = idx - 1
                    /\ idx - 1 <= Len(disk)
                    /\ \A i \in 1..(idx - 1) : messages[i] = disk[i].msg
  /\ pc = "prune" /\ pruned = FALSE => Saved(Len(messages))
  /\ DiskMirrorsMemory

FilesWork == Faults \subseteq {"crash"}

LEMMA AppendWorks ==
  ASSUME FilesWork, eol, NEW m, session_append(m)
  PROVE  disk' = Append(disk, Line(m)) /\ eol'
BY DEF FilesWork, session_append, Write

LEMMA RewriteWorks ==
  ASSUME FilesWork, session_rewrite
  PROVE  disk' = FileOf(messages) /\ eol'
BY DEF FilesWork, session_rewrite

(* A message taken into memory, before it is appended.                     *)
LEMMA SavedBeforeAppend ==
  ASSUME messages \in Seq(Message), disk \in Seq(FileLine), Saved(Len(messages)),
         NEW m \in Message, messages' = Append(messages, m), disk' = disk
  PROVE  Saved(Len(messages) - 1)'
<1>1. Len(messages') - 1 = Len(messages) /\ \A j \in 1..Len(messages) : messages'[j] = messages[j]
  OBVIOUS
<1> QED  BY <1>1 DEF Saved, LineOf

(* And after.                                                              *)
LEMMA SavedByAppend ==
  ASSUME messages \in Seq(Message), disk \in Seq(FileLine), Len(messages) >= 1,
         Saved(Len(messages) - 1), messages' = messages,
         disk' = Append(disk, Line(messages[Len(messages)]))
  PROVE  Saved(Len(messages))'
<1> DEFINE n == Len(messages)
           d == Len(disk)
<1>1. n \in Nat /\ d \in Nat /\ n >= 1 /\ n - 1 <= d
  BY DEF Saved
<1>2. Len(disk') = d + 1 /\ disk'[d + 1] = Line(messages[n]) /\ \A i \in 1..d : disk'[i] = disk[i]
  OBVIOUS
<1> HIDE DEF n, d
<1>3. \A j \in 1..(n - 1) : disk[d - (n - 1) + j] = Line(messages[j])
  BY DEF Saved, LineOf, n, d
<1>4. ASSUME NEW j \in 1..n
      PROVE  disk'[(d + 1) - n + j] = Line(messages[j])
  <2>1. CASE j = n
    BY <1>1, <1>2, <2>1
  <2>2. CASE j # n
    <3>1. j \in 1..(n - 1) /\ d - (n - 1) + j \in 1..d /\ (d + 1) - n + j = d - (n - 1) + j
      BY <1>1, <2>2
    <3> QED  BY <1>2, <1>3, <3>1
  <2> QED  BY <2>1, <2>2
<1>5. Len(messages') = n
  BY DEF n
<1>6. n <= Len(disk')
  BY <1>1, <1>2
<1>7. \A j \in 1..n : disk'[Len(disk') - n + j] = Line(messages'[j])
  BY <1>2, <1>4
<1> QED  BY <1>5, <1>6, <1>7 DEF Saved, LineOf

LEMMA SavedByRewrite ==
  ASSUME messages \in Seq(Message), messages' = messages, disk' = FileOf(messages)
  PROVE  Saved(Len(messages))'
<1>1. Len(disk') = Len(messages) /\ \A j \in 1..Len(messages) : disk'[j] = Line(messages[j])
  BY FileOfType
<1>2. Len(messages) \in Nat
  OBVIOUS
<1> QED  BY <1>1, <1>2 DEF Saved, LineOf

LEMMA SavedByCompact ==
  ASSUME messages \in Seq(Message), disk \in Seq(FileLine), Saved(Len(messages)),
         messages' = compact_clear_tool_results(messages), disk' = disk
  PROVE  SavedUncleared'
<1>1. /\ Len(messages') = Len(messages)
      /\ \A j \in 1..Len(messages) : SameButCleared(messages[j], messages'[j])
  BY CompactKeeps
<1>2. ASSUME NEW j \in 1..Len(messages)
      PROVE  LET line == disk[Len(disk) - Len(messages) + j]
             IN  line.shape = "alone" /\ SameButCleared(line.msg, messages'[j])
  <2>1. disk[Len(disk) - Len(messages) + j] = Line(messages[j]) /\ messages[j] \in Message
    BY DEF Saved, LineOf
  <2> QED  BY <1>1, <2>1, LineType
<1> QED  BY <1>1, <1>2 DEF Saved, SavedUncleared, LineOf

LEMMA AloneByAppend ==
  ASSUME disk \in Seq(FileLine), \A i \in 1..Len(disk) : disk[i].shape = "alone",
         NEW m \in Message, disk' = Append(disk, Line(m))
  PROVE  \A i \in 1..Len(disk') : disk'[i].shape = "alone"
BY LineType

LEMMA AloneByRewrite ==
  ASSUME messages \in Seq(Message), disk' = FileOf(messages)
  PROVE  \A i \in 1..Len(disk') : disk'[i].shape = "alone"
<1>1. \A i \in 1..Len(messages) : messages[i] \in Message
  OBVIOUS
<1> QED  BY <1>1, FileOfType, LineType

LEMMA EmptySaved ==
  ASSUME disk \in Seq(FileLine), messages = <<>>
  PROVE  Saved(Len(messages))
<1>1. Len(messages) = 0 /\ Len(disk) \in Nat
  OBVIOUS
<1> QED  BY <1>1 DEF Saved

-----------------------------------------------------------------------------
LEMMA GoneMirror ==
  ASSUME TypeInv, MirrorInv, NEW status, Gone(status), FileOK', eol',
         \A i \in 1..Len(disk') : disk'[i].shape = "alone"
  PROVE  MirrorInv'
BY DEF Gone, MirrorInv, DiskMirrorsMemory, AtPrompt

LEMMA ReturnMirror ==
  ASSUME TypeInv, MirrorInv, pc # "prune", NEW r, Return(r), FileOK', eol',
         \A i \in 1..Len(disk') : disk'[i].shape = "alone", Saved(Len(messages))'
  PROVE  MirrorInv'
<1>1. CASE Gone(r)
  BY <1>1, GoneMirror
<1>2. CASE pc' = "reset" /\ UNCHANGED <<messages, pruned>>
  BY <1>2 DEF MirrorInv, DiskMirrorsMemory, AtPrompt
<1> QED  BY <1>1, <1>2 DEF Return

(* Steps of the process that leave memory and file alone.                  *)
LEMMA QuietMirror ==
  ASSUME MirrorInv, UNCHANGED <<messages, pruned, file>>,
         pc \notin {"off", "load", "prune"}, pc' \notin {"off", "load", "prune"},
         Saved(Len(messages)), pc' \notin {"saveUser", "saveAssist", "saveResults", "rewrite"}
  PROVE  MirrorInv'
BY DEF MirrorInv, DiskMirrorsMemory, AtPrompt, Saved, LineOf, file

(* A step that takes a new message into memory.                            *)
LEMMA NewMirror ==
  ASSUME TypeInv, MirrorInv, Saved(Len(messages)), NEW m \in Message,
         messages' = Append(messages, m), UNCHANGED <<pruned, file>>, pc # "prune",
         pc' \in {"saveUser", "saveAssist", "saveResults"}
  PROVE  MirrorInv'
<1>1. messages \in Seq(Message) /\ disk \in Seq(FileLine) /\ disk' = disk /\ eol' = eol
  BY DEF TypeInv, TypeOK, file
<1>2. Saved(Len(messages) - 1)'
  BY <1>1, SavedBeforeAppend
<1> QED  BY <1>1, <1>2 DEF MirrorInv, DiskMirrorsMemory, AtPrompt

LEMMA MirrorNext ==
  ASSUME FilesWork
  PROVE  TypeInv /\ PairInv /\ MirrorInv /\ [Next]_vars => MirrorInv'
<1> SUFFICES ASSUME TypeInv, PairInv, MirrorInv, [Next]_vars PROVE MirrorInv'
  OBVIOUS
<1>0. /\ messages \in Seq(Message) /\ disk \in Seq(FileLine) /\ FileOK /\ eol
      /\ \A i \in 1..Len(disk) : disk[i].shape = "alone"
  BY DEF TypeInv, TypeOK, Bounds, FileOK, MirrorInv
<1>a. ASSUME NEW r, Return(r), UNCHANGED file, Saved(Len(messages)), pc # "prune",
             pc \notin {"off", "load"}
      PROVE  MirrorInv'
  <2>1. FileOK' /\ eol' /\ \A i \in 1..Len(disk') : disk'[i].shape = "alone"
    BY <1>0, <1>a DEF file, FileOK
  <2>2. CASE Gone(r)
    BY <2>1, <2>2, GoneMirror
  <2>3. CASE pc' = "reset" /\ UNCHANGED <<messages, pruned>>
    BY <1>a, <2>3, QuietMirror
  <2> QED  BY <1>a, <2>2, <2>3 DEF Return
<1>b. ASSUME UNCHANGED <<messages, pruned, file>>, Saved(Len(messages)),
             pc \notin {"off", "load", "prune"}, pc' \notin {"off", "load", "prune"},
             pc' \notin {"saveUser", "saveAssist", "saveResults", "rewrite"}
      PROVE  MirrorInv'
  BY <1>b, QuietMirror
<1>c. ASSUME session_append(messages[Len(messages)]), Len(messages) >= 1,
             Saved(Len(messages) - 1), messages' = messages
      PROVE  /\ FileOK' /\ eol' /\ \A i \in 1..Len(disk') : disk'[i].shape = "alone"
             /\ Saved(Len(messages))'
  <2>1. messages[Len(messages)] \in Message
    BY <1>0, <1>c
  <2>2. disk' = Append(disk, Line(messages[Len(messages)])) /\ eol'
    BY <1>0, <1>c, <2>1, AppendWorks
  <2>3. FileOK'
    BY <1>0, <1>c, <2>1, AppendType
  <2>4. \A i \in 1..Len(disk') : disk'[i].shape = "alone"
    BY <1>0, <2>1, <2>2, AloneByAppend
  <2> QED  BY <1>0, <1>c, <2>2, <2>3, <2>4, SavedByAppend
<1>d. ASSUME session_rewrite, messages' = messages
      PROVE  /\ eol' /\ \A i \in 1..Len(disk') : disk'[i].shape = "alone"
             /\ Saved(Len(messages))'
  BY <1>0, <1>d, RewriteWorks, AloneByRewrite, SavedByRewrite
<1>1. CASE Resume
  <2>1. CASE LoadLine
    <3>1. /\ idx \in 1..Len(disk) /\ disk[idx].shape = "alone" /\ Len(messages) = idx - 1
          /\ \A i \in 1..(idx - 1) : messages[i] = disk[i].msg
      BY <2>1 DEF LoadLine, MirrorInv, TypeInv, TypeOK, Bounds
    <3>2. disk[idx] \in FileLine
      BY <1>0, <3>1
    <3>3. disk[idx].msg \in Message
      BY <3>2 DEF FileLine
    <3>4. messages' = Append(messages, disk[idx].msg)
      BY <2>1, <3>1 DEF LoadLine
    <3>5. Len(messages') = idx /\ \A i \in 1..idx : messages'[i] = disk[i].msg
      BY <1>0, <3>1, <3>3, <3>4
    <3>6. idx' - 1 = idx /\ pc' = "load" /\ disk' = disk /\ eol' = eol /\ pruned' = pruned
      BY <2>1, <3>1 DEF LoadLine, file
    <3> QED  BY <1>0, <2>1, <3>1, <3>5, <3>6 DEF LoadLine, MirrorInv, DiskMirrorsMemory, AtPrompt
  <2>2. CASE LoadEnd
    <3>1. Len(messages) = Len(disk) /\ \A i \in 1..Len(disk) : messages[i] = disk[i].msg
      BY <1>0, <2>2 DEF LoadEnd, MirrorInv, TypeInv, TypeOK, Bounds
    <3>2. \A i \in 1..Len(disk) : disk[i] \in FileLine /\ disk[i].shape = "alone"
      BY <1>0
    <3>3. \A l \in FileLine : l.shape = "alone" => l = Line(l.msg)
      BY DEF FileLine, Line
    <3>4. Saved(Len(messages))
      BY <1>0, <3>1, <3>2, <3>3 DEF Saved, LineOf
    <3> QED  BY <1>0, <2>2, <3>4 DEF LoadEnd, MirrorInv, DiskMirrorsMemory, AtPrompt, Saved, LineOf, file
  <2>3. CASE PruneMessage
    <3>1. pc' = "prune" /\ disk' = disk /\ eol' = eol
      BY <2>3 DEF PruneMessage, file
    <3>2. CASE pruned' = TRUE
      BY <1>0, <3>1, <3>2 DEF MirrorInv, DiskMirrorsMemory, AtPrompt
    <3>3. CASE UNCHANGED <<messages, pruned>>
      BY <1>0, <2>3, <3>1, <3>3 DEF PruneMessage, MirrorInv, DiskMirrorsMemory, AtPrompt, Saved, LineOf
    <3> QED  BY <2>3, <3>2, <3>3 DEF PruneMessage
  <2>4. CASE PruneEnd
    <3>1. disk' = disk /\ eol' = eol /\ messages' = messages /\ pruned' = FALSE /\ pc = "prune"
      BY <2>4 DEF PruneEnd, file
    <3>2. CASE pruned
      BY <1>0, <2>4, <3>1, <3>2 DEF PruneEnd, MirrorInv, DiskMirrorsMemory, AtPrompt
    <3>3. CASE ~pruned
      <4>1. Saved(Len(messages)) /\ pc' \in {"oneshot", "reset"}
        <5>1. pruned = FALSE
          BY <3>3 DEF TypeInv, TypeOK
        <5>2. Saved(Len(messages))
          BY <3>1, <5>1 DEF MirrorInv
        <5> QED  BY <2>4, <3>3, <5>2 DEF PruneEnd, Booted
      <4> QED  BY <1>0, <3>1, <4>1 DEF MirrorInv, DiskMirrorsMemory, AtPrompt, Saved, LineOf
    <3> QED  BY <3>2, <3>3
  <2>5. CASE Heal
    <3>1. /\ eol' /\ \A i \in 1..Len(disk') : disk'[i].shape = "alone"
          /\ Saved(Len(messages))'
      BY <1>d, <2>5 DEF Heal, memory
    <3> QED  BY <2>5, <3>1 DEF Heal, Booted, memory, MirrorInv, DiskMirrorsMemory, AtPrompt
  <2> QED  BY <1>1, <2>1, <2>2, <2>3, <2>4, <2>5 DEF Resume
<1>2. ASSUME pc \in {"blocked", "eintr", "reset", "entering", "oneshot", "top", "http", "tools"}
      PROVE  Saved(Len(messages))
  BY <1>2 DEF MirrorInv, DiskMirrorsMemory, AtPrompt
<1>3. ASSUME pc \in {"saveUser", "saveAssist", "saveResults"}
      PROVE  Saved(Len(messages) - 1) /\ Len(messages) >= 1
  BY <1>3 DEF MirrorInv, DiskMirrorsMemory, TypeInv, Bounds
<1>4. ASSUME NEW from \in {"blocked", "eintr"}, FgetsFails(from)
      PROVE  MirrorInv'
  <2>1. FileOK' /\ eol' /\ \A i \in 1..Len(disk') : disk'[i].shape = "alone"
    BY <1>0, <1>4 DEF FgetsFails, file, FileOK
  <2>2. CASE Gone(0)
    BY <2>1, <2>2, GoneMirror
  <2>3. CASE pc' = "reset" /\ UNCHANGED <<oneshot, rc, memory>>
    BY <1>b, <1>2, <1>4, <2>3 DEF FgetsFails, memory
  <2> QED  BY <1>4, <2>2, <2>3 DEF FgetsFails
<1>5. CASE Prompting
  <2>1. CASE OneshotPrompt
    BY <1>2, <2>1, NewMirror, NewMessages DEF OneshotPrompt
  <2>2. CASE ResetInterrupt
    BY <1>b, <1>2, <2>2 DEF ResetInterrupt, memory
  <2>3. CASE EnterRead
    BY <1>b, <1>2, <2>3 DEF EnterRead, memory
  <2>4. CASE FgetsFails("eintr")
    BY <1>4, <2>4
  <2>5. CASE SaveUser
    <3>1. /\ eol' /\ \A i \in 1..Len(disk') : disk'[i].shape = "alone"
          /\ Saved(Len(messages))'
      BY <1>c, <1>3, <2>5 DEF SaveUser, memory
    <3> QED  BY <2>5, <3>1 DEF SaveUser, memory, MirrorInv, DiskMirrorsMemory, AtPrompt
  <2> QED  BY <1>5, <2>1, <2>2, <2>3, <2>4, <2>5 DEF Prompting
<1>6. CASE ChatTurn
  <2>1. CASE IterLimit \/ TopInterrupted
    BY <1>a, <1>2, <2>1 DEF IterLimit, TopInterrupted
  <2>2. CASE SendRequest
    BY <1>b, <1>2, <2>2 DEF SendRequest, memory
  <2>3. CASE DoTurn
    <3>1. CASE TurnInterrupted \/ TurnFailed \/ NothingToCompact
      BY <1>a, <1>2, <3>1 DEF TurnInterrupted, TurnFailed, NothingToCompact
    <3>2. CASE Compact
      <4>1. Saved(Len(messages))
        BY <1>2, <3>2 DEF Compact
      <4>2. SavedUncleared'
        BY <1>0, <3>2, <4>1, SavedByCompact DEF Compact, file
      <4> QED  BY <1>0, <3>2, <4>2 DEF Compact, file, MirrorInv, DiskMirrorsMemory, AtPrompt
    <3>3. ASSUME NEW r \in Responses, BrokenToolUse(r)
          PROVE  MirrorInv'
      BY <1>a, <1>2, <3>3 DEF BrokenToolUse
    <3>4. ASSUME NEW r \in Responses, Answer(r)
          PROVE  MirrorInv'
      <4>1. assistant_msg(r) \in Message
        BY SlotBlock, SessionAssumption
      <4> QED  BY <1>2, <3>4, <4>1, NewMirror DEF Answer
    <3> QED  BY <2>3, <3>1, <3>2, <3>3, <3>4 DEF DoTurn
  <2>4. CASE RewriteAndRetry
    <3>1. /\ eol' /\ \A i \in 1..Len(disk') : disk'[i].shape = "alone"
          /\ Saved(Len(messages))'
      BY <1>d, <2>4 DEF RewriteAndRetry
    <3> QED  BY <2>4, <3>1 DEF RewriteAndRetry, MirrorInv, DiskMirrorsMemory, AtPrompt
  <2>5. CASE SaveAnswer
    <3>1. CASE messages' = messages
      <4>1. /\ FileOK' /\ eol' /\ \A i \in 1..Len(disk') : disk'[i].shape = "alone"
            /\ Saved(Len(messages))'
        BY <1>c, <1>3, <2>5, <3>1 DEF SaveAnswer
      <4>2. CASE Return(0)
        BY <2>5, <4>1, <4>2, ReturnMirror DEF SaveAnswer
      <4>3. CASE pc' = "tools" /\ UNCHANGED <<oneshot, rc, interrupt, memory>>
        BY <2>5, <4>1, <4>3 DEF SaveAnswer, memory, MirrorInv, DiskMirrorsMemory, AtPrompt
      <4> QED  BY <2>5, <4>2, <4>3 DEF SaveAnswer
    <3>2. CASE Gone(0)
      <4>1. messages[Len(messages)] \in Message
        BY <1>0, <1>3, <2>5 DEF SaveAnswer
      <4>2. disk' = Append(disk, Line(messages[Len(messages)])) /\ eol'
        BY <1>0, <2>5, <4>1, AppendWorks DEF SaveAnswer
      <4>3. FileOK' /\ \A i \in 1..Len(disk') : disk'[i].shape = "alone"
        BY <1>0, <2>5, <4>1, <4>2, AppendType, AloneByAppend DEF SaveAnswer
      <4> QED  BY <3>2, <4>2, <4>3, GoneMirror
    <3> QED  BY <2>5, <3>1, <3>2 DEF SaveAnswer, Return, memory
  <2>6. CASE DispatchTool \/ SkipBlock
    BY <1>b, <1>2, <2>6 DEF DispatchTool, SkipBlock
  <2>7. CASE CollectResults
    <3>1. results_msg(results) \in Message
      BY NewMessages DEF TypeInv, TypeOK
    <3> QED  BY <1>2, <2>7, <3>1, NewMirror DEF CollectResults
  <2>8. CASE SaveResults
    <3>1. /\ eol' /\ \A i \in 1..Len(disk') : disk'[i].shape = "alone"
          /\ Saved(Len(messages))'
      BY <1>c, <1>3, <2>8 DEF SaveResults
    <3> QED  BY <2>8, <3>1 DEF SaveResults, MirrorInv, DiskMirrorsMemory, AtPrompt
  <2> QED  BY <1>6, <2>1, <2>2, <2>3, <2>4, <2>5, <2>6, <2>7, <2>8 DEF ChatTurn, Rounds
<1>7. CASE User
  <2>1. CASE ReadLine
    BY <1>2, <2>1, NewMirror, NewMessages DEF ReadLine
  <2>2. CASE ReadEmptyLine
    BY <1>b, <1>2, <2>2 DEF ReadEmptyLine, memory
  <2>3. CASE FgetsFails("blocked")
    BY <1>4, <2>3
  <2> QED  BY <1>7, <2>1, <2>2, <2>3 DEF User
<1>8. ASSUME NEW continue \in BOOLEAN, NEW one \in BOOLEAN, Start(continue, one)
      PROVE  MirrorInv'
  <2>1. messages = <<>> /\ idx = 1
    BY <1>8 DEF Start, PairInv
  <2>2. Saved(Len(messages))
    BY <1>0, <2>1, EmptySaved
  <2>3. pc' \in {"load", "oneshot", "reset"} /\ UNCHANGED <<messages, idx, pruned, disk, eol>> /\ pc = "off"
    BY <1>8 DEF Start, memory, file
  <2> QED  BY <1>0, <2>1, <2>2, <2>3 DEF MirrorInv, DiskMirrorsMemory, AtPrompt, Saved, LineOf
<1>9. CASE Sigint
  <2>1. UNCHANGED <<messages, idx, pruned, disk, eol>> /\ (pc' = pc \/ (pc = "blocked" /\ pc' = "eintr"))
    BY <1>9 DEF Sigint, memory, file
  <2> QED  BY <2>1 DEF MirrorInv, DiskMirrorsMemory, AtPrompt, Saved, SavedUncleared, LineOf
<1>10. CASE Crash
  <2>1. FileOK' /\ eol' /\ \A i \in 1..Len(disk') : disk'[i].shape = "alone"
    BY <1>0, <1>10 DEF Crash, file, FileOK
  <2> QED  BY <1>10, <2>1, GoneMirror DEF Crash
<1>11. CASE UNCHANGED vars
  BY <1>11 DEF vars, memory, file, MirrorInv, DiskMirrorsMemory, AtPrompt, Saved, SavedUncleared, LineOf
<1> QED  BY <1>1, <1>5, <1>6, <1>7, <1>8, <1>9, <1>10, <1>11 DEF Next, Program

LEMMA MirrorInit == Init => MirrorInv
<1> SUFFICES ASSUME Init PROVE MirrorInv
  OBVIOUS
<1>1. disk \in Seq(FileLine) /\ \A i \in 1..Len(disk) : disk[i].shape = "alone"
  BY SessionAssumption DEF Init
<1> QED  BY <1>1 DEF Init, MirrorInv, DiskMirrorsMemory, AtPrompt

(* When no write fails, a process killed at any point leaves a file from   *)
(* which `sa -c` gets its whole transcript, but for the message it was     *)
(* about to append and the clearing it was about to save (session_append,  *)
(* session_rewrite, session_load, session_prune_empty_tool_use).           *)
THEOREM FileMirrorsMemory ==
  ASSUME FilesWork
  PROVE  Spec => []DiskMirrorsMemory
<1>1. Init => TypeInv /\ PairInv /\ MirrorInv
  BY TypeInit, PairInit, MirrorInit
<1>2. TypeInv /\ PairInv /\ MirrorInv /\ [Next]_vars => (TypeInv /\ PairInv /\ MirrorInv)'
  BY TypeNext, PairNext, MirrorNext
<1>3. MirrorInv => DiskMirrorsMemory
  BY DEF MirrorInv
<1> QED  BY <1>1, <1>2, <1>3, PTL DEF Spec

-----------------------------------------------------------------------------
(***************************************************************************)
(* When nothing fails and nobody is killed, also what a later process      *)
(* loads is paired once it has been pruned.                                *)
(***************************************************************************)
MessagesOf(lines) == [i \in 1..Len(lines) |-> lines[i].msg]

OldFilesHealable == \A f \in InitialDisks : Healable(MessagesOf(f))

(* The transcript ends with the answer whose tools are still to run.       *)
EndsInAnswer(ms) == \E before \in Seq(Message) :
                      ms = Append(before, assistant_msg(response)) /\ Healable(before)

HealInv ==
  /\ pc \notin {"tools", "saveResults"} => Healable(MessagesOf(disk))
  /\ pc \in {"tools", "saveResults"} => EndsInAnswer(MessagesOf(disk))
  /\ pc \notin {"load", "saveAssist", "tools"} => Healable(messages)
  /\ pc \in {"saveAssist", "tools"} => EndsInAnswer(messages) /\ ~Broken(response)
  /\ pc = "saveUser" => messages[Len(messages)] = make_user_msg
  /\ pc = "saveResults" =>
       LET last == messages[Len(messages)]
       IN  /\ last.role = "user" /\ UseIds(last) = {}
           /\ ResultIds(last) = UseIds(assistant_msg(response))
           /\ ~Broken(response)

LEMMA MessagesOfLines ==
  ASSUME NEW lines \in Seq(FileLine)
  PROVE  /\ MessagesOf(lines) \in Seq(Message) /\ Len(MessagesOf(lines)) = Len(lines)
         /\ \A m \in Message : MessagesOf(Append(lines, Line(m))) = Append(MessagesOf(lines), m)
<1>1. \A i \in 1..Len(lines) : lines[i] \in FileLine /\ lines[i].msg \in Message
  <2>1. \A l \in FileLine : l.msg \in Message
    BY DEF FileLine
  <2> QED  BY <2>1
<1>2. MessagesOf(lines) \in Seq(Message) /\ Len(MessagesOf(lines)) = Len(lines)
  BY <1>1 DEF MessagesOf
<1>3. ASSUME NEW m \in Message
      PROVE  MessagesOf(Append(lines, Line(m))) = Append(MessagesOf(lines), m)
  <2> DEFINE longer == Append(lines, Line(m))
             n == Len(lines)
  <2>1. /\ Len(longer) = n + 1 /\ n \in Nat /\ longer[n + 1] = Line(m)
        /\ \A i \in 1..n : longer[i] = lines[i]
    OBVIOUS
  <2> HIDE DEF longer
  <2>2. Line(m).msg = m
    BY LineType
  <2>3. MessagesOf(longer) = [i \in 1..(n + 1) |-> IF i <= n THEN lines[i].msg ELSE m]
    <3>1. \A i \in 1..(n + 1) : longer[i].msg = IF i <= n THEN lines[i].msg ELSE m
      BY <2>1, <2>2
    <3> QED  BY <2>1, <3>1 DEF MessagesOf
  <2>4. Append(MessagesOf(lines), m) = [i \in 1..(n + 1) |-> IF i <= n THEN lines[i].msg ELSE m]
    BY <1>2 DEF MessagesOf
  <2> QED  BY <2>3, <2>4 DEF longer
<1> QED  BY <1>2, <1>3

LEMMA MessagesOfFile ==
  ASSUME NEW ms \in Seq(Message)
  PROVE  MessagesOf(FileOf(ms)) = ms
<1>1. Len(FileOf(ms)) = Len(ms) /\ \A i \in 1..Len(ms) : FileOf(ms)[i].msg = ms[i]
  <2>1. \A i \in 1..Len(ms) : ms[i] \in Message
    OBVIOUS
  <2> QED  BY <2>1, FileOfType, LineType
<1>2. MessagesOf(FileOf(ms)) = [i \in 1..Len(ms) |-> ms[i]]
  BY <1>1 DEF MessagesOf
<1> QED  BY <1>2

LEMMA EmptyHealable == Healable(<<>>)
BY DEF Healable

LEMMA GoneHeal ==
  ASSUME NEW status, Gone(status), Healable(MessagesOf(disk'))
  PROVE  HealInv'
BY EmptyHealable DEF Gone, HealInv

LEMMA ReturnHeal ==
  ASSUME NEW r, Return(r), Healable(MessagesOf(disk')), Healable(messages)
  PROVE  HealInv'
<1>1. CASE Gone(r)
  BY <1>1, GoneHeal
<1>2. CASE pc' = "reset" /\ UNCHANGED messages
  BY <1>2 DEF HealInv
<1> QED  BY <1>1, <1>2 DEF Return

(* Steps that leave memory, file and response alone.                       *)
LEMMA QuietHeal ==
  ASSUME HealInv, UNCHANGED <<messages, disk>>,
         pc' \notin {"saveUser", "saveAssist", "tools", "saveResults"},
         pc \notin {"load", "saveAssist", "tools", "saveResults"}
  PROVE  HealInv'
BY DEF HealInv

(* Resuming: what is loaded is what the file holds, and pruning it and     *)
(* writing it back keep it healable.                                       *)
LEMMA ResumeHeal ==
  ASSUME FilesWork, TypeInv, MirrorInv, HealInv, Resume
  PROVE  HealInv'
<1>0. messages \in Seq(Message) /\ disk \in Seq(FileLine)
  BY DEF TypeInv, TypeOK
<1>1. CASE LoadLine
  <2>1. pc = "load" /\ pc' = "load" /\ disk' = disk
    BY <1>1 DEF LoadLine, file
  <2> QED  BY <2>1 DEF HealInv
<1>2. CASE LoadEnd
  <2>1. Len(messages) = Len(disk) /\ \A i \in 1..Len(disk) : messages[i] = disk[i].msg
    BY <1>0, <1>2 DEF LoadEnd, MirrorInv, TypeInv, TypeOK, Bounds
  <2>2. messages = MessagesOf(disk)
    <3>1. messages = [i \in 1..Len(messages) |-> messages[i]]
      BY <1>0
    <3> QED  BY <2>1, <3>1 DEF MessagesOf
  <2>3. pc = "load" /\ pc' = "prune" /\ disk' = disk /\ messages' = messages
    BY <1>2 DEF LoadEnd, file
  <2> QED  BY <2>2, <2>3 DEF HealInv
<1>3. CASE PruneMessage
  <2>1. pc = "prune" /\ pc' = "prune" /\ disk' = disk /\ idx \in 1..Len(messages)
    BY <1>0, <1>3 DEF PruneMessage, file, TypeInv, TypeOK, Bounds
  <2>2. Healable(messages) /\ Healable(MessagesOf(disk))
    BY <2>1 DEF HealInv
  <2>3. Healable(messages')
    BY <1>0, <1>3, <2>1, <2>2, PruneAtHealable DEF PruneMessage
  <2> QED  BY <2>1, <2>2, <2>3 DEF HealInv
<1>4. CASE PruneEnd
  <2>1. pc = "prune" /\ pc' \in {"heal", "oneshot", "reset"} /\ disk' = disk /\ messages' = messages
    BY <1>4 DEF PruneEnd, Booted, file
  <2> QED  BY <2>1, QuietHeal
<1>5. CASE Heal
  <2>1. pc = "heal" /\ pc' \in {"oneshot", "reset"} /\ messages' = messages /\ disk' = FileOf(messages)
    BY <1>5, RewriteWorks DEF Heal, Booted, memory
  <2>2. MessagesOf(disk') = messages
    BY <1>0, <2>1, MessagesOfFile
  <2> QED  BY <2>1, <2>2 DEF HealInv
<1> QED  BY <1>1, <1>2, <1>3, <1>4, <1>5 DEF Resume

(* A prompt.                                                               *)
LEMMA PromptHeal ==
  ASSUME FilesWork, TypeInv, MirrorInv, HealInv, Prompting \/ User
  PROVE  HealInv'
<1>0. messages \in Seq(Message) /\ disk \in Seq(FileLine) /\ eol
  BY DEF TypeInv, TypeOK, MirrorInv
<1>1. ASSUME pc \in {"oneshot", "blocked"}, messages' = Append(messages, make_user_msg),
             pc' = "saveUser", disk' = disk
      PROVE  HealInv'
  <2>1. Healable(messages) /\ Healable(MessagesOf(disk))
    BY <1>1 DEF HealInv
  <2>2. make_user_msg \in Message /\ Healable(messages')
    BY <1>0, <1>1, <2>1, NewMessages, UserClean, HealablePlain
  <2>3. messages'[Len(messages')] = make_user_msg
    BY <1>0, <1>1, <2>2
  <2> QED  BY <1>1, <2>1, <2>2, <2>3 DEF HealInv
<1>2. CASE OneshotPrompt \/ ReadLine
  BY <1>1, <1>2 DEF OneshotPrompt, ReadLine, file
<1>3. CASE ResetInterrupt \/ EnterRead \/ ReadEmptyLine
  BY <1>3, QuietHeal DEF ResetInterrupt, EnterRead, ReadEmptyLine, memory, file
<1>4. CASE FgetsFails("eintr") \/ FgetsFails("blocked")
  <2>1. pc \in {"eintr", "blocked"} /\ disk' = disk
    BY <1>4 DEF FgetsFails, file
  <2>2. Healable(MessagesOf(disk))
    BY <2>1 DEF HealInv
  <2>3. CASE Gone(0)
    BY <2>1, <2>2, <2>3, GoneHeal
  <2>4. CASE pc' = "reset" /\ UNCHANGED <<oneshot, rc, memory>>
    BY <2>1, <2>4, QuietHeal DEF memory
  <2> QED  BY <1>4, <2>3, <2>4 DEF FgetsFails
<1>5. CASE SaveUser
  <2>1. /\ pc = "saveUser" /\ pc' = "top" /\ messages' = messages
        /\ session_append(messages[Len(messages)]) /\ Len(messages) >= 1
    BY <1>5 DEF SaveUser, memory, TypeInv, Bounds
  <2>2. Healable(messages) /\ Healable(MessagesOf(disk)) /\ messages[Len(messages)] = make_user_msg
    BY <2>1 DEF HealInv
  <2>3. MessagesOf(disk') = Append(MessagesOf(disk), make_user_msg)
    BY <1>0, <2>1, <2>2, NewMessages, AppendWorks, MessagesOfLines
  <2>4. Healable(MessagesOf(disk'))
    BY <1>0, <2>2, <2>3, NewMessages, UserClean, HealablePlain, MessagesOfLines
  <2> QED  BY <2>1, <2>2, <2>4 DEF HealInv
<1> QED  BY <1>2, <1>3, <1>4, <1>5 DEF Prompting, User

(* An answer: all of it is in memory before any of it is in the file.      *)
LEMMA AnswerHeal ==
  ASSUME FilesWork, TypeInv, MirrorInv, HealInv,
         SaveAnswer \/ \E r \in Responses : Answer(r)
  PROVE  HealInv'
<1>0. messages \in Seq(Message) /\ disk \in Seq(FileLine) /\ eol /\ response \in Seq(Slot)
  BY DEF TypeInv, TypeOK, MirrorInv
<1>1. ASSUME NEW r \in Responses, Answer(r)
      PROVE  HealInv'
  <2>1. /\ pc = "http" /\ pc' = "saveAssist" /\ disk' = disk /\ response' = r /\ ~Broken(r)
        /\ messages' = Append(messages, assistant_msg(r))
    BY <1>1 DEF Answer, file
  <2>2. Healable(messages) /\ Healable(MessagesOf(disk))
    BY <2>1 DEF HealInv
  <2>3. EndsInAnswer(messages)'
    BY <1>0, <2>1, <2>2 DEF EndsInAnswer
  <2> QED  BY <2>1, <2>2, <2>3 DEF HealInv
<1>2. CASE SaveAnswer
  <2> DEFINE a == assistant_msg(response)
  <2>1. /\ pc = "saveAssist" /\ session_append(messages[Len(messages)])
        /\ EndsInAnswer(messages) /\ ~Broken(response) /\ Healable(MessagesOf(disk))
    BY <1>2 DEF SaveAnswer, HealInv
  <2>2. a \in Message /\ ResultIds(a) = {} /\ ~EmptyToolUse(a)
    BY <1>0, <2>1, SlotBlock, AnswerIds, AnswerClean
  <2>3. PICK before \in Seq(Message) : messages = Append(before, a) /\ Healable(before)
    BY <2>1 DEF EndsInAnswer
  <2> HIDE DEF a
  <2>4. messages[Len(messages)] = a
    BY <2>2, <2>3
  <2>5. MessagesOf(disk) \in Seq(Message) /\ MessagesOf(disk') = Append(MessagesOf(disk), a)
    BY <1>0, <2>1, <2>2, <2>4, AppendWorks, MessagesOfLines
  <2>6. CASE has_tool_use(response) /\ pc' = "tools" /\ UNCHANGED <<oneshot, rc, interrupt, memory>>
    <3>1. EndsInAnswer(MessagesOf(disk))'
      BY <2>1, <2>5, <2>6 DEF EndsInAnswer, memory, a
    <3>2. EndsInAnswer(messages)'
      BY <2>1, <2>6 DEF EndsInAnswer, memory
    <3> QED  BY <2>1, <2>6, <3>1, <3>2 DEF HealInv, memory
  <2>7. CASE ~has_tool_use(response) /\ Return(0)
    <3>1. UseIds(a) = {}
      BY <2>7 DEF has_tool_use, UseIds, IdsOf, assistant_msg, a
    <3>2. Healable(messages)
      BY <2>2, <2>3, <3>1, HealablePlain
    <3>3. Healable(MessagesOf(disk'))
      BY <2>1, <2>2, <2>5, <3>1, HealablePlain
    <3> QED  BY <2>7, <3>2, <3>3, ReturnHeal
  <2> QED  BY <1>2, <2>6, <2>7 DEF SaveAnswer
<1> QED  BY <1>1, <1>2

(* The results of its tools.                                               *)
LEMMA ToolsHeal ==
  ASSUME FilesWork, TypeInv, MirrorInv, PairInv, HealInv,
         DispatchTool \/ SkipBlock \/ CollectResults \/ SaveResults
  PROVE  HealInv'
<1>0. /\ messages \in Seq(Message) /\ disk \in Seq(FileLine) /\ eol
      /\ response \in Seq(Slot) /\ results \in Seq(Block)
  BY DEF TypeInv, TypeOK, MirrorInv
<1> DEFINE a == assistant_msg(response)
           r == results_msg(results)
<1>1. CASE DispatchTool \/ SkipBlock
  <2>1. pc = "tools" /\ pc' = "tools" /\ UNCHANGED <<messages, response, disk>>
    BY <1>1 DEF DispatchTool, SkipBlock, file
  <2>2. EndsInAnswer(messages) /\ EndsInAnswer(MessagesOf(disk)) /\ ~Broken(response)
    BY <2>1 DEF HealInv
  <2>3. EndsInAnswer(messages)' /\ EndsInAnswer(MessagesOf(disk))'
    BY <2>1, <2>2 DEF EndsInAnswer
  <2> QED  BY <2>1, <2>2, <2>3 DEF HealInv
<1>2. CASE CollectResults
  <2>1. /\ pc = "tools" /\ pc' = "saveResults" /\ idx > Len(response)
        /\ messages' = Append(messages, r) /\ UNCHANGED <<response, disk>>
    BY <1>2 DEF CollectResults, file
  <2>2. EndsInAnswer(messages) /\ EndsInAnswer(MessagesOf(disk)) /\ ~Broken(response)
    BY <2>1 DEF HealInv
  <2>3. r \in Message /\ UseIds(r) = {} /\ ResultIds(r) = UseIds(a) /\ ~EmptyToolUse(r)
        /\ r.role = "user"
    BY <1>0, <2>1, NewMessages, UserClean, ResultsAnswer DEF PairInv, results_msg
  <2>4. a \in Message /\ ResultIds(a) = {} /\ ~EmptyToolUse(a)
    BY <1>0, <2>2, SlotBlock, AnswerIds, AnswerClean
  <2>5. PICK before \in Seq(Message) : messages = Append(before, a) /\ Healable(before)
    BY <2>2 DEF EndsInAnswer
  <2> HIDE DEF a, r
  <2>6. messages'[Len(messages')] = r
    BY <1>0, <2>1, <2>3
  <2>7. Healable(messages')
    BY <2>1, <2>3, <2>4, <2>5, HealableExchange
  <2>8. EndsInAnswer(MessagesOf(disk))'
    BY <2>1, <2>2 DEF EndsInAnswer
  <2> QED  BY <2>1, <2>2, <2>3, <2>6, <2>7, <2>8 DEF HealInv, a
<1>3. CASE SaveResults
  <2> DEFINE last == messages[Len(messages)]
  <2>1. pc = "saveResults" /\ pc' = "top" /\ session_append(last) /\ messages' = messages
        /\ Len(messages) >= 1
    BY <1>3 DEF SaveResults, TypeInv, Bounds
  <2>2. /\ EndsInAnswer(MessagesOf(disk)) /\ Healable(messages)
        /\ last.role = "user" /\ UseIds(last) = {} /\ ResultIds(last) = UseIds(a) /\ ~Broken(response)
    BY <2>1 DEF HealInv
  <2>3. a \in Message /\ ResultIds(a) = {} /\ ~EmptyToolUse(a)
    BY <1>0, <2>2, SlotBlock, AnswerIds, AnswerClean
  <2>4. PICK before \in Seq(Message) : MessagesOf(disk) = Append(before, a) /\ Healable(before)
    BY <2>2 DEF EndsInAnswer
  <2>5. last \in Message /\ ~EmptyToolUse(last)
    BY <1>0, <2>1, <2>2 DEF EmptyToolUse
  <2> HIDE DEF a, last
  <2>6. MessagesOf(disk') = Append(Append(before, a), last)
    BY <1>0, <2>1, <2>4, <2>5, AppendWorks, MessagesOfLines
  <2>7. Healable(MessagesOf(disk'))
    BY <2>2, <2>3, <2>4, <2>5, <2>6, HealableExchange
  <2> QED  BY <2>1, <2>2, <2>7 DEF HealInv
<1> QED  BY <1>1, <1>2, <1>3

LEMMA HealNext ==
  ASSUME Faults = {}
  PROVE  TypeInv /\ PairInv /\ MirrorInv /\ HealInv /\ [Next]_vars => HealInv'
<1> SUFFICES ASSUME TypeInv, PairInv, MirrorInv, HealInv, [Next]_vars PROVE HealInv'
  OBVIOUS
<1>0. messages \in Seq(Message) /\ disk \in Seq(FileLine) /\ FilesWork
  BY DEF TypeInv, TypeOK, FilesWork
<1>1. CASE Resume
  BY <1>0, <1>1, ResumeHeal
<1>2. CASE Prompting \/ User
  BY <1>0, <1>2, PromptHeal
<1>3. ASSUME NEW r, Return(r), UNCHANGED file, pc \in {"top", "http"}
      PROVE  HealInv'
  <2>1. Healable(messages) /\ Healable(MessagesOf(disk')) 
    BY <1>3 DEF HealInv, file
  <2> QED  BY <1>3, <2>1, ReturnHeal
<1>4. CASE ChatTurn
  <2>1. CASE IterLimit \/ TopInterrupted
    BY <1>3, <2>1 DEF IterLimit, TopInterrupted
  <2>2. CASE SendRequest
    BY <2>2, QuietHeal DEF SendRequest, memory, file
  <2>3. CASE TurnInterrupted \/ TurnFailed \/ NothingToCompact
    BY <1>3, <2>3 DEF TurnInterrupted, TurnFailed, NothingToCompact
  <2>4. ASSUME NEW r \in Responses, BrokenToolUse(r)
        PROVE  HealInv'
    BY <1>3, <2>4 DEF BrokenToolUse
  <2>5. CASE SaveAnswer \/ \E r \in Responses : Answer(r)
    BY <1>0, <2>5, AnswerHeal
  <2>6. CASE Compact
    <3>1. /\ pc = "http" /\ pc' = "rewrite" /\ disk' = disk
          /\ messages' = compact_clear_tool_results(messages)
      BY <2>6 DEF Compact, file
    <3>2. Healable(messages) /\ Healable(MessagesOf(disk))
      BY <3>1 DEF HealInv
    <3>3. Healable(messages')
      BY <1>0, <3>1, <3>2, CompactHealable
    <3> QED  BY <3>1, <3>2, <3>3 DEF HealInv
  <2>7. CASE RewriteAndRetry
    <3>1. pc = "rewrite" /\ pc' = "top" /\ messages' = messages /\ disk' = FileOf(messages)
      BY <1>0, <2>7, RewriteWorks DEF RewriteAndRetry
    <3>2. MessagesOf(disk') = messages
      BY <1>0, <3>1, MessagesOfFile
    <3> QED  BY <3>1, <3>2 DEF HealInv
  <2>8. CASE DispatchTool \/ SkipBlock \/ CollectResults \/ SaveResults
    BY <1>0, <2>8, ToolsHeal
  <2> QED  BY <1>4, <2>1, <2>2, <2>3, <2>4, <2>5, <2>6, <2>7, <2>8 DEF ChatTurn, Rounds, DoTurn
<1>5. ASSUME NEW continue \in BOOLEAN, NEW one \in BOOLEAN, Start(continue, one)
      PROVE  HealInv'
  <2>1. pc = "off" /\ pc' \in {"load", "oneshot", "reset"} /\ UNCHANGED <<messages, disk>>
    BY <1>5 DEF Start, memory, file
  <2> QED  BY <2>1 DEF HealInv
<1>6. CASE Sigint
  <2>1. UNCHANGED <<messages, response, disk>> /\ (pc' = pc \/ (pc = "blocked" /\ pc' = "eintr"))
    BY <1>6 DEF Sigint, memory, file
  <2> QED  BY <2>1 DEF HealInv, EndsInAnswer
<1>7. ~Crash
  BY DEF Crash
<1>8. CASE UNCHANGED vars
  BY <1>8 DEF vars, memory, file, HealInv, EndsInAnswer
<1> QED  BY <1>1, <1>2, <1>4, <1>5, <1>6, <1>7, <1>8 DEF Next, Program

LEMMA HealInit == ASSUME OldFilesHealable PROVE Init => HealInv
BY EmptyHealable DEF OldFilesHealable, Init, HealInv

(* Where no write fails and no process is killed, every request carries a  *)
(* paired transcript from its first message on, whatever number of `sa -c` *)
(* it was carried through, and so session_prune_empty_tool_use need not    *)
(* look further than the message behind ("paired tool_result always        *)
(* directly follows", main.c:1098).  The files of an earlier version may   *)
(* hold what pruning is for: empty tool uses, each alone in its message,   *)
(* with no answer or with one.                                             *)
THEOREM ResumedTranscriptPaired ==
  ASSUME Faults = {}, OldFilesHealable
  PROVE  Spec => []ResumedPaired
<1>0. FilesWork
  BY DEF FilesWork
<1>1. Init => TypeInv /\ PairInv /\ MirrorInv /\ HealInv /\ PoisonInv
  BY TypeInit, PairInit, MirrorInit, HealInit, PoisonInit
<1>2. TypeInv /\ PairInv /\ MirrorInv /\ HealInv /\ PoisonInv /\ [Next]_vars
        => (TypeInv /\ PairInv /\ MirrorInv /\ HealInv /\ PoisonInv)'
  BY <1>0, TypeNext, PairNext, MirrorNext, HealNext, PoisonNext
<1>3. TypeInv /\ HealInv /\ PoisonInv => ResumedPaired
  <2> SUFFICES ASSUME TypeInv, HealInv, PoisonInv, pc = "http" PROVE PairedFrom(messages, 0)
    BY DEF ResumedPaired
  <2>1. messages \in Seq(Message) /\ Healable(messages) /\ CleanAbove(0)
    BY DEF TypeInv, TypeOK, HealInv, PoisonInv
  <2>2. \A i \in 1..Len(messages) : ~EmptyToolUse(messages[i])
    BY <2>1 DEF CleanAbove
  <2> QED  BY <2>1, <2>2, HealedPaired
<1> QED  BY <1>1, <1>2, <1>3, PTL DEF Spec
=============================================================================
