------------------------------ MODULE Messages ------------------------------
(***************************************************************************)
(* The transcript of a conversation as main.c keeps it in the cJSON array  *)
(* `messages` and, one message per line, in the session file.              *)
(*                                                                         *)
(* A message is a role and a list of content blocks.  A block keeps only   *)
(* what the program branches on: its type, the id that ties a tool_result  *)
(* to its tool_use, and the class of its payload.                          *)
(***************************************************************************)
EXTENDS Integers, Sequences

CONSTANTS
  ToolId,    (* The ids the server gives to tool_use blocks.             *)
  NoId,      (* The id of a block that has none.                         *)
  KeepLast   (* keep_last_n: compaction leaves this many messages alone. *)

ASSUME MessagesAssumption ==
  /\ NoId \notin ToolId
  /\ KeepLast \in Nat

(***************************************************************************)
(* The payload classes.  A tool_use carries "input" (a non-empty JSON      *)
(* object), "empty" ({}, or no input at all) or "broken" (JSON that does   *)
(* not parse).  A tool_result is "long" (more than 10 bytes), "short", or  *)
(* the placeholder "cleared".  Any other block is just "plain".            *)
(***************************************************************************)
Body == {"plain", "input", "empty", "broken", "long", "short", "cleared"}

BlockType == {"text", "tool_use", "tool_result", "other"}

Block == [type : BlockType, id : ToolId \cup {NoId}, body : Body]

Message == [role : {"user", "assistant"}, content : Seq(Block)]

Text == [type |-> "text", id |-> NoId, body |-> "plain"]

ToolUse(id, body) == [type |-> "tool_use", id |-> id, body |-> body]

ToolResult(id, body) == [type |-> "tool_result", id |-> id, body |-> body]

make_user_msg == [role |-> "user", content |-> <<Text>>]

assistant_msg(content) == [role |-> "assistant", content |-> content]

results_msg(results) == [role |-> "user", content |-> results]

-----------------------------------------------------------------------------
(***************************************************************************)
(* blocks_to_content returns NULL when some tool_use of the response has   *)
(* no usable input; otherwise the response is stored as it came.           *)
(***************************************************************************)
(* Mutant: only input that does not parse counts.                          *)
Broken_LetsEmptyPass(response) ==
  \E k \in DOMAIN response :
    response[k].type = "tool_use" /\ response[k].body = "broken"

Broken(response) ==
  \E k \in DOMAIN response :
    response[k].type = "tool_use" /\ response[k].body \in {"empty", "broken"}

(* Mutant: looks at the first block only.                                  *)
has_tool_use_First(response) ==
  response # <<>> /\ response[1].type = "tool_use"

has_tool_use(response) ==
  \E k \in DOMAIN response : response[k].type = "tool_use"

(***************************************************************************)
(* compact_clear_tool_results(messages, KeepLast).                         *)
(***************************************************************************)
(* Mutant: a cleared result is cleared again.                              *)
Clearable_Again(b) == b.type = "tool_result" /\ b.body # "short"

Clearable(b) == b.type = "tool_result" /\ b.body = "long"

(* Mutant: one message of the protected tail is compacted.                 *)
keep_from_OffByOne(ms) == IF Len(ms) >= KeepLast THEN Len(ms) - KeepLast + 1 ELSE 0

keep_from(ms) == IF Len(ms) > KeepLast THEN Len(ms) - KeepLast ELSE 0

ClearBlock(b) == IF Clearable(b) THEN [b EXCEPT !.body = "cleared"] ELSE b

ClearMessage(m) ==
  [role |-> m.role, content |-> [k \in 1..Len(m.content) |-> ClearBlock(m.content[k])]]

compact_clear_tool_results(ms) ==
  [i \in 1..Len(ms) |-> IF i <= keep_from(ms) THEN ClearMessage(ms[i]) ELSE ms[i]]

(* The C function returns the number of blocks it cleared; its caller only *)
(* asks whether that number is positive.                                   *)
SomethingToClear(ms) ==
  \E i \in 1..keep_from(ms) : \E k \in DOMAIN ms[i].content : Clearable(ms[i].content[k])

(* What blocks_to_content keeps out, wherever it stands in a message.      *)
HasEmptyUse(m) == \E k \in DOMAIN m.content :
                    m.content[k].type = "tool_use" /\ m.content[k].body = "empty"

(***************************************************************************)
(* session_prune_empty_tool_use looks for an assistant message that is one *)
(* single tool_use with an empty input, and for the message that is one    *)
(* single tool_result.                                                     *)
(***************************************************************************)
EmptyToolUse(m) ==
  /\ m.role = "assistant"
  /\ Len(m.content) = 1
  /\ m.content[1].type = "tool_use"
  /\ m.content[1].body = "empty"

SingleToolResult(m) == Len(m.content) = 1 /\ m.content[1].type = "tool_result"

(* cJSON_DeleteItemFromArray.                                              *)
Delete(ms, i) == [j \in 1..(Len(ms) - 1) |-> IF j < i THEN ms[j] ELSE ms[j + 1]]

(* Mutant: the result of a pruned tool_use stays.                          *)
PruneAt_KeepsResult(ms, i) == Delete(ms, i)

(* The body of the pruning loop at index i.                                *)
PruneAt(ms, i) ==
  LET rest == Delete(ms, i)
  IN  IF i <= Len(rest) /\ SingleToolResult(rest[i]) THEN Delete(rest, i) ELSE rest

-----------------------------------------------------------------------------
(***************************************************************************)
(* What the endpoint demands of a transcript: the tool_use blocks of a     *)
(* message are answered, id for id, by the next message, and a tool_result *)
(* answers a tool_use of the message before it.                            *)
(***************************************************************************)
IdsOf(m, type) ==
  {id \in ToolId \cup {NoId} :
     \E k \in DOMAIN m.content : m.content[k].type = type /\ m.content[k].id = id}

UseIds(m) == IdsOf(m, "tool_use")

ResultIds(m) == IdsOf(m, "tool_result")

UsesAnswered(ms, i) == i < Len(ms) /\ ResultIds(ms[i + 1]) = UseIds(ms[i])

ResultsAsked(ms, i) == i > 1 /\ UseIds(ms[i - 1]) = ResultIds(ms[i])

PairedFrom(ms, base) ==
  \A i \in (base + 1)..Len(ms) :
    /\ UseIds(ms[i]) # {} => UsesAnswered(ms, i)
    /\ ResultIds(ms[i]) # {} => ResultsAsked(ms, i)

(* m' is m, or m with some of its tool results replaced by "[cleared]".    *)
SameButCleared(m, mm) ==
  /\ mm.role = m.role
  /\ Len(mm.content) = Len(m.content)
  /\ \A k \in 1..Len(m.content) :
       mm.content[k] = m.content[k] \/ (Clearable(m.content[k]) /\ mm.content[k] = ClearBlock(m.content[k]))
=============================================================================
