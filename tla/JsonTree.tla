------------------------------ MODULE JsonTree ------------------------------
(***************************************************************************)
(* Who owns the nodes of a tree.  tinyjson.h links the children of a node  *)
(* through next, deletes a node with all that follow it, and has nodes     *)
(* that refer to the children of another; main.c keeps the messages and    *)
(* the tools for the life of the process and makes everything else for a   *)
(* step of a turn.                                                         *)
(*                                                                         *)
(* A pointer is the number of a live cell or Nil.  Keys are left out, each *)
(* belongs to its node from first to last.                                 *)
(***************************************************************************)
EXTENDS Integers, Sequences, FiniteSets

CONSTANTS
  Nil,
  MaxMessages,   (* Bound of the model: the length of the list.            *)
  Lines,         (* The contents of the messages in an old session file,   *)
  Answers        (* and of those that are streamed: their blocks.          *)

Kind == {"text", "tool_use", "no_input", "tool_result"}

ASSUME NilAssumption      == Nil \notin Nat \ {0}
ASSUME MessagesAssumption == MaxMessages \in Nat
ASSUME LinesAssumption    == Lines \subseteq Seq(Kind)
ASSUME AnswersAssumption  == Answers \subseteq Seq({"text", "tool_use"})

VARIABLES
  heap,       (* The nodes, the strings, and whether free was used right.  *)
  list,       (* messages                                                  *)
  tools,
  local,      (* The tree that chat_turn is about to delete or to hang up. *)
  at          (* What comes next.                                          *)

treeVars == <<heap, list, tools, local, at>>

NewCell(cells) == CHOOSE n \in 1..(Cardinality(cells) + 1) : n \notin cells

NewNode(h) == NewCell(DOMAIN h.nodes)

-----------------------------------------------------------------------------
(* tinyjson.h                                                              *)

cj_new(h, str) ==
  LET s    == IF str THEN NewCell(h.strings) ELSE Nil
      node == [child |-> Nil, next |-> Nil, prev |-> Nil, is_ref |-> FALSE, str |-> s]
  IN  [h EXCEPT !.nodes   = [n \in DOMAIN h.nodes \cup {NewNode(h)} |->
                               IF n = NewNode(h) THEN node ELSE h.nodes[n]],
                !.strings = @ \cup ({s} \ {Nil})]

Further(pointers, seen) == seen \cup UNION {pointers[p] : p \in seen \cap DOMAIN pointers}

(* Where a run along the pointers of the cells comes from n.               *)
Reached(pointers, n) ==
  LET run[k \in 0..Cardinality(DOMAIN pointers)] ==
        IF k = 0 THEN {n} ELSE Further(pointers, run[k - 1])
  IN  run[Cardinality(DOMAIN pointers)]

Nexts(h) == [n \in DOMAIN h.nodes |-> {h.nodes[n].next} \ {Nil}]

LastOf(h, first) == CHOOSE n \in Reached(Nexts(h), first) : h.nodes[n].next = Nil

cj_append_child(h, parent, item) ==
  LET first == h.nodes[parent].child
      last  == LastOf(h, first)
      own   == [h EXCEPT !.nodes[item].next = Nil]
  IN  IF first = Nil THEN [own EXCEPT !.nodes[item].prev = Nil, !.nodes[parent].child = item]
      ELSE [own EXCEPT !.nodes[last].next = item, !.nodes[item].prev = last]

(* cJSON_Add...ToObject, or to an array, of a node made for it.            *)
Add(h, parent, str) == cj_append_child(cj_new(h, str), parent, NewNode(h))

(* Mutant: a reference is taken for an owner.                              *)
Owned_Always(node) == node.child

Owned(node) == IF node.is_ref THEN Nil ELSE node.child

Pointers(h) == [n \in DOMAIN h.nodes |-> {Owned(h.nodes[n]), h.nodes[n].next} \ {Nil}]

(* A cell that is reached on two ways is freed twice, and so is a string   *)
(* of two nodes.                                                           *)
FreedOnce(h, item, freed) ==
  /\ freed \subseteq DOMAIN h.nodes
  /\ \A n \in freed :
       /\ item \notin Pointers(h)[n]
       /\ Owned(h.nodes[n]) = h.nodes[n].next => h.nodes[n].next = Nil
       /\ h.nodes[n].str \in h.strings \cup {Nil}
       /\ \A m \in freed \ {n} : /\ Pointers(h)[m] \cap Pointers(h)[n] = {}
                                 /\ h.nodes[m].str = h.nodes[n].str => h.nodes[m].str = Nil

(* A node, what it owns, and all that come behind it.                      *)
cJSON_Delete(h, item) ==
  LET freed == Reached(Pointers(h), item)
  IN  [nodes   |-> [n \in DOMAIN h.nodes \ freed |-> h.nodes[n]],
       strings |-> h.strings \ {h.nodes[n].str : n \in freed \cap DOMAIN h.nodes},
       sound   |-> h.sound /\ FreedOnce(h, item, freed)]

AddItemReference(h, object, item) ==
  LET ref == NewNode(h)
      new == cj_new(h, FALSE)
      it  == h.nodes[item]
  IN  cj_append_child(
        [new EXCEPT !.nodes[ref] = [@ EXCEPT !.is_ref = TRUE, !.child = it.child, !.str = it.str]],
        object, ref)

After(h, item) == IF item = Nil THEN Nil ELSE h.nodes[item].next

(* The item that index steps lead to from c.                               *)
GetItem(h, c, index) ==
  LET run[k \in 0..index] == IF k = 0 THEN c ELSE After(h, run[k - 1])
  IN  run[index]

cJSON_GetArrayItem(h, array, index) ==
  IF array = Nil THEN Nil ELSE GetItem(h, h.nodes[array].child, index)

Unlink(h, array, c) ==
  LET node   == h.nodes[c]
      before == IF node.prev = Nil THEN [h EXCEPT !.nodes[array].child = node.next]
                ELSE [h EXCEPT !.nodes[node.prev].next = node.next]
      behind == IF node.next = Nil THEN before
                ELSE [before EXCEPT !.nodes[node.next].prev = node.prev]
  IN  [behind EXCEPT !.nodes[c].next = Nil, !.nodes[c].prev = Nil]

cJSON_DeleteItemFromArray(h, array, index) ==
  LET c == cJSON_GetArrayItem(h, array, index)
  IN  IF c = Nil THEN h ELSE cJSON_Delete(Unlink(h, array, c), c)

cJSON_SetValuestring(h, item) ==
  LET kept == h.strings \ {h.nodes[item].str}
      s    == NewCell(kept)
  IN  [h EXCEPT !.nodes[item].str = s, !.strings = kept \cup {s},
                !.sound = @ /\ h.nodes[item].str \in h.strings]

-----------------------------------------------------------------------------
(* main.c: what messages are made of.                                      *)

AddStrings(h, object, n) ==
  LET two == Add(Add(h, object, TRUE), object, TRUE)
  IN  IF n = 2 THEN two ELSE Add(two, object, TRUE)

(* A block of a message: two or three strings, and a tool_use has an input *)
(* besides, which in an old file may be empty.                             *)
AddBlock(h, array, kind) ==
  LET obj     == NewNode(h)
      strings == AddStrings(Add(h, array, FALSE), obj, IF kind = "text" THEN 2 ELSE 3)
      input   == Add(strings, obj, FALSE)
  IN  IF kind \in {"text", "tool_result"} THEN strings
      ELSE IF kind = "no_input" THEN input ELSE Add(input, NewNode(strings), TRUE)

AddBlocks(h, array, kinds) ==
  LET run[k \in 0..Len(kinds)] == IF k = 0 THEN h ELSE AddBlock(run[k - 1], array, kinds[k])
  IN  run[Len(kinds)]

(* An array of blocks of its own.                                          *)
Content(h, kinds) == AddBlocks(cj_new(h, FALSE), NewNode(h), kinds)

MakeMessage(h, kinds) ==
  LET obj  == NewNode(h)
      role == Add(cj_new(h, FALSE), obj, TRUE)
  IN  AddBlocks(Add(role, obj, FALSE), NewNode(role), kinds)

(* An object with a member of its own.                                     *)
Object(h) == Add(cj_new(h, FALSE), NewNode(h), TRUE)

Size(h) == Cardinality({i \in 0..MaxMessages : cJSON_GetArrayItem(h, list, i) # Nil})

Room == Size(heap) < MaxMessages

-----------------------------------------------------------------------------
(* And what happens to them.                                               *)

NoTree == [nodes |-> [n \in {} |-> Nil], strings |-> {}, sound |-> TRUE]

TreeInit ==
  /\ heap = cj_new(NoTree, FALSE) /\ list = NewNode(NoTree)
  /\ tools = Nil /\ local = Nil /\ at = "load"

Become(h, step) == heap' = h /\ at' = step

(* A line that breaks off leaves a piece of a tree, which is deleted.      *)
LoadLine ==
  /\ at = "load" /\ Room
  /\ \E line \in Lines :
       LET h == MakeMessage(heap, line)
       IN  \/ Become(cj_append_child(h, list, NewNode(heap)), "load")
           \/ Become(cJSON_Delete(h, NewNode(heap)), "load")
  /\ UNCHANGED <<list, tools, local>>

(* session_prune_empty_tool_use takes a message out, and perhaps the next. *)
Prune ==
  /\ at \in {"load", "pruned"} /\ Size(heap) > 0
  /\ \E i \in 0..(Size(heap) - 1) :
       LET h == cJSON_DeleteItemFromArray(heap, list, i)
       IN  Become(h, "pruned") \/ Become(cJSON_DeleteItemFromArray(h, list, i), "pruned")
  /\ UNCHANGED <<list, tools, local>>

MakeTools ==
  /\ at \in {"load", "pruned"} /\ tools' = NewNode(heap)
  /\ LET Tool(h) == AddStrings(Add(h, NewNode(heap), FALSE), NewNode(h), 2)
     IN  Become(Tool(Tool(Tool(cj_new(heap, FALSE)))), "prompt")
  /\ UNCHANGED <<list, local>>

Prompt ==
  /\ at = "prompt" /\ Room
  /\ Become(cj_append_child(MakeMessage(heap, <<"text">>), list, NewNode(heap)), "top")
  /\ UNCHANGED <<list, tools, local>>

Interrupted == at = "top" /\ Become(heap, "prompt") /\ UNCHANGED <<list, tools, local>>

MakeRequest ==
  /\ at = "top" /\ local' = NewNode(heap)
  /\ LET req     == NewNode(heap)
         model   == Add(cj_new(heap, FALSE), req, TRUE)
         system  == Add(Add(model, req, FALSE), req, TRUE)
         refs    == AddItemReference(AddItemReference(system, req, list), req, tools)
     IN  Become(Add(refs, req, FALSE), "printed")
  /\ UNCHANGED <<list, tools>>

DeleteRequest ==
  /\ at = "printed" /\ Become(cJSON_Delete(heap, local), "answer")
  /\ local' = Nil /\ UNCHANGED <<list, tools>>

(* An error body that parses is deleted once it has been looked at.        *)
TurnFails ==
  /\ at = "answer"
  /\ LET body == Add(cj_new(heap, FALSE), NewNode(heap), FALSE)
     IN  Become(cJSON_Delete(Add(body, NewNode(cj_new(heap, FALSE)), TRUE), NewNode(heap)), "prompt")
  /\ UNCHANGED <<list, tools, local>>

(* The content of a result is the last of its three strings.               *)
Compact ==
  /\ at = "answer"
  /\ \E i \in 0..(Size(heap) - 1) :
       LET content == cJSON_GetArrayItem(heap, cJSON_GetArrayItem(heap, list, i), 1)
           block   == cJSON_GetArrayItem(heap, content, 0)
           text    == cJSON_GetArrayItem(heap, block, 2)
       IN  /\ text # Nil
           /\ heap.nodes[text].next = Nil /\ heap.nodes[text].str # Nil
           /\ Become(cJSON_SetValuestring(heap, text), "top")
  /\ UNCHANGED <<list, tools, local>>

(* blocks_to_content, up to a tool_use whose input is no good, if any.     *)
MakeContent ==
  /\ at = "answer" /\ Room /\ local' = NewNode(heap)
  /\ \E blocks \in Answers, good \in BOOLEAN :
       Become(Content(heap, blocks),
              IF ~good THEN "discard"
              ELSE IF \E i \in 1..Len(blocks) : blocks[i] = "tool_use" THEN "tools" ELSE "said")
  /\ UNCHANGED <<list, tools>>

(* The block that is being made, with an empty input or none, and the rest. *)
Discard ==
  /\ at = "discard"
  /\ LET obj   == NewNode(heap)
         half  == AddStrings(cj_new(heap, FALSE), obj, 3)
         input == cj_new(half, FALSE)
     IN  \/ Become(cJSON_Delete(cJSON_Delete(cJSON_Delete(input, NewNode(half)), obj), local), "prompt")
         \/ Become(cJSON_Delete(cJSON_Delete(half, obj), local), "prompt")
  /\ local' = Nil /\ UNCHANGED <<list, tools>>

(* The message of the content or the results that are in local.            *)
HangLocal(step) ==
  LET msg  == NewNode(heap)
      full == cj_append_child(Object(heap), msg, local)
  IN  /\ Become(cj_append_child(full, list, msg), step)
      /\ local' = Nil /\ UNCHANGED <<list, tools>>

Said == at = "said" /\ HangLocal("prompt")

CallTools == at = "tools" /\ HangLocal("results")

(* One result for each call; the input is parsed a second time for them.   *)
MakeResults ==
  /\ at = "results" /\ local' = NewNode(heap)
  /\ \E blocks \in Answers :
       LET calls   == {i \in 1..Len(blocks) : blocks[i] = "tool_use"}
           results == cj_new(heap, FALSE)
           called  == cJSON_Delete(Object(results), NewNode(results))
       IN  /\ calls # {}
           /\ Become(AddBlocks(called, NewNode(heap), [i \in 1..Cardinality(calls) |-> "tool_result"]),
                     "answered")
  /\ UNCHANGED <<list, tools>>

Answered == at = "answered" /\ HangLocal("top")

Exit ==
  /\ at = "prompt"
  /\ Become(cJSON_Delete(cJSON_Delete(heap, list), tools), "gone")
  /\ list' = Nil /\ tools' = Nil /\ UNCHANGED local

TreeNext ==
  \/ LoadLine \/ Prune \/ MakeTools \/ Prompt \/ Interrupted \/ MakeRequest \/ DeleteRequest
  \/ TurnFails \/ Compact \/ MakeContent \/ Discard \/ Said \/ CallTools \/ MakeResults \/ Answered \/ Exit

TreeSpec == TreeInit /\ [][TreeNext]_treeVars

-----------------------------------------------------------------------------
(* The pointers a cell is owned by: those of the program and those a       *)
(* cJSON_Delete follows.                                                   *)
Owners(n) ==
  {<<"program", v>> : v \in {v \in {"list", "tools", "local"} :
                               n = [list |-> list, tools |-> tools, local |-> local][v]}} \cup
  {<<"child", p>> : p \in {p \in DOMAIN heap.nodes : Owned(heap.nodes[p]) = n}} \cup
  {<<"next", p>> : p \in {p \in DOMAIN heap.nodes : heap.nodes[p].next = n}}

(* Every pointer of a live node leads to a live cell, every node has one   *)
(* owner and every string one node: nothing is freed twice, used after it  *)
(* was freed, or forgotten, neither by the requests whose arrays are       *)
(* references (main.c:1118) nor on the ways out of a turn, and at the end  *)
(* nothing is left.                                                        *)
HeapExact ==
  /\ heap.sound
  /\ \A n \in DOMAIN heap.nodes :
       /\ Cardinality(Owners(n)) = 1
       /\ {heap.nodes[n].child, heap.nodes[n].next, heap.nodes[n].prev} \subseteq DOMAIN heap.nodes \cup {Nil}
  /\ \A s \in heap.strings : Cardinality({n \in DOMAIN heap.nodes : heap.nodes[n].str = s}) = 1
  /\ \A n \in DOMAIN heap.nodes : heap.nodes[n].str \in heap.strings \cup {Nil}
  /\ {list, tools, local} \subseteq DOMAIN heap.nodes \cup {Nil}
  /\ at = "gone" => DOMAIN heap.nodes = {} /\ heap.strings = {}
=============================================================================
