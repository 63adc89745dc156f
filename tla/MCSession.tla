----------------------------- MODULE MCSession -----------------------------
(* Instances of Session for TLC.                                           *)
EXTENDS Session

MCToolId == {"a", "b"}

(* An answer, one tool, a remark with two tools, an empty body, a tool_use *)
(* cut in its input.                                                       *)
MCResponses ==
  { <<Text>>,
    <<ToolUse("a", "input")>>,
    <<Text, ToolUse("a", "input"), ToolUse("b", "input")>>,
    <<>>,
    <<Text, ToolUse("a", "broken")>> }

(* No tool_use beside the answer of a single tool.                         *)
MCFewResponses == { <<Text>>, <<ToolUse("a", "input")>>, <<ToolUse("a", "empty")>> }

EmptyUse == assistant_msg(<<ToolUse("a", "empty")>>)

Reply == assistant_msg(<<Text>>)

Results == results_msg(<<ToolResult("a", "long")>>)

(* A fresh directory, and files an older version left: a poisoned turn     *)
(* amid a conversation, and one whose process died before the result.  The *)
(* poisoned tool_use is alone in its message, or pruning would not see it. *)
MCDisks == { <<>>,
             FileOf(<<make_user_msg, EmptyUse, Results, Reply>>),
             FileOf(<<make_user_msg, EmptyUse>>) }

MCFreshDisk == { <<>> }
=============================================================================
