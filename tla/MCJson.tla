------------------------------- MODULE MCJson -------------------------------
(* Strings of a quote, a newline, a control character and a byte of UTF-8; *)
(* lines with blanks, a member of each kind, escapes of one, two and three *)
(* bytes and of NUL, a bare control character, trailing text, and three    *)
(* that are no JSON.                                                       *)
(*                                                                         *)
(* The bytes of the file and the nodes of the trees share nothing: a       *)
(* behaviour is about one or the other.                                    *)
EXTENDS SessionBytes, JsonTree

MCContents == { <<Quote>>, <<Newline, 195>>, <<31>> }

(* {"k":v}                                                                 *)
Pair(v) == <<123, 34, 107, 34, 58>> \o v \o <<125>>

Unicode(digits) == <<34, 92, 117>> \o digits \o <<34>>

MCForeignLines ==
  { <<32, 123, 32, 125, 32, 49>>,
    Pair(<<91, 45, 49, 50, 44, 32, 116, 114, 117, 101, 44, 110, 117, 108, 108, 93>>),
    Pair(Unicode(<<48, 48, 52, 49>>)), Pair(Unicode(<<48, 51, 97, 57>>)),
    Pair(Unicode(<<68, 56, 51, 68>>)), Pair(Unicode(<<48, 48, 48, 48>>)),
    Pair(<<34, 9, 92, 47, 34>>),
    Pair(<<123, 125>>), Pair(<<34, 92, 120, 34>>), Pair(<<>>), <<123, 34>> }

MCLines   == { <<"text">>, <<"no_input">>, <<"tool_result">> }

MCAnswers == { <<>>, <<"text">>, <<"tool_use">>, <<"text", "tool_use", "tool_use">> }

JsonInit == BytesInit /\ TreeInit

JsonNext ==
  \/ at = "load" /\ Size(heap) = 0 /\ BytesNext /\ UNCHANGED treeVars
  \/ bytes = <<>> /\ ~running /\ writes = 0 /\ TreeNext /\ UNCHANGED vars

JsonSpec == JsonInit /\ [][JsonNext]_<<vars, treeVars>>
=============================================================================
