---------------------------- MODULE MCSseStream ----------------------------
(* Small answers for SseStream: every body made of three of the lines      *)
(* below, and some longer ones.                                            *)
EXTENDS SseStream

Ev(kind, index, type, id, data) ==
  [kind |-> kind, index |-> index, type |-> type, id |-> id, data |-> data]

MCEvents ==
  << Ev("start", 0, "tool_use", "a", <<>>),
     Ev("input", 0, "", "", <<"{", "m">>),
     Ev("input", 0, "", "", <<"}">>),
     Ev("start", 1, "text", "", <<>>),
     Ev("text", 1, "", "", <<"t", "u">>),
     Ev("start", 2, "text", "", <<>>),
     Ev("ignored", -1, "", "", <<>>),
     Ev("start", 1, "tool_use", "b", <<>>),
     Ev("input", 1, "", "", <<"{", "m", "}">>),
     Ev("input", 0, "", "", <<"m", "}">>),
     Ev("start", 0, "thinking", "", <<>>),
     Ev("thinking", 0, "", "", <<"t">>),
     Ev("text", 2, "", "", <<"t">>),
     Ev("text", -1, "", "", <<"t">>) >>

MCSize == <<2, 2, 1, 1, 2, 1, 1, 1, 3, 1, 1, 1, 1, 1>>

(* The two spellings of a data line, and the lines the splitter must pass. *)
DataLineOf(e) == <<DataField, Space>> \o Pieces(e) \o <<NL>>
TightLineOf(e) == <<DataField>> \o Pieces(e) \o <<CR, NL>>
Oversize(e) == <<DataField, Space>> \o Pieces(e) \o <<OtherField, OtherField, NL>>
Truncated(e) == <<DataField, <<e, 1>>, NL>>
EventField == <<OtherField, CR, NL>>

Lines == {DataLineOf(e) : e \in {1, 2, 4, 5, 6}} \cup {TightLineOf(3), Oversize(2), Truncated(1), EventField}

(* A tool after a text; a tool whose input exceeds the cap; an index that  *)
(* is started twice; an end without newline; an answer that only thinks.   *)
LongBodies ==
  { DataLineOf(4) \o TightLineOf(5) \o <<NL>> \o DataLineOf(5) \o DataLineOf(1) \o DataLineOf(2) \o DataLineOf(3),
    DataLineOf(1) \o DataLineOf(2) \o DataLineOf(2) \o DataLineOf(3) \o DataLineOf(3),
    DataLineOf(1) \o DataLineOf(2) \o DataLineOf(10) \o TightLineOf(7) \o TightLineOf(14),
    DataLineOf(1) \o DataLineOf(2) \o DataLineOf(1) \o DataLineOf(2) \o DataLineOf(3),
    DataLineOf(1) \o TightLineOf(9) \o DataLineOf(8) \o TightLineOf(9) \o DataLineOf(13),
    DataLineOf(1) \o DataLineOf(2) \o <<DataField, Space, <<3, 1>>>>,
    DataLineOf(11) \o DataLineOf(12) \o DataLineOf(4) \o DataLineOf(5) }

MCPayloads == {a \o b \o c : a \in Lines, b \in Lines, c \in Lines} \cup LongBodies

=============================================================================
