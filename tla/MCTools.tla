------------------------------ MODULE MCTools -------------------------------
(* Files of at most five bytes: for edit_file ones where old occurs twice, *)
(* overlaps itself, or hides behind a NUL; for read_file up to three lines *)
(* with and without a newline at the end, an empty line, and a NUL.        *)
EXTENDS Tools

MCEdited == { <<>>, <<"a", "b">>, <<"a", "a", "a">>, <<"a", "z", "a">>, <<"b", "a", "b", "a">> }

MCPaged == { <<>>, <<"a", "n">>, <<"a", "n", "b">>, <<"n", "a", "n", "b", "n">>, <<"a", "n", "z">> }

MCOutsideFiles == MCEdited \cup MCPaged

(* A line ends with its newline or with the file.                          *)
MCLine == UNION {[1..k -> Chars] : k \in 1..5}

MCSize(l) == Len(l)

MCHasNul(l) == \E i \in 1..Len(l) : l[i] = NUL

MCFilesOf(t) == CASE t = "edit_file" -> MCEdited [] t = "read_file" -> MCPaged [] OTHER -> {}

MCRequests == [old : {<<>>, <<"a">>, <<"a", "b">>, <<"a", "a">>}, new : {<<>>, <<"b", "a">>}]

MCOffsets == -1..4

MCLimits == 0..2
=============================================================================
