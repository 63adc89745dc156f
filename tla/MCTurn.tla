------------------------------- MODULE MCTurn -------------------------------
(* The answers of MCHttpTurn and a short one that asks for the shell.      *)
EXTENDS MCHttpTurn, Turn

AsksForShell == Answer(200, 4, 1, <<5>>, <<5>>, FALSE)

MCShellAnswers == {AsksForShell}

MCTurnResponses == MCResponses \cup MCShellAnswers
=============================================================================
