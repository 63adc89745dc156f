-------------------------------- MODULE Turn --------------------------------
(***************************************************************************)
(* One round of chat_turn with its three parts: the connection is made     *)
(* (TcpConnect), the request goes out and the answer comes in (HttpTurn),  *)
(* and the shell calls it asks for are carried out (Shell), up to the test *)
(* of g_interrupt that precedes the next request.  The parts share SIGINT, *)
(* which also interrupts a select or a read that waits.                    *)
(***************************************************************************)
EXTENDS HttpTurn

CONSTANTS
  ShellAnswers,   (* Responses whose body asks for shell calls.            *)
  MaxCalls,       (* Bound on how many.                                    *)
  MaxAddresses, ChunkSize, Cap, MaxOutput

VARIABLES
  turn,           (* "request", "tools", "over" or "next request".         *)
  calls,          (* tool_use blocks that are still to be dispatched.      *)
  cpc, addresses, sockets, blocking,
  spc, written, nul, gathered, length, truncated, sh, holder, stopped, report

ASSUME TurnAssumption ==
  /\ ShellAnswers \subseteq Responses
  /\ MaxCalls \in Nat /\ MaxAddresses \in Nat
  /\ ChunkSize \in Nat \ {0} /\ Cap \in Nat /\ MaxOutput \in Nat

C == INSTANCE TcpConnect
S == INSTANCE Shell

connectVars == <<cpc, addresses, sockets, blocking>>
shellVars == <<spc, written, nul, gathered, length, truncated, sh, holder, stopped, report>>
turnVars == <<turn, calls, vars, connectVars, shellVars>>

TurnInit ==
  /\ turn = "request" /\ calls = 0
  /\ Init /\ C!ConnectInit /\ S!ShellInit

-----------------------------------------------------------------------------
Connecting ==
  /\ pc = "connect"
  /\ \/ C!tcp_connect /\ UNCHANGED vars
     \/ cpc = "connected" /\ Connect /\ UNCHANGED connectVars
     \/ cpc = "gave up" /\ ConnectFails /\ UNCHANGED connectVars
  /\ UNCHANGED <<turn, calls, shellVars>>

(* http_post_sse with its socket, and do_turn once it has returned.        *)
Exchange ==
  /\ pc # "connect" /\ do_turn /\ pc' # "check"
  /\ UNCHANGED <<turn, calls, connectVars, shellVars>>

(* Mutant: return -1 in the place of goto fail.                            *)
Fail_Leaks ==
  /\ pc \in {"write", "headers"} /\ do_turn /\ pc' = "check"
  /\ UNCHANGED <<turn, calls, connectVars, shellVars>>

(* The three ways out each have a close(fd) of their own: "fail", after an *)
(* error body, and after http_stream_body.                                 *)
Fail ==
  /\ pc \in {"write", "headers"} /\ do_turn /\ pc' = "check"
  /\ C!Close /\ UNCHANGED <<turn, calls, shellVars>>

ErrorClosed ==
  /\ pc \in {"error", "closing"} /\ status # 200 /\ do_turn /\ pc' = "check"
  /\ C!Close /\ UNCHANGED <<turn, calls, shellVars>>

BodyClosed ==
  /\ pc \in {"size", "recv", "crlf", "closing"} /\ status = 200 /\ do_turn /\ pc' = "check"
  /\ C!Close /\ UNCHANGED <<turn, calls, shellVars>>

Wanted == IF result = 0 /\ server \in ShellAnswers /\ delivered = server.payload
          THEN 1..MaxCalls ELSE {0}

(* chat_turn looks at what do_turn and blocks_to_content have made of it.  *)
Answered ==
  /\ turn = "request" /\ pc = "done"
  /\ calls' \in Wanted
  /\ turn' = IF calls' > 0 THEN "tools" ELSE "over"
  /\ UNCHANGED <<vars, connectVars, shellVars>>

(* Tools are dispatched one after the other, SIGINT or not.                *)
DispatchShell ==
  /\ turn = "tools" /\ calls > 0
  /\ S!Popen \/ S!PopenFails
  /\ calls' = calls - 1
  /\ UNCHANGED <<turn, vars, connectVars>>

RunShell == S!run_shell /\ UNCHANGED <<turn, calls, vars, connectVars>>

(* Mutant: SIGINT during a tool is forgotten.                              *)
ToolsDone_Goes ==
  /\ turn = "tools" /\ calls = 0 /\ spc = "idle"
  /\ turn' = "next request"
  /\ UNCHANGED <<calls, vars, connectVars, shellVars>>

ToolsDone ==
  /\ turn = "tools" /\ calls = 0 /\ spc = "idle"
  /\ turn' = IF interrupt THEN "over" ELSE "next request"
  /\ UNCHANGED <<calls, vars, connectVars, shellVars>>

Posting == Exchange \/ Fail \/ ErrorClosed \/ BodyClosed

chat_turn == Connecting \/ Posting \/ Answered \/ DispatchShell \/ RunShell \/ ToolsDone

Ended == turn \in {"over", "next request"} \/ pc = "killed"

-----------------------------------------------------------------------------
(* The environment.                                                        *)

(* on_sigint; only a call that waits notices, and the next SIGINT may find *)
(* it waiting again.                                                       *)
SigintAnywhere ==
  /\ ~Ended /\ interrupt' = TRUE
  /\ \/ ~interrupt /\ UNCHANGED <<connectVars, shellVars>>
     \/ C!SelectFails /\ UNCHANGED shellVars
     \/ S!ReadInterrupted /\ UNCHANGED connectVars
  /\ UNCHANGED <<turn, calls, pc, sending, reading, status, r, result, failed>>

ServerHangsUp == HangUp /\ UNCHANGED <<turn, calls, connectVars, shellVars>>

ServerEndsStream == EndOfStream /\ UNCHANGED <<turn, calls, connectVars, shellVars>>

ShellEnds == S!ShellEnds /\ UNCHANGED <<turn, calls, vars, connectVars>>

CommandRuns == (S!Writes \/ S!HolderEnds) /\ UNCHANGED <<turn, calls, vars, connectVars>>

TurnStopped == Ended /\ UNCHANGED turnVars

TurnNext ==
  \/ chat_turn \/ SigintAnywhere \/ ServerHangsUp \/ ServerEndsStream
  \/ ShellEnds \/ CommandRuns \/ TurnStopped

(* The system calls of chat_turn return, those on the network because of   *)
(* their timeouts (main.c:67, 79-81), and the shell, left alone, ends.     *)
(* A br_sslio_* call returns with them, unless the stream has ended under  *)
(* it: Spin is no progress.  What the shell has put in the background, the *)
(* server and the user need not do anything.                               *)
TurnSpec ==
  TurnInit /\ [][TurnNext]_turnVars /\ WF_turnVars(chat_turn) /\ WF_turnVars(ShellEnds)

-----------------------------------------------------------------------------
(* What http_post_sse, tcp_connect and run_shell keep in their variables   *)
(* and buffers.                                                            *)
TurnTypeOK ==
  /\ TypeOK /\ C!ConnectTypeOK /\ S!ShellTypeOK
  /\ turn \in {"request", "tools", "over", "next request"} /\ calls \in 0..MaxCalls

(* However the walk over the addresses and the exchange end, no socket is  *)
(* left open by a request, the one in use blocks, so that the timeouts of  *)
(* main.c:79-81 hold for it, and a failure to connect is no other's.       *)
OneSocket ==
  /\ cpc \in {"getaddrinfo", "socket", "gave up"} \/ pc \in {"check", "done"} => sockets = 0
  /\ cpc = "connected" /\ pc \notin {"check", "done"} => sockets = 1 /\ blocking

(* The result of a shell call says what happened (README.md:62).           *)
ReportTrue == S!ReportTrue

(* A shell call returns (main.c:529-534).                                  *)
ShellReturns == S!ShellReturns

(* SIGINT ends the turn, wherever it is: in the walk over the addresses,   *)
(* the exchange, the close, a tool; another request is not made.  Two      *)
(* things only stand in its way: a silent background process that holds    *)
(* the pipe of a shell call, and a stream that ended without close_notify. *)
InterruptEndsTurn == interrupt ~> turn = "over" \/ pc \in {"killed", "spinning"} \/ S!Held

-----------------------------------------------------------------------------
(* What is said of the code and does not hold.                             *)

(* README.md:44: "Ctrl+C interrupts the current turn (returns to REPL      *)
(* prompt)", also while the turn reads from the server.                    *)
InterruptReturns == interrupt ~> turn = "over" \/ pc = "killed" \/ S!Held
=============================================================================
