----------------------------- MODULE TurnProofs -----------------------------
(***************************************************************************)
(* Proofs about Turn, for every server, every number of addresses, every   *)
(* size of buffer and cap: no request leaves a socket behind, what a shell *)
(* call reports is true, and the body of an answer arrives as the server   *)
(* framed it, for every framing of FramingAssumption.                      *)
(***************************************************************************)
EXTENDS Turn, InductionProofs, TLAPS

Places == {"connect", "write", "headers", "error", "size?", "size", "data", "recv",
           "callback", "crlf", "closing", "spinning", "check", "done", "killed"}

(* While tcp_connect runs the socket is that of the address it tries; from *)
(* then on it is the one that got through, until http_post_sse returns.    *)
SocketInv ==
  /\ pc \in Places
  /\ cpc \in {"getaddrinfo", "socket", "connect", "select", "connected", "gave up"}
  /\ cpc \in {"getaddrinfo", "socket", "gave up"} => sockets = 0
  /\ cpc \in {"connect", "select"} => sockets = 1
  /\ pc \in {"check", "done"} => sockets = 0
  /\ cpc = "connected" /\ pc \notin {"check", "done"} => sockets = 1 /\ blocking
  /\ pc # "connect" => cpc \in {"connected", "gave up"}
  /\ cpc = "gave up" => pc \in {"connect", "check", "done"}

LEMMA InitSockets == TurnInit => SocketInv
BY DEF TurnInit, Init, C!ConnectInit, SocketInv, Places

LEMMA NextAddressKeeps ==
  ASSUME SocketInv, pc = "connect", pc' = pc, cpc \in {"connect", "select"}, C!NextAddress
  PROVE SocketInv'
<1>1. sockets = 1
  BY DEF SocketInv
<1>2. cpc' = "socket" /\ sockets' = sockets - 1
  BY DEF C!NextAddress
<1>3. sockets' = 0
  BY ONLY <1>1, <1>2
<1> QED BY <1>2, <1>3 DEF SocketInv, Places

LEMMA ConnectingKeeps == ASSUME SocketInv, Connecting PROVE SocketInv'
<1>1. pc = "connect"
  BY DEF Connecting
<1>2. CASE C!tcp_connect /\ UNCHANGED vars
  <2>1. pc' = pc
    BY <1>2 DEF vars
  <2> USE <1>1, <2>1 DEF SocketInv, Places
  <2>a. cpc \in {"connect", "select"} /\ C!Connected => SocketInv'
    <3> SUFFICES ASSUME cpc \in {"connect", "select"}, C!Connected PROVE SocketInv'
      OBVIOUS
    <3>1. cpc' = "connected" /\ sockets' = sockets
      BY DEF C!Connected
    <3>2. blocking'
      BY Zenon DEF C!Connected
    <3> QED BY <3>1, <3>2
  <2>b. cpc \in {"connect", "select"} /\ C!NextAddress => SocketInv'
    BY NextAddressKeeps
  <2>2. CASE C!Resolve
    BY <2>2 DEF C!Resolve
  <2>3. CASE C!ResolveFails
    BY <2>3 DEF C!ResolveFails
  <2>4. CASE C!SocketFails
    BY <2>4 DEF C!SocketFails
  <2>5. CASE C!StartConnect
    BY <2>5 DEF C!StartConnect
  <2>6. CASE C!ConnectReturns
    <3>1. cpc' = "select" /\ UNCHANGED sockets => SocketInv'
      BY <2>6 DEF C!ConnectReturns
    <3> QED BY <2>6, <2>a, <2>b, <3>1 DEF C!ConnectReturns
  <2>7. CASE C!SelectFails
    BY <2>7 DEF C!SelectFails, C!NextAddress
  <2>8. CASE C!SelectReturns
    BY <2>8, <2>a, <2>b DEF C!SelectReturns
  <2>9. CASE C!NoAddressLeft
    BY <2>9 DEF C!NoAddressLeft
  <2> QED BY <1>2, <2>2, <2>3, <2>4, <2>5, <2>6, <2>7, <2>8, <2>9 DEF C!tcp_connect
<1>3. CASE cpc = "connected" /\ Connect /\ UNCHANGED connectVars
  BY <1>1, <1>3 DEF Connect, Goto, connectVars, SocketInv, Places
<1>4. CASE cpc = "gave up" /\ ConnectFails /\ UNCHANGED connectVars
  BY <1>1, <1>4 DEF ConnectFails, Lose, connectVars, SocketInv, Places
<1> QED BY <1>2, <1>3, <1>4 DEF Connecting

(* Where a step of do_turn leads: "check" leads to "done", and nothing     *)
(* else does.                                                              *)
LEMMA StepsOfDoTurn ==
  ASSUME do_turn, pc # "connect", pc \in Places
  PROVE  /\ pc' \in Places \ {"connect"} /\ pc \notin {"done", "killed"}
         /\ pc = "check" <=> pc' = "done"
<1> USE DEF Places
<1>1. CASE Request
  <2>1. CASE Connect \/ ConnectFails
    BY <2>1 DEF Connect, ConnectFails
  <2>2. CASE WriteRequest \/ BrokenPipe \/ WriteFails \/ RequestWritten
    BY <2>2 DEF WriteRequest, BrokenPipe, WriteFails, RequestWritten, Goto, Lose
  <2>3. CASE ReadHeaders \/ HeadersUnusable \/ HeadersFail
    BY <2>3 DEF ReadHeaders, HeadersUnusable, HeadersFail, Lose
  <2>4. CASE ReadErrorBody \/ ErrorBodyFull \/ ErrorBodyEnds
    BY <2>4 DEF ReadErrorBody, ErrorBodyFull, ErrorBodyEnds, Lose, ReturnBody
  <2> QED BY <1>1, <2>1, <2>2, <2>3, <2>4 DEF Request
<1>2. CASE StreamBody
  <2>1. CASE StopAtInterrupt \/ NextChunk \/ ReadSizeByte \/ SizeKnown \/ SizeNegative \/ LastChunk
    BY <2>1 DEF StopAtInterrupt, NextChunk, ReadSizeByte, SizeKnown, SizeNegative, LastChunk, ReturnBody
  <2>2. CASE AskForBody \/ ReadBody \/ RefuseChunk \/ AcceptChunk \/ EndOfChunk
    BY <2>2 DEF AskForBody, ReadBody, RefuseChunk, AcceptChunk, EndOfChunk, ReturnBody, Goto
  <2>3. CASE AcceptPlain
    BY <2>3 DEF AcceptPlain
  <2>4. CASE ReadEnds
    BY <2>4 DEF ReadEnds, Reads, Lose
  <2> QED BY <1>2, <2>1, <2>2, <2>3, <2>4 DEF StreamBody
<1>3. CASE DiscardIncoming \/ Closed \/ Return
  BY <1>3 DEF DiscardIncoming, Closed, Return, Goto
<1>4. CASE Spin
  BY <1>4 DEF Spin, vars
<1> QED BY <1>1, <1>2, <1>3, <1>4 DEF do_turn

(* What the exchange and its three ways out do to the socket.              *)
LEMMA PostingIs ==
  ASSUME Posting
  PROVE  /\ pc # "connect" /\ do_turn /\ UNCHANGED <<turn, calls, shellVars>>
         /\ pc' = "check" => C!Close
         /\ pc' # "check" => UNCHANGED connectVars
<1>1. CASE Exchange
  BY <1>1 DEF Exchange
<1>2. CASE Fail
  BY <1>2 DEF Fail
<1>3. CASE ErrorClosed
  BY <1>3 DEF ErrorClosed
<1>4. CASE BodyClosed
  BY <1>4 DEF BodyClosed
<1> QED BY <1>1, <1>2, <1>3, <1>4 DEF Posting

(* A stream that ends leaves everything but the control point alone.       *)
LEMMA EndOfStreamIs ==
  ASSUME EndOfStream
  PROVE  /\ pc' = "spinning"
         /\ pc \in {"write", "headers", "error", "size", "recv", "crlf", "closing"}
         /\ UNCHANGED <<sending, reading, status, r, interrupt, result, failed>>
BY DEF EndOfStream, InRunUntil, Reads, Goto

LEMMA PostingKeeps == ASSUME SocketInv, Posting PROVE SocketInv'
<1>1. /\ pc' \in Places \ {"connect"} /\ pc \notin {"done", "killed", "connect"}
      /\ pc = "check" <=> pc' = "done"
  BY StepsOfDoTurn, PostingIs DEF SocketInv
<1>2. CASE pc' = "check"
  <2>1. sockets' = sockets - 1 /\ cpc' = cpc
    BY <1>2, PostingIs DEF C!Close
  <2>2. pc # "check"
    BY <1>1, <1>2
  <2>3. sockets = 1 /\ cpc = "connected"
    BY <1>1, <2>2 DEF SocketInv
  <2> QED BY <1>2, <2>1, <2>3 DEF SocketInv, Places
<1>3. CASE pc' # "check"
  <2>1. UNCHANGED connectVars
    BY <1>3, PostingIs
  <2> QED BY <1>1, <1>3, <2>1 DEF SocketInv, connectVars
<1> QED BY <1>2, <1>3

LEMMA SocketStep == SocketInv /\ [TurnNext]_turnVars => SocketInv'
<1> SUFFICES ASSUME SocketInv, [TurnNext]_turnVars PROVE SocketInv'
  OBVIOUS
<1>1. CASE Connecting
  BY <1>1, ConnectingKeeps
<1>2. CASE Posting
  BY <1>2, PostingKeeps
<1>3. CASE SigintAnywhere
  <2>1. pc' = pc
    BY <1>3 DEF SigintAnywhere
  <2>2. CASE UNCHANGED connectVars
    BY <2>1, <2>2 DEF SocketInv, connectVars
  <2>3. CASE C!SelectFails
    <3>1. cpc = "select" /\ cpc' = "socket" /\ sockets' = sockets - 1
      BY <2>3 DEF C!SelectFails, C!NextAddress
    <3> QED BY <2>1, <3>1 DEF SocketInv
  <2> QED BY <1>3, <2>2, <2>3 DEF SigintAnywhere
<1>4. CASE ServerHangsUp
  <2>1. pc' = pc /\ UNCHANGED connectVars
    BY <1>4 DEF ServerHangsUp, HangUp
  <2> QED BY <2>1 DEF SocketInv, connectVars
<1>6. CASE ServerEndsStream
  BY <1>6, EndOfStreamIs DEF ServerEndsStream, SocketInv, connectVars, Places
<1>5. CASE Answered \/ DispatchShell \/ RunShell \/ ToolsDone \/ ShellEnds \/ CommandRuns \/ TurnStopped
           \/ UNCHANGED turnVars
  <2>1. pc' = pc /\ UNCHANGED connectVars
    BY <1>5 DEF Answered, DispatchShell, RunShell, ToolsDone, ShellEnds, CommandRuns, TurnStopped,
                turnVars, vars
  <2> QED BY <2>1 DEF SocketInv, connectVars
<1> QED BY <1>1, <1>2, <1>3, <1>4, <1>5, <1>6 DEF TurnNext, chat_turn

(* However the walk over the addresses and the exchange end, the socket is *)
(* closed, and the one in use blocks (main.c:60-78, 299-313).              *)
THEOREM NoSocketLeft == TurnSpec => []OneSocket
<1>1. SocketInv => OneSocket
  BY DEF SocketInv, OneSocket
<1> QED BY <1>1, InitSockets, SocketStep, PTL DEF TurnSpec

-----------------------------------------------------------------------------
(* What run_shell has read is never ahead of what was written; the loop    *)
(* ends because of the cap, of SIGINT, or with everything read.            *)
ShellCounts ==
  /\ written \in Nat /\ nul \in Nat /\ gathered \in Nat /\ length \in Nat
  /\ gathered <= ChunkSize /\ gathered + length <= written
  /\ length <= Cap + ChunkSize
  /\ spc = "fread" => length <= Cap
  /\ nul <= written

ShellEnd ==
  /\ spc \in {"idle", "fread", "pclose"}
  /\ sh \in {"running", "exited", "killed"}
  /\ spc = "pclose" => truncated \/ stopped \/ length = written

ShellInv == ShellCounts /\ ShellEnd /\ S!ReportTrue

LEMMA InitShell == TurnInit => ShellInv
<1> SUFFICES ASSUME S!ShellInit PROVE ShellInv
  BY DEF TurnInit
<1>1. ShellCounts
  BY TurnAssumption DEF S!ShellInit, ShellCounts
<1>2. ShellEnd
  BY DEF S!ShellInit, ShellEnd
<1> QED BY <1>1, <1>2 DEF S!ShellInit, ShellInv, S!ReportTrue

LEMMA StartKeeps == ASSUME ShellInv, S!Popen \/ S!PopenFails PROVE ShellInv'
<1>1. CASE S!Popen
  <2>1. ShellCounts'
    BY <1>1, TurnAssumption DEF S!Popen, ShellCounts
  <2>2. ShellEnd'
    BY <1>1 DEF S!Popen, ShellEnd
  <2> QED BY <1>1, <2>1, <2>2 DEF S!Popen, ShellInv, S!ReportTrue
<1>2. CASE S!PopenFails
  BY <1>2 DEF S!PopenFails, ShellInv, ShellCounts, ShellEnd, S!ReportTrue, S!NoReport
<1> QED BY <1>1, <1>2

LEMMA AppendKeeps ==
  ASSUME ShellInv, spc = "fread", S!Append(gathered) PROVE ShellInv'
<1>1. /\ length' = length + gathered /\ gathered' = 0 /\ written' = written /\ nul' = nul
      /\ spc' = IF length' > Cap THEN "pclose" ELSE "fread"
      /\ sh' = sh
  BY DEF S!Append
<1>2. spc' = "pclose" => truncated'
  BY DEF S!Append
<1>3. ShellCounts'
  BY <1>1, TurnAssumption DEF ShellInv, ShellCounts
<1>4. ShellEnd'
  BY <1>1, <1>2 DEF ShellInv, ShellEnd
<1>5. spc' # "idle"
  BY <1>1
<1> QED BY <1>3, <1>4, <1>5 DEF ShellInv, S!ReportTrue

LEMMA PcloseKeeps == ASSUME ShellInv, S!Pclose PROVE ShellInv'
<1>1. /\ spc = "pclose" /\ sh # "running" /\ spc' = "idle"
      /\ UNCHANGED <<written, nul, gathered, length, truncated, sh, holder, stopped>>
  BY DEF S!Pclose
<1>2. ShellCounts' /\ ShellEnd'
  BY <1>1 DEF ShellInv, ShellCounts, ShellEnd
<1>3. CASE S!Cut
  <2>0. length \in Nat /\ nul \in Nat /\ length <= Cap + ChunkSize
    BY DEF ShellInv, ShellCounts
  <2>1. report' = [shown |-> nul - 1, note |-> FALSE, end |-> ""]
    BY <1>3 DEF S!Pclose
  <2>2. report'.shown = nul - 1 /\ report'.end = ""
    BY <2>1
  <2>3. nul <= length
    BY <1>3, <2>0 DEF S!Cut
  <2>4. nul - 1 + 1 = nul /\ nul - 1 <= Cap + ChunkSize
    BY ONLY <2>0, <2>3, TurnAssumption DEF TurnAssumption
  <2>5. nul' = report'.shown + 1 /\ report'.shown <= Cap + ChunkSize
    BY <1>1, <2>2, <2>4
  <2> QED BY <1>2, <2>2, <2>5 DEF ShellInv, S!ReportTrue
<1>4. CASE ~S!Cut
  <2>1. report' = [shown |-> length, note |-> truncated, end |-> sh]
    BY <1>4 DEF S!Pclose
  <2>2. report'.shown = length /\ report'.end = sh
    BY <2>1
  <2>3. report'.note = truncated
    BY <2>1
  <2>4. report'.shown < written' => report'.note \/ stopped'
    BY <1>1, <2>2, <2>3 DEF ShellInv, ShellCounts, ShellEnd
  <2>5. report'.shown <= Cap + ChunkSize /\ report'.end \notin {"", "running"}
    BY <1>1, <2>2 DEF ShellInv, ShellCounts, ShellEnd
  <2> QED BY <1>2, <2>4, <2>5 DEF ShellInv, S!ReportTrue
<1> QED BY <1>3, <1>4

LEMMA RunKeeps == ASSUME ShellInv, S!run_shell PROVE ShellInv'
<1>1. CASE S!Gather
  BY <1>1, TurnAssumption DEF S!Gather, S!InPipe, ShellInv, ShellCounts, ShellEnd, S!ReportTrue
<1>2. CASE S!ChunkFull \/ S!ChunkLast
  BY <1>2, AppendKeeps DEF S!ChunkFull, S!ChunkLast
<1>3. CASE S!OutputEnds
  BY <1>3, TurnAssumption DEF S!OutputEnds, S!InPipe, ShellInv, ShellCounts, ShellEnd, S!ReportTrue
<1>4. CASE S!Pclose
  BY <1>4, PcloseKeeps
<1> QED BY <1>1, <1>2, <1>3, <1>4 DEF S!run_shell

LEMMA InterruptedKeeps == ASSUME ShellInv, S!ReadInterrupted PROVE ShellInv'
<1>1. CASE spc = "fread" /\ S!Append(gathered)
  BY <1>1, AppendKeeps
<1>2. CASE spc' = "pclose" /\ stopped' = TRUE
           /\ UNCHANGED <<written, nul, gathered, length, truncated, sh, holder, report>>
  <2>1. ShellCounts'
    BY <1>2 DEF ShellInv, ShellCounts
  <2>2. ShellEnd'
    BY <1>2 DEF ShellInv, ShellEnd
  <2> QED BY <1>2, <2>1, <2>2 DEF ShellInv, S!ReportTrue
<1> QED BY <1>1, <1>2 DEF S!ReadInterrupted

LEMMA CommandKeeps == ASSUME ShellInv, S!ShellEnds \/ S!Writes \/ S!HolderEnds PROVE ShellInv'
<1>1. CASE S!ShellEnds
  BY <1>1 DEF S!ShellEnds, ShellInv, ShellCounts, ShellEnd, S!ReportTrue
<1>2. ASSUME NEW zero \in BOOLEAN, S!WriteByte(zero) PROVE ShellInv'
  BY <1>2 DEF S!WriteByte, ShellInv, ShellCounts, ShellEnd, S!ReportTrue
<1>3. CASE S!HolderEnds
  BY <1>3 DEF S!HolderEnds, ShellInv, ShellCounts, ShellEnd, S!ReportTrue
<1> QED BY <1>1, <1>2, <1>3 DEF S!Writes

LEMMA ShellStep == ShellInv /\ [TurnNext]_turnVars => ShellInv'
<1> SUFFICES ASSUME ShellInv, [TurnNext]_turnVars PROVE ShellInv'
  OBVIOUS
<1>1. CASE UNCHANGED shellVars
  BY <1>1 DEF shellVars, ShellInv, ShellCounts, ShellEnd, S!ReportTrue, S!NoReport
<1>2. CASE Connecting \/ Posting \/ Answered \/ ToolsDone \/ ServerHangsUp \/ ServerEndsStream
           \/ TurnStopped \/ UNCHANGED turnVars
  BY <1>1, <1>2, PostingIs DEF Connecting, Answered, ToolsDone, ServerHangsUp, ServerEndsStream,
     TurnStopped, turnVars
<1>3. CASE DispatchShell
  BY <1>3, StartKeeps DEF DispatchShell
<1>4. CASE RunShell
  BY <1>4, RunKeeps DEF RunShell
<1>5. CASE SigintAnywhere
  BY <1>1, <1>5, InterruptedKeeps DEF SigintAnywhere
<1>6. CASE ShellEnds \/ CommandRuns
  BY <1>6, CommandKeeps DEF ShellEnds, CommandRuns
<1> QED BY <1>2, <1>3, <1>4, <1>5, <1>6 DEF TurnNext, chat_turn

(* An output that is not shown whole is said to be truncated, holds a NUL  *)
(* or was cut by SIGINT, and the exit status is that of a shell that has   *)
(* ended, whatever was written and whenever (main.c:517-558).              *)
THEOREM ReportAlwaysTrue == TurnSpec => []ReportTrue
<1>1. ShellInv => ReportTrue
  BY DEF ShellInv, ReportTrue
<1> QED BY <1>1, InitShell, ShellStep, PTL DEF TurnSpec

-----------------------------------------------------------------------------
(* The value of a size line does not depend on the line feed that a short  *)
(* read has left before it (main.c:198, 217).                              *)
Nonblank(s) == {i \in 1..Len(s) : ~Blank(s[i])}

LEMMA StrippedIs ==
  ASSUME NEW s \in Seq(Byte)
  PROVE  Stripped(s) = IF Nonblank(s) = {} THEN <<>> ELSE SubSeq(s, Min(Nonblank(s)), Len(s))
<1>1. SelectInSeq(s, LAMBDA b : ~Blank(b)) = IF Nonblank(s) = {} THEN 0 ELSE Min(Nonblank(s))
  BY DEF SelectInSeq, Nonblank
<1>2. Nonblank(s) # {} => Min(Nonblank(s)) # 0
  BY MinIsLeast DEF Nonblank
<1> QED BY <1>1, <1>2 DEF Stripped

LEMMA StrippedLF ==
  ASSUME NEW s \in Seq(Byte)
  PROVE  Stripped(<<LF>> \o s) = Stripped(s)
<1> DEFINE t == <<LF>> \o s
<1>1. t \in Seq(Byte) /\ Len(t) = Len(s) + 1 /\ t[1] = LF /\ Len(s) \in Nat
      /\ \A i \in 1..Len(s) : t[i + 1] = s[i]
  BY DEF LF, Byte
<1> HIDE DEF t
<1>2. \A i \in 1..Len(s) : i \in Nonblank(s) <=> i + 1 \in Nonblank(t)
  BY <1>1 DEF Nonblank
<1>3. \A i \in Nonblank(t) : i - 1 \in Nonblank(s)
  <2> SUFFICES ASSUME NEW i \in Nonblank(t) PROVE i - 1 \in Nonblank(s)
    OBVIOUS
  <2>1. i \in 1..Len(t) /\ i # 1
    BY <1>1 DEF Nonblank, Blank
  <2>2. i - 1 \in 1..Len(s) /\ (i - 1) + 1 = i
    BY <1>1, <2>1
  <2> QED BY <1>2, <2>2
<1>4. CASE Nonblank(s) = {}
  <2>1. Nonblank(t) = {}
    BY <1>3, <1>4
  <2> QED BY <1>1, <1>4, <2>1, StrippedIs DEF t
<1>5. CASE Nonblank(s) # {}
  <2> DEFINE m == Min(Nonblank(s))
  <2>0. Nonblank(s) \in SUBSET Nat
    BY DEF Nonblank
  <2>1. m \in Nonblank(s) /\ \A y \in Nonblank(s) : m <= y
    BY <1>5, <2>0, MinIsLeast
  <2> HIDE DEF m
  <2>2. m \in 1..Len(s)
    BY <2>1 DEF Nonblank
  <2>3. m + 1 \in Nonblank(t)
    BY <1>2, <2>1, <2>2
  <2>4. ASSUME NEW y \in Nonblank(t) PROVE m + 1 <= y
    <3>1. y \in Nat /\ m <= y - 1
      BY <1>3, <2>1 DEF Nonblank
    <3> QED BY <2>2, <3>1
  <2>5. Min(Nonblank(t)) = m + 1
    BY <2>3, <2>4, MinIs DEF Nonblank
  <2>6. SubSeq(t, m + 1, Len(t)) = SubSeq(s, m, Len(s))
    BY <1>1, <2>2
  <2> QED BY <1>1, <1>5, <2>3, <2>5, <2>6, StrippedIs DEF t, m
<1> QED BY <1>4, <1>5

LEMMA HexValueLF ==
  ASSUME NEW s \in Seq(Byte)
  PROVE  HexValue(<<LF>> \o s) = HexValue(s)
BY StrippedLF DEF HexValue

LEMMA EndsLineAt ==
  ASSUME NEW w \in Seq(Byte), NEW a \in Nat, NEW b \in Nat, a <= b, b <= Len(w)
  PROVE  EndsLine(SubSeq(w, a + 1, b)) <=> b - a >= 2 /\ w[b - 1] = CR /\ w[b] = LF
<1> DEFINE s == SubSeq(w, a + 1, b)
<1>1. Len(s) = b - a /\ \A i \in 1..(b - a) : s[i] = w[a + i]
  OBVIOUS
<1> HIDE DEF s
<1>2. CASE b - a >= 2
  <2>1. s[b - a] = w[b] /\ s[b - a - 1] = w[b - 1]
    BY <1>1, <1>2
  <2> QED BY <1>1, <1>2, <2>1 DEF EndsLine, s
<1>3. CASE ~(b - a >= 2)
  BY <1>1, <1>3 DEF EndsLine, s
<1> QED BY <1>2, <1>3

-----------------------------------------------------------------------------
Streaming == {"size?", "size", "data", "recv", "callback", "crlf"}

(* What the control points of do_turn say, whatever the bytes are.         *)
ControlInv ==
  /\ pc \in Places
  /\ server \in Responses /\ peer \in {"open", "closed", "reset"}
  /\ unsent \in 0..RequestWrites /\ used \in 0..MaxErrHead
  /\ status \in {0, 200, 400, 500} /\ r \in {0, -1, -2} /\ result \in {1, 0, -1, -2, -3}
  /\ interrupt \in BOOLEAN /\ failed \in BOOLEAN
  /\ pc \in {"connect", "write", "headers"} => status = 0
  /\ pc \in Streaming => status = 200
  /\ pc \notin {"closing", "spinning", "check", "done"} => r = 0
  /\ status \in {0, server.status}
  /\ status # 200 => delivered = <<>>
  /\ pc = "error" => status # 200
  /\ status = 0 /\ pc \in {"closing", "check"} => r < 0
  /\ r = -2 => interrupt
  /\ pc = "done" <=> result # 1

(* Where the program is in the framing: at, in or behind the size line of  *)
(* the k-th chunk.  After a short read of the two bytes behind the chunk   *)
(* before, the line feed is still to be read.                              *)
AtChunk(k) ==
  LET c == server.chunks[k]
      d == server.chunks[k + 1]
      body == rpos - (c.at + c.size)
  IN  /\ pc = "size?" => Len(delivered) = c.off /\ (rpos = c.at \/ (k > 1 /\ rpos = c.at - 1))
      /\ pc = "size" =>
           /\ Len(delivered) = c.off /\ rpos <= c.at + c.size
           /\ \/ rpos >= c.at /\ szline = SubSeq(server.wire, c.at + 1, rpos)
              \/ k > 1 /\ rpos >= c.at - 1 /\ szline = SubSeq(server.wire, c.at, rpos)
      /\ pc \in {"data", "recv"} =>
           /\ k < Len(server.chunks)
           /\ body >= 0 /\ Len(delivered) = c.off + body
           /\ remaining = d.off - Len(delivered) /\ remaining > 0
      /\ pc = "callback" =>
           /\ k < Len(server.chunks)
           /\ body - Len(got) >= 0 /\ Len(delivered) = c.off + body - Len(got)
           /\ remaining = d.off - Len(delivered) /\ Len(got) <= remaining
           /\ \A j \in 1..Len(got) : got[j] = server.wire[rpos - Len(got) + j]
      /\ pc = "crlf" =>
           k < Len(server.chunks) /\ rpos = d.at - 2 /\ Len(delivered) = d.off

InPlain ==
  /\ pc \in {"data", "recv", "callback"}
  /\ pc \in {"data", "recv"} => Len(delivered) = rpos
  /\ pc = "callback" =>
       /\ Len(delivered) + Len(got) = rpos
       /\ \A j \in 1..Len(got) : got[j] = server.wire[Len(delivered) + j]

FrameInv ==
  /\ rpos \in 0..Len(server.wire)
  /\ szline \in Seq(Byte) /\ Len(szline) <= MaxSizeLine
  /\ remaining \in Nat
  /\ got \in Seq(Byte) /\ Len(got) <= BufSize
  /\ delivered \in Seq(Byte) /\ Len(delivered) <= Len(server.payload)
  /\ \A j \in 1..Len(delivered) : delivered[j] = server.payload[j]
  /\ pc \in {"connect", "write", "headers"} => rpos = 0
  /\ pc \in Streaming /\ server.chunked => \E k \in 1..Len(server.chunks) : AtChunk(k)
  /\ pc \in Streaming /\ ~server.chunked => InPlain
  /\ pc \in {"closing", "check", "done"} /\ status = 200 /\ r = 0 =>
       Len(delivered) = Len(server.payload)
  /\ pc = "callback" => Len(got) >= 1

LEMMA ControlInit == TurnInit => ControlInv
<1> SUFFICES ASSUME Init PROVE ControlInv
  BY DEF TurnInit
<1>1. interrupt \in BOOLEAN /\ failed \in BOOLEAN
  BY Zenon DEF Init
<1>2. unsent \in 0..RequestWrites /\ used \in 0..MaxErrHead
  BY HttpAssumption DEF Init
<1> QED BY <1>1, <1>2 DEF Init, ControlInv, Places, Streaming

LEMMA LoseControl ==
  ASSUME ControlInv, pc \notin {"check", "done", "killed"}, failed' \in BOOLEAN,
         pc' = "check", r' = -1, UNCHANGED <<sending, reading, status, interrupt, result>>
  PROVE  ControlInv'
BY DEF ControlInv, Places, Streaming, sending, reading

LEMMA RequestControl == ASSUME ControlInv, Request PROVE ControlInv'
<1> USE DEF ControlInv, Places, Streaming, sending, reading
<1>1. CASE ConnectFails \/ WriteFails \/ HeadersFail \/ HeadersUnusable
  <2>1. failed' \in BOOLEAN
    <3>1. CASE ConnectFails
      BY ONLY Zenon, <3>1 DEF ConnectFails, Lose
    <3>2. CASE WriteFails
      BY ONLY Zenon, <3>2 DEF WriteFails, Lose
    <3>3. CASE HeadersFail
      BY ONLY Zenon, <3>3 DEF HeadersFail, Lose
    <3>4. CASE HeadersUnusable
      BY ONLY Zenon, <3>4 DEF HeadersUnusable, Lose
    <3> QED BY <1>1, <3>1, <3>2, <3>3, <3>4
  <2>2. /\ pc \notin {"check", "done", "killed"} /\ pc' = "check" /\ r' = -1
        /\ UNCHANGED <<sending, reading, status, interrupt, result>>
    BY <1>1 DEF ConnectFails, WriteFails, HeadersFail, HeadersUnusable, Lose
  <2> QED BY <2>1, <2>2, LoseControl
<1>2. CASE WriteRequest
  BY <1>2, HttpAssumption DEF WriteRequest
<1>3. CASE Connect \/ BrokenPipe \/ RequestWritten
  BY <1>3 DEF Connect, BrokenPipe, RequestWritten, Goto
<1>4. CASE ReadHeaders
  <2>1. server.status \in {200, 400, 500}
    BY HttpAssumption
  <2> QED BY <1>4, <2>1 DEF ReadHeaders
<1>6. CASE ReadErrorBody
  <2>1. PICK k \in 1..Unread : used' = IF used + k < MaxErrHead THEN used + k ELSE MaxErrHead
    BY <1>6 DEF ReadErrorBody
  <2>2. k \in Nat
    BY <2>1
  <2>3. used' \in 0..MaxErrHead
    BY <2>1, <2>2, HttpAssumption
  <2> QED BY <1>6, <2>3 DEF ReadErrorBody
<1>7. CASE ErrorBodyFull
  BY <1>7 DEF ErrorBodyFull, ReturnBody
<1>8. CASE ErrorBodyEnds
  BY <1>8 DEF ErrorBodyEnds, Lose
<1> QED BY <1>1, <1>2, <1>3, <1>4, <1>6, <1>7, <1>8 DEF Request

LEMMA StreamControl == ASSUME ControlInv, StreamBody PROVE ControlInv'
<1> USE DEF ControlInv, Places, Streaming, sending, reading
<1>1. CASE StopAtInterrupt
  BY <1>1 DEF StopAtInterrupt, ReturnBody
<1>2. CASE NextChunk \/ ReadSizeByte \/ SizeKnown
  BY <1>2 DEF NextChunk, ReadSizeByte, SizeKnown
<1>3. CASE SizeNegative \/ LastChunk
  BY <1>3 DEF SizeNegative, LastChunk, ReturnBody
<1>4. CASE AskForBody \/ ReadBody \/ EndOfChunk
  BY <1>4 DEF AskForBody, ReadBody, EndOfChunk, Goto
<1>5. CASE RefuseChunk
  BY <1>5 DEF RefuseChunk, ReturnBody
<1>6. CASE AcceptChunk \/ AcceptPlain
  BY <1>6 DEF AcceptChunk, AcceptPlain
<1>7. CASE ReadEnds
  BY <1>7 DEF ReadEnds, Reads, Lose
<1> QED BY <1>1, <1>2, <1>3, <1>4, <1>5, <1>6, <1>7 DEF StreamBody

(* What do_turn returns; -2 exactly if there was a SIGINT.                 *)
LEMMA ResultIs ==
  ASSUME ControlInv, pc = "check"
  PROVE  /\ Result \in {0, -1, -2, -3}
         /\ interrupt <=> Result = -2
         /\ Result \in {-1, -3} => delivered = <<>>
BY DEF ControlInv, Result

LEMMA EndControl == ASSUME ControlInv, DiscardIncoming \/ Closed \/ Spin \/ Return PROVE ControlInv'
<1>1. CASE DiscardIncoming \/ Closed
  BY <1>1 DEF DiscardIncoming, Closed, Goto, ControlInv, Places, Streaming, sending, reading
<1>2. CASE Return
  <2>1. result' \in {0, -1, -2, -3}
    BY <1>2, ResultIs DEF Return
  <2> QED BY <1>2, <2>1 DEF Return, ControlInv, Places, Streaming, sending, reading
<1>3. CASE Spin
  BY <1>3 DEF Spin, vars, ControlInv, Places, Streaming, sending, reading
<1> QED BY <1>1, <1>2, <1>3

(* What a step of Turn is to HttpTurn.                                     *)
LEMMA TurnStepIs ==
  ASSUME [TurnNext]_turnVars
  PROVE  \/ do_turn
         \/ interrupt' = TRUE /\ UNCHANGED <<pc, sending, reading, status, r, result, failed>>
         \/ HangUp
         \/ EndOfStream
         \/ UNCHANGED vars
<1>1. CASE Connecting
  BY <1>1 DEF Connecting, do_turn, Request
<1>2. CASE Posting
  BY <1>2, PostingIs
<1>3. CASE SigintAnywhere \/ ServerHangsUp \/ ServerEndsStream
  BY <1>3 DEF SigintAnywhere, ServerHangsUp, ServerEndsStream
<1>4. CASE Answered \/ DispatchShell \/ RunShell \/ ToolsDone \/ ShellEnds \/ CommandRuns \/ TurnStopped
  BY <1>4 DEF Answered, DispatchShell, RunShell, ToolsDone, ShellEnds, CommandRuns, TurnStopped, turnVars
<1>5. CASE UNCHANGED turnVars
  BY <1>5 DEF turnVars
<1> QED BY <1>1, <1>2, <1>3, <1>4, <1>5 DEF TurnNext, chat_turn

LEMMA ControlStep == ControlInv /\ [TurnNext]_turnVars => ControlInv'
<1> SUFFICES ASSUME ControlInv, [TurnNext]_turnVars PROVE ControlInv'
  OBVIOUS
<1>1. CASE do_turn
  BY <1>1, RequestControl, StreamControl, EndControl DEF do_turn
<1>2. CASE interrupt' = TRUE /\ UNCHANGED <<pc, sending, reading, status, r, result, failed>>
  BY <1>2 DEF ControlInv, Places, Streaming, sending, reading
<1>3. CASE HangUp
  BY <1>3 DEF HangUp, ControlInv, Places, Streaming, reading
<1>4. CASE UNCHANGED vars
  BY <1>4 DEF vars, ControlInv, Places, Streaming, sending, reading
<1>5. CASE EndOfStream
  BY <1>5, EndOfStreamIs DEF ControlInv, Places, Streaming, sending, reading
<1> QED BY <1>1, <1>2, <1>3, <1>4, <1>5, TurnStepIs

-----------------------------------------------------------------------------
LEMMA ServerType ==
  ASSUME server \in Responses
  PROVE  /\ server.wire \in Seq(Byte) /\ server.payload \in Seq(Byte)
         /\ Len(server.wire) \in Nat /\ Len(server.payload) \in Nat /\ Len(server.chunks) \in Nat
         /\ \A k \in 1..Len(server.chunks) :
              /\ server.chunks[k].at \in Nat /\ server.chunks[k].size \in Nat
              /\ server.chunks[k].off \in Nat
<1>1. server.wire \in Seq(Byte) /\ server.payload \in Seq(Byte) /\ server.chunks \in Seq(Mark)
  BY HttpAssumption
<1>2. \A k \in 1..Len(server.chunks) : server.chunks[k] \in Mark
  BY <1>1
<1> QED BY <1>1, <1>2 DEF Mark

(* What FramingAssumption says of the k-th chunk and of the byte before it *)
LEMMA ChunkFacts ==
  ASSUME server \in Responses, server.status = 200, server.chunked,
         NEW k \in 1..Len(server.chunks)
  PROVE  LET c == server.chunks[k]
             d == server.chunks[k + 1]
             n == Len(server.chunks)
         IN  /\ IsSizeLine(server, c)
             /\ k = 1 => c.at = 0 /\ c.off = 0
             /\ k > 1 => c.at >= 1 /\ server.wire[c.at] = LF
             /\ k < n => k + 1 \in 1..n /\ IsChunk(server, c, d)
             /\ k = n => IsEnd(server, c)
<1> DEFINE cs == server.chunks
           n == Len(cs)
<1>1. WellChunked(server)
  BY FramingAssumption
<1>2. /\ cs[1].at = 0 /\ cs[1].off = 0
      /\ \A i \in 1..n : IsSizeLine(server, cs[i])
      /\ \A i \in 1..(n - 1) : IsChunk(server, cs[i], cs[i + 1])
      /\ IsEnd(server, cs[n])
  BY <1>1 DEF WellChunked
<1>3. n \in Nat /\ k \in 1..n /\ \A i \in 1..n : cs[i].at \in Nat /\ cs[i].size \in Nat /\ cs[i].off \in Nat
  BY ServerType
<1> HIDE DEF n
<1>4. ASSUME k > 1 PROVE cs[k].at >= 1 /\ server.wire[cs[k].at] = LF
  <2>1. k - 1 \in 1..(n - 1) /\ k - 1 \in 1..n /\ (k - 1) + 1 = k
    BY <1>3, <1>4
  <2>2. IsChunk(server, cs[k - 1], cs[k])
    BY <1>2, <2>1
  <2> DEFINE at == cs[k - 1].at
             size == cs[k - 1].size
             off == cs[k - 1].off
             next == cs[k].off
             place == cs[k].at
  <2>3. at \in Nat /\ size \in Nat /\ off \in Nat /\ next \in Nat
    BY <1>3, <2>1
  <2>4. off < next /\ place = at + size + (next - off) + 2 /\ server.wire[place] = LF
    BY <2>2 DEF IsChunk
  <2>5. place >= 1
    <3> HIDE DEF at, size, off, next, place
    <3> QED BY <2>3, <2>4
  <2> QED BY <2>4, <2>5
<1>5. k < n => k \in 1..(n - 1) /\ k + 1 \in 1..n
  BY <1>3
<1> QED BY <1>2, <1>3, <1>4, <1>5 DEF n

Terminated(w, at, size) ==
  /\ size >= 2 /\ at + size <= Len(w)
  /\ EndsLine(SubSeq(w, at + 1, at + size))
  /\ \A j \in 1..(size - 1) : ~EndsLine(SubSeq(w, at + 1, at + j))

(* The size line that begins after at bytes is complete at the first       *)
(* CR LF, whether it is looked at from its beginning or, with the line     *)
(* feed before it, from the byte before.                                   *)
LEMMA LineComplete ==
  ASSUME NEW w \in Seq(Byte), NEW at \in Nat, NEW size \in Nat, NEW to \in Nat, NEW lo \in {0, 1},
         Terminated(w, at, size), to <= at + size, lo <= at, at - lo <= to,
         lo = 1 => w[at] = LF
  PROVE  /\ EndsLine(SubSeq(w, at - lo + 1, to)) <=> to = at + size
         /\ Len(SubSeq(w, at - lo + 1, to)) = to - at + lo
         /\ HexValue(SubSeq(w, at - lo + 1, at + size)) = HexValue(SubSeq(w, at + 1, at + size))
<1> DEFINE a == at - lo
           end == at + size
<1> USE DEF Terminated
<1>0. a \in Nat /\ end \in Nat /\ a <= to /\ to <= end /\ end <= Len(w) /\ at <= end /\ Len(w) \in Nat
  OBVIOUS
<1>1. Len(SubSeq(w, a + 1, to)) = to - at + lo
  BY <1>0
<1>2. EndsLine(SubSeq(w, a + 1, to)) <=> to - a >= 2 /\ w[to - 1] = CR /\ w[to] = LF
  <2> HIDE DEF a
  <2>1. to <= Len(w)
    BY <1>0
  <2> QED BY <1>0, <2>1, EndsLineAt
<1>3. w[end - 1] = CR /\ w[end] = LF /\ end - at >= 2
  <2> HIDE DEF end
  <2>1. EndsLine(SubSeq(w, at + 1, end)) <=> end - at >= 2 /\ w[end - 1] = CR /\ w[end] = LF
    BY <1>0, EndsLineAt
  <2> QED BY <2>1 DEF end
<1>4. ASSUME to - at >= 2, w[to - 1] = CR, w[to] = LF PROVE to = end
  <2> DEFINE j == to - at
  <2>1. EndsLine(SubSeq(w, at + 1, to))
    <3>1. at <= to /\ to <= Len(w)
      BY <1>0, <1>4
    <3> QED BY <1>4, <3>1, EndsLineAt
  <2>2. j \in Nat /\ at + j = to /\ j >= 1 /\ j <= size
    BY <1>4
  <2>3. j \notin 1..(size - 1)
    BY <2>1, <2>2
  <2> HIDE DEF j
  <2>4. j = size
    BY <2>2, <2>3
  <2> QED BY <2>2, <2>4
<1>5. ASSUME to - a >= 2, w[to - 1] = CR, w[to] = LF PROVE to - at >= 2
  <2> SUFFICES ASSUME ~(to - at >= 2) PROVE FALSE
    BY <1>0
  <2>1. lo = 1 /\ to - 1 = at
    BY <1>5
  <2>2. w[at] = LF /\ w[at] = CR
    BY <1>5, <2>1
  <2> QED BY <2>2 DEF CR, LF
<1>6. to = end => to - a >= 2
  BY <1>0
<1>7. HexValue(SubSeq(w, a + 1, end)) = HexValue(SubSeq(w, at + 1, end))
  <2>1. CASE lo = 0
    <3>1. a + 1 = at + 1
      BY <2>1
    <3> QED BY <3>1
  <2>2. CASE lo = 1
    <3> DEFINE line == SubSeq(w, at + 1, end)
               long == SubSeq(w, at, end)
    <3>1. a + 1 = at /\ at >= 1 /\ w[at] = LF
      BY <2>2
    <3>2. line \in Seq(Byte) /\ Len(line) = size /\ \A i \in 1..size : line[i] = w[at + i]
      BY <1>0
    <3>3. Len(long) = size + 1 /\ \A i \in 1..(size + 1) : long[i] = w[at - 1 + i]
      BY <1>0, <3>1
    <3>4. long \in Seq(Byte)
      BY <1>0, <3>1
    <3> HIDE DEF line, long
    <3>5. <<LF>> \in Seq(Byte)
      BY DEF LF, Byte
    <3>6. long = <<LF>> \o line
      <4> DEFINE lf == <<LF>> \o line
      <4>1. Len(lf) = size + 1 /\ lf[1] = LF /\ \A i \in 1..size : lf[i + 1] = line[i]
        BY <3>2, <3>5
      <4>2. lf \in Seq(Byte)
        BY <3>2, <3>5
      <4> HIDE DEF lf
      <4>3. ASSUME NEW i \in 1..(size + 1) PROVE lf[i] = long[i]
        <5>1. CASE i = 1
          <6>1. long[1] = w[at - 1 + 1] /\ at - 1 + 1 = at
            BY <3>3, <5>1
          <6> QED BY <3>1, <4>1, <5>1, <6>1
        <5>2. CASE i # 1
          <6>1. i - 1 \in 1..size /\ (i - 1) + 1 = i /\ at + (i - 1) = at - 1 + i
            BY <5>2
          <6>2. lf[i] = line[i - 1] /\ line[i - 1] = w[at + (i - 1)]
            BY <3>2, <4>1, <6>1
          <6> QED BY <3>3, <6>1, <6>2
        <5> QED BY <5>1, <5>2
      <4>4. lf = long
        <5>1. lf = [i \in 1..(size + 1) |-> lf[i]] /\ long = [i \in 1..(size + 1) |-> long[i]]
          BY <3>3, <3>4, <4>1, <4>2
        <5> QED BY <4>3, <5>1
      <4> QED BY <4>4 DEF lf
    <3> QED BY <3>1, <3>2, <3>6, HexValueLF DEF line, long
  <2> QED BY <2>1, <2>2
<1> QED BY <1>1, <1>2, <1>3, <1>4, <1>5, <1>6, <1>7

(* s is what has been read, up to the byte at to, of such a line.          *)
ReadsLine(w, at, size, to, s) ==
  /\ Terminated(w, at, size) /\ to <= at + size
  /\ \/ to >= at /\ s = SubSeq(w, at + 1, to)
     \/ to >= at - 1 /\ at >= 1 /\ w[at] = LF /\ s = SubSeq(w, at, to)

LineIsRead(w, at, size, to, s) ==
  /\ EndsLine(s) <=> to = at + size
  /\ Len(s) <= to - at + 1
  /\ to = at + size => HexValue(s) = HexValue(SubSeq(w, at + 1, at + size))

LEMMA LineRead ==
  ASSUME NEW w \in Seq(Byte), NEW at \in Nat, NEW size \in Nat, NEW to \in Nat, NEW s,
         ReadsLine(w, at, size, to, s)
  PROVE  LineIsRead(w, at, size, to, s)
<1> USE DEF ReadsLine, LineIsRead
<1>1. CASE to >= at /\ s = SubSeq(w, at + 1, to)
  <2>1. at - 0 + 1 = at + 1 /\ 0 \in {0, 1} /\ 0 <= at /\ at - 0 <= to /\ to - at + 0 <= to - at + 1
    BY <1>1
  <2>2. /\ EndsLine(SubSeq(w, at - 0 + 1, to)) <=> to = at + size
        /\ Len(SubSeq(w, at - 0 + 1, to)) = to - at + 0
        /\ HexValue(SubSeq(w, at - 0 + 1, at + size)) = HexValue(SubSeq(w, at + 1, at + size))
    BY <1>1, <2>1, LineComplete
  <2> QED BY <1>1, <2>1, <2>2
<1>2. CASE to >= at - 1 /\ at >= 1 /\ w[at] = LF /\ s = SubSeq(w, at, to)
  <2>1. at - 1 + 1 = at /\ 1 \in {0, 1} /\ 1 <= at /\ at - 1 <= to
    BY <1>2
  <2>2. /\ EndsLine(SubSeq(w, at - 1 + 1, to)) <=> to = at + size
        /\ Len(SubSeq(w, at - 1 + 1, to)) = to - at + 1
        /\ HexValue(SubSeq(w, at - 1 + 1, at + size)) = HexValue(SubSeq(w, at + 1, at + size))
    BY <1>2, <2>1, LineComplete
  <2>3. EndsLine(s) <=> to = at + size
    BY <1>2, <2>1, <2>2
  <2>4. Len(s) = to - at + 1
    BY <1>2, <2>1, <2>2
  <2>5. HexValue(SubSeq(w, at, at + size)) = HexValue(SubSeq(w, at + 1, at + size))
    BY <2>1, <2>2
  <2>6. to = at + size => s = SubSeq(w, at, at + size)
    BY <1>2
  <2>7. to = at + size => HexValue(s) = HexValue(SubSeq(w, at + 1, at + size))
    BY <2>5, <2>6
  <2>8. Len(s) <= to - at + 1
    BY <2>4
  <2> QED BY <2>3, <2>7, <2>8
<1> QED BY <1>1, <1>2

(* A size line has been read exactly when szline is complete, and its      *)
(* value is the size of the chunk.                                         *)
LEMMA SizeLineRead ==
  ASSUME ControlInv, FrameInv, server.chunked, NEW k \in 1..Len(server.chunks), AtChunk(k),
         pc = "size"
  PROVE  LET c == server.chunks[k]
         IN  /\ SizeLineDone <=> rpos = c.at + c.size
             /\ SizeLineDone => HexValue(szline) = HexValue(SizeLine(server, c))
<1> DEFINE c == server.chunks[k]
           w == server.wire
           at == c.at
           size == c.size
<1>1. server \in Responses /\ server.status = 200 /\ MaxSizeLine \in Nat
  BY HttpAssumption DEF ControlInv, Streaming
<1>2. w \in Seq(Byte) /\ at \in Nat /\ size \in Nat
  BY <1>1, ServerType
<1>3. rpos \in Nat
  BY DEF FrameInv
<1>4. IsSizeLine(server, c) /\ (k > 1 => at >= 1 /\ w[at] = LF)
  BY <1>1, ChunkFacts
<1>5. size >= 2 /\ size < MaxSizeLine
  <2>1. size \in 2..(MaxSizeLine - 1)
    BY <1>4 DEF IsSizeLine
  <2> HIDE DEF size
  <2> QED BY <1>1, <1>2, <2>1
<1>6. ReadsLine(w, at, size, rpos, szline)
  <2>1. Terminated(w, at, size)
    BY <1>4, <1>5 DEF Terminated, IsSizeLine, SizeLine
  <2>2. /\ rpos <= at + size
        /\ \/ rpos >= at /\ szline = SubSeq(w, at + 1, rpos)
           \/ k > 1 /\ rpos >= at - 1 /\ szline = SubSeq(w, at, rpos)
    BY DEF AtChunk
  <2> QED BY <1>4, <2>1, <2>2 DEF ReadsLine
<1>7. SizeLine(server, c) = SubSeq(w, at + 1, at + size)
  BY DEF SizeLine
<1>8. LineIsRead(w, at, size, rpos, szline)
  <2> HIDE DEF c, w, at, size
  <2> QED BY <1>2, <1>3, <1>6, LineRead
<1> HIDE DEF c, w, at, size
<1>9. Len(szline) = MaxSizeLine => rpos = at + size
  <2>1. rpos <= at + size /\ Len(szline) <= rpos - at + 1
    BY <1>6, <1>8 DEF ReadsLine, LineIsRead
  <2> QED BY <1>1, <1>2, <1>3, <1>5, <2>1
<1>10. SizeLineDone <=> rpos = at + size
  BY <1>8, <1>9 DEF SizeLineDone, LineIsRead
<1>11. SizeLineDone => HexValue(szline) = HexValue(SizeLine(server, c))
  BY <1>7, <1>8, <1>10 DEF LineIsRead
<1> QED BY <1>10, <1>11 DEF c, at, size

-----------------------------------------------------------------------------
(* http_stream_body, or a read before it, gives up.                        *)
LEMMA LeaveFrame ==
  ASSUME FrameInv, pc' \in {"closing", "check"}, r' \in {-1, -2}, UNCHANGED <<server, reading>>
  PROVE  FrameInv'
BY DEF FrameInv, Streaming, reading

LEMMA StayFrame ==
  ASSUME FrameInv, UNCHANGED <<pc, server, reading, status, r>>
  PROVE  FrameInv'
<1>1. \A k : AtChunk(k) => AtChunk(k)'
  BY DEF AtChunk, reading
<1>2. InPlain => InPlain'
  BY DEF InPlain, reading
<1> QED BY <1>1, <1>2 DEF FrameInv, reading

LEMMA FirstChunk ==
  ASSUME server \in Responses, server.status = 200, server.chunked
  PROVE  1 \in 1..Len(server.chunks)
<1>1. WellChunked(server)
  BY FramingAssumption
<1>2. Len(server.chunks) >= 1
  BY <1>1 DEF WellChunked
<1> QED BY <1>2, ServerType

LEMMA HeadersFrame == ASSUME ControlInv, FrameInv, ReadHeaders PROVE FrameInv'
<1>1. rpos = 0 /\ delivered = <<>> /\ Len(delivered) = 0
  BY DEF ReadHeaders, ControlInv, FrameInv
<1>2. pc' \in {"error", "size?", "data"} /\ UNCHANGED <<server, reading>>
  BY DEF ReadHeaders, sending
<1>3. ASSUME pc' = "size?" PROVE \E k \in 1..Len(server.chunks) : AtChunk(k)'
  <2>1. server \in Responses /\ server.status = 200 /\ server.chunked
    BY <1>3 DEF ReadHeaders, ControlInv
  <2>2. 1 \in 1..Len(server.chunks)
    BY <2>1, FirstChunk
  <2>3. server.chunks[1].at = 0 /\ server.chunks[1].off = 0
    BY <2>1, <2>2, ChunkFacts
  <2>4. AtChunk(1)'
    BY <1>1, <1>2, <1>3, <2>3 DEF AtChunk, reading
  <2> QED BY <2>2, <2>4
<1>4. pc' = "data" => InPlain'
  BY <1>1, <1>2 DEF InPlain, reading
<1>5. /\ pc' = "size?" => server.chunked
      /\ pc' = "data" => ~server.chunked
  BY DEF ReadHeaders
<1> QED BY <1>1, <1>2, <1>3, <1>4, <1>5 DEF FrameInv, Streaming, reading

LEMMA RequestFrame == ASSUME ControlInv, FrameInv, Request PROVE FrameInv'
<1>1. CASE ConnectFails \/ WriteFails \/ HeadersFail \/ HeadersUnusable \/ ErrorBodyEnds \/ ErrorBodyFull
  <2>1. pc' \in {"closing", "check"} /\ r' \in {-1, -2} /\ UNCHANGED <<server, reading>>
    BY <1>1 DEF ConnectFails, WriteFails, HeadersFail, HeadersUnusable, ErrorBodyEnds, ErrorBodyFull,
       Lose, ReturnBody, sending
  <2> QED BY <2>1, LeaveFrame
<1>2. CASE Connect \/ BrokenPipe \/ RequestWritten \/ WriteRequest
  <2>1. /\ pc' \in {"write", "headers", "killed"} /\ rpos = 0
        /\ UNCHANGED <<server, reading>>
    BY <1>2 DEF Connect, BrokenPipe, RequestWritten, WriteRequest, Goto, sending, FrameInv
  <2> QED BY <2>1 DEF FrameInv, Streaming, reading
<1>3. CASE ReadHeaders
  BY <1>3, HeadersFrame
<1>4. CASE ReadErrorBody
  <2>1. PICK k \in 1..Unread : rpos' = rpos + k
    BY <1>4 DEF ReadErrorBody
  <2>2. server \in Responses /\ rpos \in 0..Len(server.wire)
    BY DEF ControlInv, FrameInv
  <2>3. Len(server.wire) \in Nat
    BY <2>2, ServerType
  <2>4. rpos' \in 0..Len(server.wire)
    BY <2>1, <2>2, <2>3 DEF Unread
  <2>5. pc' = "error" /\ UNCHANGED <<server, szline, remaining, got, delivered>>
    BY <1>4 DEF ReadErrorBody, sending
  <2> QED BY <2>4, <2>5 DEF FrameInv, Streaming
<1> QED BY <1>1, <1>2, <1>3, <1>4 DEF Request

LEMMA NextChunkFrame == ASSUME ControlInv, FrameInv, NextChunk PROVE FrameInv'
<1>1. server \in Responses /\ server.status = 200
  BY DEF NextChunk, ControlInv, Streaming
<1>2. /\ pc = "size?" /\ pc' = "size" /\ szline' = <<>> /\ Len(szline') = 0
      /\ UNCHANGED <<server, rpos, remaining, got, delivered>>
  BY DEF NextChunk, sending
<1>3. server.chunked
  BY <1>2 DEF FrameInv, InPlain, Streaming
<1>4. PICK k \in 1..Len(server.chunks) : AtChunk(k)
  BY <1>2, <1>3 DEF FrameInv, Streaming
<1> DEFINE at == server.chunks[k].at
           size == server.chunks[k].size
           w == server.wire
<1>5. at \in Nat /\ size \in Nat /\ w \in Seq(Byte) /\ rpos \in Nat
  BY <1>1, ServerType DEF FrameInv
<1>6. k > 1 => at >= 1
  BY <1>1, <1>3, ChunkFacts
<1>7. Len(delivered) = server.chunks[k].off /\ (rpos = at \/ (k > 1 /\ rpos = at - 1))
  BY <1>2, <1>4 DEF AtChunk
<1>8. \/ rpos >= at /\ rpos <= at + size /\ SubSeq(w, at + 1, rpos) = <<>>
      \/ k > 1 /\ rpos >= at - 1 /\ rpos <= at + size /\ SubSeq(w, at, rpos) = <<>>
  <2> HIDE DEF at, size, w
  <2> QED BY <1>5, <1>6, <1>7
<1>9. AtChunk(k)'
  <2>1. /\ Len(delivered') = server'.chunks[k].off
        /\ rpos' <= at + size
        /\ \/ rpos' >= at /\ szline' = SubSeq(w, at + 1, rpos')
           \/ k > 1 /\ rpos' >= at - 1 /\ szline' = SubSeq(w, at, rpos')
    BY <1>2, <1>7, <1>8
  <2> QED BY <1>2, <2>1 DEF AtChunk
<1>10. \E j \in 1..Len(server'.chunks) : AtChunk(j)'
  BY <1>2, <1>4, <1>9
<1>11. szline' \in Seq(Byte) /\ Len(szline') <= MaxSizeLine
  BY <1>2, HttpAssumption
<1> QED BY <1>2, <1>3, <1>10, <1>11 DEF FrameInv, Streaming

LEMMA NextByte ==
  ASSUME NEW w \in Seq(Byte), NEW from \in Nat, NEW to \in Nat, from <= to, to < Len(w)
  PROVE  Append(SubSeq(w, from + 1, to), w[to + 1]) = SubSeq(w, from + 1, to + 1)
<1> DEFINE s == SubSeq(w, from + 1, to)
           t == SubSeq(w, from + 1, to + 1)
           n == to - from
<1>1. n \in Nat /\ Len(w) \in Nat /\ w[to + 1] \in Byte
  OBVIOUS
<1>2. s \in Seq(Byte) /\ Len(s) = n /\ \A i \in 1..n : s[i] = w[from + i]
  OBVIOUS
<1>3. t \in Seq(Byte) /\ Len(t) = n + 1 /\ \A i \in 1..(n + 1) : t[i] = w[from + i]
  OBVIOUS
<1>4. from + (n + 1) = to + 1
  OBVIOUS
<1> HIDE DEF s, t, n
<1> DEFINE x == Append(s, w[to + 1])
<1>5. /\ x \in Seq(Byte) /\ Len(x) = n + 1
      /\ \A i \in 1..n : x[i] = s[i]
      /\ x[n + 1] = w[to + 1]
  BY <1>1, <1>2
<1> HIDE DEF x
<1>6. ASSUME NEW i \in 1..(n + 1) PROVE x[i] = t[i]
  <2>1. CASE i \in 1..n
    BY <1>2, <1>3, <1>5, <2>1
  <2>2. CASE i = n + 1
    BY <1>3, <1>4, <1>5, <2>2
  <2> QED BY <1>1, <2>1, <2>2
<1>7. x = [i \in 1..(n + 1) |-> x[i]] /\ t = [i \in 1..(n + 1) |-> t[i]]
  BY <1>3, <1>5
<1>8. x = t
  BY <1>6, <1>7
<1> QED BY <1>8 DEF x, s, t

LEMMA InChunk ==
  ASSUME ControlInv, FrameInv, pc \in Streaming, pc \in {"size?", "size", "crlf"} \/ server.chunked
  PROVE  /\ server \in Responses /\ server.status = 200 /\ server.chunked
         /\ \E k \in 1..Len(server.chunks) : AtChunk(k)
<1>1. server \in Responses /\ server.status = 200
  BY DEF ControlInv, Streaming
<1>2. server.chunked
  BY DEF FrameInv, InPlain, Streaming
<1> QED BY <1>1, <1>2 DEF FrameInv

LEMMA SizeByteFrame == ASSUME ControlInv, FrameInv, ReadSizeByte PROVE FrameInv'
<1>1. /\ pc = "size" /\ pc' = "size" /\ ~SizeLineDone
      /\ szline' = Append(szline, server.wire[rpos + 1])
      /\ UNCHANGED <<server, remaining, got, delivered>>
  BY DEF ReadSizeByte, sending
<1>2. rpos' = rpos + 1
  BY DEF ReadSizeByte
<1>3. server \in Responses /\ server.status = 200 /\ server.chunked
  BY <1>1, InChunk DEF Streaming
<1>4. PICK k \in 1..Len(server.chunks) : AtChunk(k)
  BY <1>1, InChunk DEF Streaming
<1> DEFINE at == server.chunks[k].at
           size == server.chunks[k].size
           w == server.wire
<1>5. at \in Nat /\ size \in Nat /\ w \in Seq(Byte) /\ Len(w) \in Nat /\ rpos \in Nat
  BY <1>3, ServerType DEF FrameInv
<1>6. at + size <= Len(w) /\ (k > 1 => at >= 1)
  BY <1>3, ChunkFacts DEF IsSizeLine
<1>7. /\ Len(delivered) = server.chunks[k].off /\ rpos <= at + size
      /\ \/ rpos >= at /\ szline = SubSeq(w, at + 1, rpos)
         \/ k > 1 /\ rpos >= at - 1 /\ szline = SubSeq(w, at, rpos)
  BY <1>1, <1>4 DEF AtChunk
<1>8. rpos # at + size
  BY <1>1, <1>3, <1>4, SizeLineRead
<1> HIDE DEF at, size, w
<1>9. rpos < at + size /\ rpos < Len(w) /\ rpos + 1 <= at + size /\ rpos + 1 \in 0..Len(w)
  BY <1>5, <1>6, <1>7, <1>8
<1>10. szline' = Append(szline, w[rpos + 1])
  BY <1>1 DEF w
<1>11. \/ rpos + 1 >= at /\ szline' = SubSeq(w, at + 1, rpos + 1)
       \/ k > 1 /\ rpos + 1 >= at - 1 /\ szline' = SubSeq(w, at, rpos + 1)
  <2>1. CASE rpos >= at /\ szline = SubSeq(w, at + 1, rpos)
    <3>1. Append(SubSeq(w, at + 1, rpos), w[rpos + 1]) = SubSeq(w, at + 1, rpos + 1)
      BY <1>5, <1>9, <2>1, NextByte
    <3>2. rpos + 1 >= at
      BY <1>5, <2>1
    <3> QED BY <1>10, <2>1, <3>1, <3>2
  <2>2. CASE k > 1 /\ rpos >= at - 1 /\ szline = SubSeq(w, at, rpos)
    <3>1. at - 1 \in Nat /\ at - 1 <= rpos /\ at - 1 + 1 = at
      BY <1>5, <1>6, <2>2
    <3>2. Append(SubSeq(w, at - 1 + 1, rpos), w[rpos + 1]) = SubSeq(w, at - 1 + 1, rpos + 1)
      BY <1>5, <1>9, <3>1, NextByte
    <3>3. rpos + 1 >= at - 1
      BY <1>5, <2>2
    <3> QED BY <1>10, <2>2, <3>1, <3>2, <3>3
  <2> QED BY <1>7, <2>1, <2>2
<1>12. AtChunk(k)'
  BY <1>1, <1>2, <1>7, <1>9, <1>11 DEF AtChunk, at, size, w
<1>13. szline' \in Seq(Byte) /\ Len(szline') <= MaxSizeLine
  <2>1. szline \in Seq(Byte) /\ Len(szline) <= MaxSizeLine /\ Len(szline) # MaxSizeLine
    BY <1>1 DEF FrameInv, SizeLineDone
  <2>2. w[rpos + 1] \in Byte
    BY <1>5, <1>9
  <2>3. szline' \in Seq(Byte) /\ Len(szline') = Len(szline) + 1
    BY <1>10, <2>1, <2>2
  <2> QED BY <2>1, <2>3, HttpAssumption
<1>14. \E j \in 1..Len(server'.chunks) : AtChunk(j)'
  BY <1>1, <1>4, <1>12
<1>15. rpos' \in 0..Len(server'.wire)
  BY <1>1, <1>2, <1>9 DEF w
<1> QED BY <1>1, <1>3, <1>13, <1>14, <1>15 DEF FrameInv, Streaming

(* The chunk that a size above 0 announces is not the last one.            *)
LEMMA SizeKnownFrame == ASSUME ControlInv, FrameInv, SizeKnown PROVE FrameInv'
<1>1. /\ pc = "size" /\ pc' = "data" /\ SizeLineDone
      /\ UNCHANGED <<server, rpos, szline, got, delivered>>
  BY DEF SizeKnown, sending
<1>2. HexValue(szline) > 0 /\ remaining' = HexValue(szline)
  BY DEF SizeKnown
<1>3. server \in Responses /\ server.status = 200 /\ server.chunked
  BY <1>1, InChunk DEF Streaming
<1>4. PICK k \in 1..Len(server.chunks) : AtChunk(k)
  BY <1>1, InChunk DEF Streaming
<1> DEFINE c == server.chunks[k]
           d == server.chunks[k + 1]
           n == Len(server.chunks)
           at == c.at
           size == c.size
           off == c.off
           next == d.off
<1>5. at \in Nat /\ size \in Nat /\ off \in Nat /\ n \in Nat /\ rpos \in Nat
  BY <1>3, ServerType DEF FrameInv
<1>6. rpos = at + size /\ HexValue(szline) = HexValue(SizeLine(server, c))
  BY <1>1, <1>3, <1>4, SizeLineRead
<1>7. Len(delivered) = off
  BY <1>1, <1>4 DEF AtChunk
<1>8. k < n
  <2> SUFFICES ASSUME k = n PROVE FALSE
    BY <1>5
  <2>1. IsEnd(server, c)
    BY <1>3, ChunkFacts
  <2>2. HexValue(SizeLine(server, c)) \in Int /\ HexValue(SizeLine(server, c)) <= 0
    BY <2>1 DEF IsEnd
  <2> QED BY <1>2, <1>6, <2>2
<1>9. k + 1 \in 1..n /\ IsChunk(server, c, d)
  BY <1>3, <1>8, ChunkFacts
<1>10. next \in Nat
  BY <1>3, <1>9, ServerType
<1>11. off < next /\ remaining' = next - off
  BY <1>2, <1>6, <1>9 DEF IsChunk
<1> HIDE DEF at, size, off, next, n
<1>12. remaining' \in Nat /\ remaining' > 0 /\ rpos - (at + size) = 0 /\ off + 0 = off
  BY <1>5, <1>6, <1>10, <1>11
<1>13. AtChunk(k)'
  BY <1>1, <1>7, <1>8, <1>11, <1>12 DEF AtChunk, at, size, off, next, n
<1> QED BY <1>1, <1>3, <1>4, <1>12, <1>13 DEF FrameInv, Streaming

(* Only the size of the last chunk is 0.                                   *)
LEMMA LastChunkFrame == ASSUME ControlInv, FrameInv, LastChunk PROVE FrameInv'
<1>1. /\ pc = "size" /\ pc' = "closing" /\ SizeLineDone
      /\ UNCHANGED <<server, szline, remaining, got, delivered>>
  BY DEF LastChunk, ReturnBody, sending
<1>2. HexValue(szline) = 0
  BY DEF LastChunk
<1>3. server \in Responses /\ server.status = 200 /\ server.chunked
  BY <1>1, InChunk DEF Streaming
<1>4. PICK k \in 1..Len(server.chunks) : AtChunk(k)
  BY <1>1, InChunk DEF Streaming
<1> DEFINE c == server.chunks[k]
           n == Len(server.chunks)
           off == c.off
           next == server.chunks[k + 1].off
<1>5. off \in Nat /\ n \in Nat /\ rpos \in Nat /\ Len(server.wire) \in Nat
  BY <1>3, ServerType DEF FrameInv
<1>6. HexValue(SizeLine(server, c)) = 0
  BY <1>1, <1>2, <1>3, <1>4, SizeLineRead
<1>7. k = n
  <2> SUFFICES ASSUME k < n PROVE FALSE
    BY <1>5
  <2>1. k + 1 \in 1..n /\ off < next /\ HexValue(SizeLine(server, c)) = next - off
    BY <1>3, ChunkFacts DEF IsChunk
  <2>2. next \in Nat
    BY <1>3, <2>1, ServerType
  <2> HIDE DEF off, next
  <2> QED BY <1>5, <1>6, <2>1, <2>2
<1>8. off = Len(server.payload)
  <2>1. IsEnd(server, c)
    BY <1>3, <1>7, ChunkFacts
  <2> QED BY <1>6, <2>1 DEF IsEnd
<1>9. Len(delivered) = off
  BY <1>1, <1>4 DEF AtChunk
<1>10. rpos' \in 0..Len(server.wire)
  <2>1. PICK j \in 0..2 : j <= Unread /\ rpos' = rpos + j
    BY DEF LastChunk
  <2> QED BY <1>5, <2>1 DEF Unread
<1> QED BY <1>1, <1>8, <1>9, <1>10 DEF FrameInv, Streaming

LEMMA EndOfChunkFrame == ASSUME ControlInv, FrameInv, EndOfChunk PROVE FrameInv'
<1>1. /\ pc = "crlf" /\ pc' = "size?"
      /\ UNCHANGED <<server, szline, remaining, got, delivered>>
  BY DEF EndOfChunk, sending
<1>2. server \in Responses /\ server.status = 200 /\ server.chunked
  BY <1>1, InChunk DEF Streaming
<1>3. PICK k \in 1..Len(server.chunks) : AtChunk(k)
  BY <1>1, InChunk DEF Streaming
<1>4. PICK j \in 1..2 : j <= Unread /\ rpos' = rpos + j
  BY DEF EndOfChunk
<1> DEFINE n == Len(server.chunks)
           d == server.chunks[k + 1]
           next == d.at
<1>5. k < n /\ rpos = next - 2 /\ Len(delivered) = d.off
  BY <1>1, <1>3 DEF AtChunk
<1>6. k + 1 \in 1..n
  BY <1>2, <1>5, ChunkFacts
<1>7. next \in Nat /\ rpos \in Nat /\ Len(server.wire) \in Nat
  BY <1>2, <1>6, ServerType DEF FrameInv
<1>8. rpos' = next \/ rpos' = next - 1
  <2> HIDE DEF next
  <2> QED BY <1>4, <1>5, <1>7
<1>9. k + 1 > 1
  OBVIOUS
<1>10. AtChunk(k + 1)'
  BY <1>1, <1>5, <1>8, <1>9 DEF AtChunk
<1>11. rpos' \in 0..Len(server.wire)
  BY <1>4, <1>7 DEF Unread
<1>12. \E i \in 1..Len(server'.chunks) : AtChunk(i)'
  BY <1>1, <1>6, <1>10
<1> QED BY <1>1, <1>2, <1>11, <1>12 DEF FrameInv, Streaming

(* on_chunk is called with bytes of the body, from where it was left.      *)
LEMMA Delivering ==
  ASSUME FrameInv, UNCHANGED server, delivered' = delivered \o got,
         \A i \in 1..Len(got) : got[i] = server.payload[Len(delivered) + i]
  PROVE  /\ delivered' \in Seq(Byte) /\ Len(delivered') = Len(delivered) + Len(got)
         /\ \A j \in 1..Len(delivered') : delivered'[j] = server.payload[j]
<1> DEFINE a == Len(delivered)
           g == Len(got)
<1>1. delivered \in Seq(Byte) /\ got \in Seq(Byte) /\ a \in Nat /\ g \in Nat
  BY DEF FrameInv
<1>2. /\ delivered' \in Seq(Byte) /\ Len(delivered') = a + g
      /\ \A j \in 1..a : delivered'[j] = delivered[j]
      /\ \A i \in 1..g : delivered'[a + i] = got[i]
  BY <1>1
<1>3. \A j \in 1..a : delivered[j] = server.payload[j]
  BY DEF FrameInv
<1> HIDE DEF a, g
<1>4. \A i \in 1..g : got[i] = server.payload[a + i]
  BY DEF a, g
<1>5. ASSUME NEW j \in 1..(a + g) PROVE delivered'[j] = server.payload[j]
  <2>1. CASE j \in 1..a
    BY <1>2, <1>3, <2>1
  <2>2. CASE j \notin 1..a
    <3>1. j - a \in 1..g /\ a + (j - a) = j
      BY <1>1, <2>2
    <3> QED BY <1>2, <1>4, <3>1
  <2> QED BY <2>1, <2>2
<1> QED BY <1>2, <1>5 DEF a, g

LEMMA AcceptPlainFrame == ASSUME ControlInv, FrameInv, AcceptPlain PROVE FrameInv'
<1>1. /\ pc = "callback" /\ pc' \in {"closing", "data"} /\ ~server.chunked
      /\ delivered' = delivered \o got
      /\ UNCHANGED <<server, rpos, szline, remaining, got>>
  BY DEF AcceptPlain, sending
<1>2. pc' = "closing" => server.clen >= 0 /\ Len(delivered') >= server.clen
  BY DEF AcceptPlain, LengthReached
<1>3. server \in Responses /\ server.status = 200
  BY <1>1 DEF ControlInv, Streaming
<1>4. server.wire = server.payload /\ (server.clen < 0 \/ server.clen = Len(server.wire))
  BY <1>1, <1>3, FramingAssumption
<1>5. /\ Len(delivered) + Len(got) = rpos
      /\ \A j \in 1..Len(got) : got[j] = server.payload[Len(delivered) + j]
  BY <1>1, <1>4 DEF FrameInv, InPlain, Streaming
<1>6. /\ delivered' \in Seq(Byte) /\ Len(delivered') = Len(delivered) + Len(got)
      /\ \A j \in 1..Len(delivered') : delivered'[j] = server.payload[j]
  BY <1>1, <1>5, Delivering
<1>7. rpos \in 0..Len(server.wire) /\ Len(server.wire) \in Nat /\ server.clen \in Int
  BY <1>3, ServerType, HttpAssumption DEF FrameInv
<1>8. Len(delivered') = rpos /\ Len(delivered') <= Len(server.payload)
  BY <1>4, <1>5, <1>6, <1>7
<1>9. pc' = "closing" => Len(delivered') = Len(server.payload)
  BY <1>2, <1>4, <1>7, <1>8
<1>10. pc' = "data" => InPlain'
  BY <1>1, <1>8 DEF InPlain
<1> QED BY <1>1, <1>6, <1>8, <1>9, <1>10 DEF FrameInv, Streaming

LEMMA AcceptChunkFrame == ASSUME ControlInv, FrameInv, AcceptChunk PROVE FrameInv'
<1>1. /\ pc = "callback" /\ server.chunked
      /\ delivered' = delivered \o got
      /\ UNCHANGED <<server, rpos, szline, got>>
  BY DEF AcceptChunk, sending
<1>2. remaining' = remaining - Len(got)
  BY DEF AcceptChunk
<1>3. pc' = IF remaining' > 0 THEN "data" ELSE "crlf"
  BY DEF AcceptChunk
<1>4. server \in Responses /\ server.status = 200
  BY <1>1, InChunk DEF Streaming
<1>5. PICK k \in 1..Len(server.chunks) : AtChunk(k)
  BY <1>1, InChunk DEF Streaming
<1> DEFINE c == server.chunks[k]
           d == server.chunks[k + 1]
           cs == server.chunks
           n == Len(server.chunks)
           w == server.wire
           p == server.payload
           at == c.at
           size == c.size
           off == c.off
           next == d.off
           place == d.at
           del == Len(delivered)
           g == Len(got)
<1>6. /\ k < n /\ rpos - (at + size) - g >= 0 /\ del = off + (rpos - (at + size)) - g
      /\ remaining = next - del /\ g <= remaining
      /\ \A j \in 1..g : got[j] = w[rpos - g + j]
  BY <1>1, <1>5 DEF AtChunk
<1>7. k + 1 \in 1..n /\ IsChunk(server, c, d) /\ IsSizeLine(server, d)
  BY <1>1, <1>4, <1>6, ChunkFacts
<1>8. /\ off < next /\ place = at + size + (next - off) + 2
      /\ \A j \in 1..(next - off) : w[at + size + j] = p[off + j]
      /\ next <= Len(p)
  BY <1>7 DEF IsChunk, IsSizeLine
<1>9. /\ at \in Nat /\ size \in Nat /\ off \in Nat /\ next \in Nat /\ place \in Nat /\ rpos \in Nat
      /\ del \in Nat /\ g \in Nat /\ remaining \in Nat /\ Len(p) \in Nat
  <2>1. \A j \in 1..n : cs[j].at \in Nat /\ cs[j].size \in Nat /\ cs[j].off \in Nat
    BY <1>4, ServerType
  <2>2. at \in Nat /\ size \in Nat /\ off \in Nat /\ next \in Nat /\ place \in Nat
    BY <1>5, <1>7, <2>1
  <2>3. rpos \in Nat /\ remaining \in Nat /\ got \in Seq(Byte) /\ delivered \in Seq(Byte)
    BY DEF FrameInv
  <2>4. Len(p) \in Nat
    BY <1>4, ServerType
  <2> QED BY <2>2, <2>3, <2>4
<1> HIDE DEF n, at, size, off, next, place, del, g, w, p
<1>10. ASSUME NEW i \in 1..g PROVE got[i] = p[del + i]
  <2> DEFINE j == rpos - (at + size) - g + i
  <2>1. j \in 1..(next - off) /\ at + size + j = rpos - g + i /\ off + j = del + i
    BY <1>6, <1>9
  <2> HIDE DEF j
  <2> QED BY <1>6, <1>8, <2>1
<1>11. /\ delivered' \in Seq(Byte) /\ Len(delivered') = del + g
       /\ \A j \in 1..Len(delivered') : delivered'[j] = server.payload[j]
  <2>1. \A i \in 1..Len(got) : got[i] = server.payload[Len(delivered) + i]
    BY <1>10 DEF g, del, p
  <2> QED BY <1>1, <2>1, Delivering DEF g, del
<1>12. /\ remaining' \in Nat /\ remaining' = next - (del + g) /\ del + g <= Len(p)
       /\ rpos - (at + size) >= 0 /\ del + g = off + (rpos - (at + size))
       /\ remaining' = 0 => rpos = place - 2 /\ del + g = next
  <2> DEFINE body == rpos - (at + size)
             rest == next - (del + g)
  <2>1. remaining' = rest
    <3>1. remaining' = remaining - g /\ remaining = next - del
      BY <1>2, <1>6 DEF g
    <3> QED BY <1>9, <3>1
  <2>2. body \in Int /\ body - g >= 0 /\ del = off + body - g /\ g <= next - del
    BY <1>6, <1>9
  <2>3. body >= 0 /\ del + g = off + body
    BY <1>9, <2>2
  <2>4. rest \in Nat /\ del + g <= Len(p)
    BY <1>8, <1>9, <2>2
  <2>5. rest = 0 => del + g = next /\ rpos = place - 2
    <3> SUFFICES ASSUME rest = 0 PROVE del + g = next /\ rpos = place - 2
      OBVIOUS
    <3>1. del + g = next
      BY <1>9
    <3>2. rpos = at + size + (next - off)
      BY <1>9, <2>3, <3>1
    <3> QED BY <1>8, <1>9, <3>1, <3>2
  <2> QED BY <2>1, <2>3, <2>4, <2>5
<1>13. AtChunk(k)'
  <2>1. CASE remaining' > 0
    BY <1>1, <1>3, <1>6, <1>11, <1>12, <2>1 DEF AtChunk, n, at, size, off, next
  <2>2. CASE remaining' = 0
    BY <1>1, <1>3, <1>6, <1>11, <1>12, <2>2 DEF AtChunk, n, at, size, off, next, place
  <2> QED BY <1>12, <2>1, <2>2
<1>14. pc' \in {"data", "crlf"}
  BY <1>3
<1>15. \E j \in 1..Len(server'.chunks) : AtChunk(j)'
  BY <1>1, <1>5, <1>13
<1>16. Len(delivered') <= Len(server'.payload)
  BY <1>1, <1>11, <1>12 DEF p
<1> QED BY <1>1, <1>11, <1>12, <1>14, <1>15, <1>16 DEF FrameInv, Streaming

LEMMA ReadPiece ==
  ASSUME NEW w \in Seq(Byte), NEW from \in Nat, NEW j \in Nat, from + j <= Len(w)
  PROVE  LET s == SubSeq(w, from + 1, from + j)
         IN  /\ s \in Seq(Byte) /\ Len(s) = j
             /\ \A i \in 1..j : s[i] = w[from + i] /\ from + j - j + i = from + i
OBVIOUS

LEMMA ReadBodyFrame == ASSUME ControlInv, FrameInv, ReadBody PROVE FrameInv'
<1>1. /\ pc = "recv" /\ pc' = "callback"
      /\ UNCHANGED <<server, szline, remaining, delivered>>
  BY DEF ReadBody, sending
<1>2. PICK j \in 1..Want : /\ j <= Unread /\ rpos' = rpos + j
                           /\ got' = SubSeq(server.wire, rpos + 1, rpos + j)
  BY DEF ReadBody
<1>3. server \in Responses /\ server.status = 200
  BY <1>1 DEF ControlInv, Streaming
<1> DEFINE w == server.wire
<1>4. w \in Seq(Byte) /\ Len(w) \in Nat /\ rpos \in Nat /\ remaining \in Nat
  BY <1>3, ServerType DEF FrameInv
<1>5. BufSize \in Nat /\ Want <= BufSize /\ (server.chunked => Want <= remaining)
  BY <1>4, HttpAssumption DEF Want
<1>6. j \in Nat /\ j >= 1 /\ j <= BufSize /\ (server.chunked => j <= remaining) /\ rpos + j <= Len(w)
  BY <1>2, <1>4, <1>5 DEF Want, Unread
<1>7. /\ got' \in Seq(Byte) /\ Len(got') = j
      /\ \A i \in 1..j : got'[i] = w[rpos + i] /\ rpos + j - j + i = rpos + i
  BY <1>2, <1>4, <1>6, ReadPiece
<1>8. rpos' = rpos + j /\ rpos' - j = rpos /\ rpos' \in 0..Len(w)
  BY <1>2, <1>4, <1>6
<1>9. ASSUME server.chunked PROVE \E k \in 1..Len(server.chunks) : AtChunk(k)'
  <2>1. PICK k \in 1..Len(server.chunks) : AtChunk(k)
    BY <1>1, <1>9, InChunk DEF Streaming
  <2> DEFINE at == server.chunks[k].at
             size == server.chunks[k].size
             off == server.chunks[k].off
             next == server.chunks[k + 1].off
             body == rpos - (at + size)
  <2>2. /\ k < Len(server.chunks) /\ body >= 0 /\ Len(delivered) = off + body
        /\ remaining = next - Len(delivered)
    BY <1>1, <2>1 DEF AtChunk
  <2>3. at \in Nat /\ size \in Nat /\ off \in Nat
    BY <1>3, ServerType
  <2> HIDE DEF at, size, off
  <2>4. rpos' - (at + size) - j = body /\ off + (rpos' - (at + size)) - j = off + body
    BY <1>4, <1>6, <1>8, <2>3
  <2>5. \A i \in 1..j : got'[i] = w[rpos' - j + i]
    BY <1>7, <1>8
  <2>6. AtChunk(k)'
    BY <1>1, <1>6, <1>7, <1>9, <2>2, <2>4, <2>5 DEF AtChunk, at, size, off
  <2> QED BY <2>6
<1>10. ASSUME ~server.chunked PROVE InPlain'
  <2>1. Len(delivered) = rpos
    BY <1>1, <1>10 DEF FrameInv, InPlain, Streaming
  <2> QED BY <1>1, <1>7, <1>8, <2>1 DEF InPlain
<1> HIDE DEF w
<1> QED BY <1>1, <1>6, <1>7, <1>8, <1>9, <1>10 DEF FrameInv, Streaming, w

LEMMA AskForBodyFrame == ASSUME ControlInv, FrameInv, AskForBody PROVE FrameInv'
<1>1. pc = "data" /\ pc' = "recv" /\ UNCHANGED <<server, reading>>
  BY DEF AskForBody, Goto, sending
<1>2. \A k : AtChunk(k) => AtChunk(k)'
  BY <1>1 DEF AtChunk, reading
<1>3. InPlain => InPlain'
  BY <1>1 DEF InPlain, reading
<1> QED BY <1>1, <1>2, <1>3 DEF FrameInv, Streaming, reading

LEMMA StreamFrame == ASSUME ControlInv, FrameInv, StreamBody PROVE FrameInv'
<1>1. CASE StopAtInterrupt \/ SizeNegative \/ RefuseChunk \/ ReadEnds
  <2>1. pc' \in {"closing", "check"} /\ r' \in {-1, -2} /\ UNCHANGED <<server, reading>>
    BY <1>1 DEF StopAtInterrupt, SizeNegative, RefuseChunk, ReadEnds, Lose, ReturnBody, sending
  <2> QED BY <2>1, LeaveFrame
<1> QED BY <1>1, NextChunkFrame, SizeByteFrame, SizeKnownFrame, LastChunkFrame, AskForBodyFrame,
           ReadBodyFrame, AcceptChunkFrame, AcceptPlainFrame, EndOfChunkFrame DEF StreamBody

LEMMA EndFrame ==
  ASSUME ControlInv, FrameInv, DiscardIncoming \/ Closed \/ Spin \/ Return PROVE FrameInv'
<1>1. CASE DiscardIncoming
  <2>1. server \in Responses /\ rpos \in 0..Len(server.wire)
    BY DEF ControlInv, FrameInv
  <2>2. Len(server.wire) \in Nat /\ rpos' = rpos + 1 /\ Unread > 0
    BY <1>1, <2>1, ServerType DEF DiscardIncoming
  <2>3. rpos' \in 0..Len(server.wire)
    BY <2>1, <2>2 DEF Unread
  <2> QED BY <1>1, <2>3 DEF DiscardIncoming, FrameInv, Streaming, sending
<1>2. CASE Closed \/ Return
  BY <1>2 DEF Closed, Return, Goto, FrameInv, Streaming, sending, reading
<1>3. CASE Spin
  BY <1>3, StayFrame DEF Spin, vars, sending
<1> QED BY <1>1, <1>2, <1>3

LEMMA FrameInit == TurnInit => FrameInv
<1> SUFFICES ASSUME Init PROVE FrameInv
  BY DEF TurnInit
<1>1. server.wire \in Seq(Byte) /\ server.payload \in Seq(Byte)
  BY HttpAssumption DEF Init
<1>2. Len(<<>>) = 0 /\ <<>> \in Seq(Byte)
  OBVIOUS
<1> QED BY <1>1, <1>2, HttpAssumption DEF Init, FrameInv, Streaming

LEMMA FrameStep == ControlInv /\ FrameInv /\ [TurnNext]_turnVars => FrameInv'
<1> SUFFICES ASSUME ControlInv, FrameInv, [TurnNext]_turnVars PROVE FrameInv'
  OBVIOUS
<1>1. CASE do_turn
  BY <1>1, RequestFrame, StreamFrame, EndFrame DEF do_turn
<1>2. CASE interrupt' = TRUE /\ UNCHANGED <<pc, sending, reading, status, r, result, failed>>
  BY <1>2, StayFrame DEF sending
<1>3. CASE HangUp
  BY <1>3, StayFrame DEF HangUp
<1>4. CASE UNCHANGED vars
  BY <1>4, StayFrame DEF vars, sending
<1>5. CASE EndOfStream
  BY <1>5, EndOfStreamIs DEF FrameInv, Streaming, sending, reading
<1> QED BY <1>1, <1>2, <1>3, <1>4, <1>5, TurnStepIs

-----------------------------------------------------------------------------
LEMMA PrefixIs ==
  ASSUME NEW s \in Seq(Byte), NEW t \in Seq(Byte), Len(s) <= Len(t),
         \A j \in 1..Len(s) : s[j] = t[j]
  PROVE  IsPrefix(s, t) /\ (Len(s) = Len(t) => s = t)
<1> DEFINE n == Len(s)
           u == SubSeq(s, 1, n)
           v == SubSeq(t, 1, n)
<1>1. n \in Nat /\ Len(t) \in Nat
  OBVIOUS
<1>2. u \in Seq(Byte) /\ Len(u) = n /\ \A j \in 1..n : u[j] = s[j]
  OBVIOUS
<1>3. v \in Seq(Byte) /\ Len(v) = n /\ \A j \in 1..n : v[j] = t[j]
  OBVIOUS
<1> HIDE DEF u, v
<1>4. u = v
  <2>1. u = [j \in 1..n |-> u[j]] /\ v = [j \in 1..n |-> v[j]]
    BY <1>2, <1>3
  <2>2. \A j \in 1..n : u[j] = v[j]
    BY <1>2, <1>3
  <2> QED BY <2>1, <2>2
<1>5. ASSUME n = Len(t) PROVE s = t
  <2>1. s = [j \in 1..n |-> s[j]] /\ t = [j \in 1..n |-> t[j]]
    BY <1>5
  <2> QED BY <2>1
<1> QED BY <1>4, <1>5 DEF IsPrefix, u, v

(* For every server, every framing and every way the reads return, on_chunk*)
(* has been given a prefix of the body; a body that ended with 0 is whole. *)
THEOREM FramingIsExact == TurnSpec => []FramingExact
<1>1. ControlInv /\ FrameInv => FramingExact
  <2> SUFFICES ASSUME ControlInv, FrameInv PROVE FramingExact
    OBVIOUS
  <2>1. delivered \in Seq(Byte) /\ server.payload \in Seq(Byte)
    BY ServerType DEF ControlInv, FrameInv
  <2>2. IsPrefix(delivered, server.payload)
        /\ (Len(delivered) = Len(server.payload) => delivered = server.payload)
    BY <2>1, PrefixIs DEF FrameInv
  <2> QED BY <2>2 DEF FrameInv, FramingExact
<1> QED BY <1>1, ControlInit, ControlStep, FrameInit, FrameStep, PTL DEF TurnSpec

-----------------------------------------------------------------------------
(* do_turn as an implementation of Delivery.                               *)
LEMMA PlacesOfDelivery ==
  ASSUME ControlInv
  PROVE  /\ pc # "done" => Outcome = "pending"
         /\ pc = "done" => Outcome # "pending"
BY DEF ControlInv, Outcome

LEMMA DeliveryInit == TurnInit => Abstract!Init
<1> SUFFICES ASSUME Init PROVE Abstract!Init
  BY DEF TurnInit
<1>1. Len(server.payload) \in Nat
  BY ServerType DEF Init
<1>2. interrupt = FALSE
  BY Zenon DEF Init
<1>3. Len(delivered) = 0 /\ Outcome = "pending"
  BY DEF Init, Outcome
<1> QED BY <1>1, <1>2, <1>3 DEF Abstract!Init

(* Calling on_chunk is Deliver: a piece is never empty.                    *)
LEMMA AcceptDelivers ==
  ASSUME ControlInv, FrameInv, FrameInv', AcceptChunk \/ AcceptPlain
  PROVE  Abstract!Deliver
<1>1. /\ pc = "callback" /\ ~interrupt /\ delivered' = delivered \o got
      /\ UNCHANGED <<server, interrupt, result>>
  BY DEF AcceptChunk, AcceptPlain, sending
<1>2. got \in Seq(Byte) /\ Len(got) >= 1 /\ delivered \in Seq(Byte)
  BY <1>1 DEF FrameInv
<1>3. Len(delivered') = Len(delivered) + Len(got)
  BY <1>1, <1>2
<1>4. Len(delivered') <= Len(server.payload)
  BY <1>1 DEF FrameInv
<1>5. Len(server.payload) \in Nat
  BY ServerType DEF ControlInv
<1>6. Len(delivered') \in (Len(delivered) + 1)..Len(server.payload)
  BY <1>2, <1>3, <1>4, <1>5
<1>7. Outcome = "pending" /\ UNCHANGED Outcome
  BY <1>1, PlacesOfDelivery DEF Outcome
<1> QED BY <1>1, <1>6, <1>7 DEF Abstract!Deliver

LEMMA ReturnReturns == ASSUME ControlInv, Return PROVE Abstract!Return
<1>1. pc = "check" /\ result' = Result /\ UNCHANGED <<server, delivered, interrupt>>
  BY DEF Return, sending, reading
<1>2. /\ Result \in {0, -1, -2, -3}
      /\ interrupt <=> Result = -2
      /\ Result \in {-1, -3} => delivered = <<>>
  BY <1>1, ResultIs
<1>3. Outcome = "pending"
  BY <1>1, PlacesOfDelivery
<1>4. Outcome' = CASE Result = 0 -> "answer" [] Result = -2 -> "interrupted" [] OTHER -> "error"
  BY <1>1, <1>2 DEF Outcome
<1>5. Outcome' \in IF interrupt THEN {"interrupted"} ELSE {"answer", "error"}
  BY <1>2, <1>4
<1>6. Outcome' = "error" => Len(delivered) = 0
  BY <1>2, <1>4
<1> QED BY <1>1, <1>3, <1>5, <1>6 DEF Abstract!Return

LEMMA OthersStutter ==
  ASSUME do_turn, ~AcceptChunk, ~AcceptPlain, ~Return
  PROVE  UNCHANGED <<server, delivered, interrupt, result>>
<1>1. CASE Request
  <2>1. CASE Connect \/ ConnectFails \/ WriteRequest \/ BrokenPipe \/ WriteFails \/ RequestWritten
    BY <2>1 DEF Connect, ConnectFails, WriteRequest, BrokenPipe, WriteFails, RequestWritten,
       Goto, Lose, sending, reading
  <2>2. CASE ReadHeaders \/ HeadersUnusable \/ HeadersFail
    BY <2>2 DEF ReadHeaders, HeadersUnusable, HeadersFail, Lose, sending, reading
  <2>3. CASE ReadErrorBody \/ ErrorBodyFull \/ ErrorBodyEnds
    BY <2>3 DEF ReadErrorBody, ErrorBodyFull, ErrorBodyEnds, Lose, ReturnBody, sending, reading
  <2> QED BY <1>1, <2>1, <2>2, <2>3 DEF Request
<1>2. CASE StreamBody
  <2>1. CASE StopAtInterrupt \/ NextChunk \/ ReadSizeByte \/ SizeKnown
    BY <2>1 DEF StopAtInterrupt, NextChunk, ReadSizeByte, SizeKnown, ReturnBody, sending, reading
  <2>2. CASE SizeNegative \/ LastChunk \/ AskForBody
    BY <2>2 DEF SizeNegative, LastChunk, AskForBody, Goto, ReturnBody, sending, reading
  <2>3. CASE ReadBody \/ RefuseChunk \/ EndOfChunk \/ ReadEnds
    BY <2>3 DEF ReadBody, RefuseChunk, EndOfChunk, ReadEnds, Lose, ReturnBody, sending, reading
  <2> QED BY <1>2, <2>1, <2>2, <2>3 DEF StreamBody
<1>3. CASE DiscardIncoming \/ Closed \/ Spin
  BY <1>3 DEF DiscardIncoming, Closed, Spin, vars, Goto, sending, reading
<1> QED BY <1>1, <1>2, <1>3 DEF do_turn

LEMMA DeliveryStep ==
  ControlInv /\ FrameInv /\ FrameInv' /\ [TurnNext]_turnVars => [Abstract!Next]_(Abstract!vars)
<1> SUFFICES ASSUME ControlInv, FrameInv, FrameInv', [TurnNext]_turnVars
             PROVE  [Abstract!Next]_(Abstract!vars)
  OBVIOUS
<1>1. CASE AcceptChunk \/ AcceptPlain
  BY <1>1, AcceptDelivers DEF Abstract!Next
<1>2. CASE Return
  BY <1>2, ReturnReturns DEF Abstract!Next
<1>3. CASE UNCHANGED <<server, delivered, interrupt, result>>
  BY <1>3 DEF Abstract!vars, Outcome
<1>4. CASE interrupt' = TRUE /\ UNCHANGED <<pc, sending, reading, status, r, result, failed>>
  <2>1. UNCHANGED <<server, delivered, Outcome>>
    BY <1>4 DEF sending, reading, Outcome
  <2>2. CASE interrupt
    <3>1. interrupt' = interrupt
      BY Zenon, <1>4, <2>2
    <3> QED BY <2>1, <3>1 DEF Abstract!vars
  <2>3. CASE ~interrupt
    BY <1>4, <2>1, <2>3 DEF Abstract!Interrupt, Abstract!Next
  <2> QED BY <2>2, <2>3
<1>5. CASE HangUp
  BY <1>3, <1>5 DEF HangUp, reading
<1>8. CASE EndOfStream
  BY <1>3, <1>8, EndOfStreamIs DEF sending, reading
<1>6. CASE UNCHANGED vars
  BY <1>3, <1>6 DEF vars, sending, reading
<1>7. CASE do_turn
  BY <1>1, <1>2, <1>3, <1>7, OthersStutter
<1> QED BY <1>4, <1>5, <1>6, <1>7, <1>8, TurnStepIs

(* do_turn hands the body over in order, once and nothing else, nothing    *)
(* after SIGINT, and reports an error only if nothing was handed over      *)
(* (main.c:387, 455): each step of Turn is one of Delivery or none.        *)
THEOREM TurnImplementsDelivery == TurnSpec => ImplementsDelivery
<1> QED BY DeliveryInit, DeliveryStep, ControlInit, ControlStep, FrameInit, FrameStep, PTL
        DEF TurnSpec, ImplementsDelivery, Abstract!Spec

-----------------------------------------------------------------------------
(* The types of what the invariants above leave open.                      *)
AddressInv ==
  /\ addresses \in 0..MaxAddresses /\ blocking \in BOOLEAN
  /\ cpc \in {"connect", "select"} => addresses >= 1

OutputInv ==
  /\ written <= MaxOutput /\ report \in S!Report
  /\ truncated \in BOOLEAN /\ holder \in BOOLEAN /\ stopped \in BOOLEAN

RoundInv ==
  turn \in {"request", "tools", "over", "next request"} /\ calls \in 0..MaxCalls

LEMMA AddressTried ==
  ASSUME AddressInv, cpc \in {"connect", "select"}, C!NextAddress PROVE AddressInv'
<1>1. addresses \in 0..MaxAddresses /\ addresses >= 1 /\ MaxAddresses \in Nat
  BY TurnAssumption DEF AddressInv
<1>2. addresses' = addresses - 1
  BY DEF C!NextAddress
<1>3. addresses' \in 0..MaxAddresses
  BY <1>1, <1>2
<1>4. blocking' \in BOOLEAN
  BY Zenon DEF C!NextAddress, AddressInv
<1>5. cpc' = "socket"
  BY DEF C!NextAddress
<1> QED BY <1>3, <1>4, <1>5 DEF AddressInv

LEMMA AddressConnected == ASSUME AddressInv, C!Connected PROVE AddressInv'
<1>1. blocking' \in BOOLEAN
  BY Zenon DEF C!Connected
<1>2. addresses' = addresses /\ cpc' = "connected"
  BY DEF C!Connected
<1> QED BY <1>1, <1>2 DEF AddressInv

LEMMA AddressKept ==
  ASSUME AddressInv, UNCHANGED <<addresses, blocking>>, cpc' \notin {"connect", "select"} \/ cpc' = cpc
  PROVE  AddressInv'
<1>1. blocking' \in BOOLEAN
  BY Zenon DEF AddressInv
<1> QED BY <1>1 DEF AddressInv

LEMMA AddressWalk == ASSUME AddressInv, C!tcp_connect PROVE AddressInv'
<1>1. CASE C!Resolve
  <2>1. addresses' \in 0..MaxAddresses /\ cpc' = "socket"
    BY <1>1, TurnAssumption DEF C!Resolve
  <2>2. blocking' \in BOOLEAN
    BY Zenon, <1>1 DEF C!Resolve, AddressInv
  <2> QED BY <2>1, <2>2 DEF AddressInv
<1>2. CASE C!ResolveFails \/ C!NoAddressLeft
  BY <1>2, AddressKept DEF C!ResolveFails, C!NoAddressLeft
<1>3. CASE C!SocketFails
  <2>1. addresses > 0 /\ addresses' = addresses - 1 /\ addresses \in 0..MaxAddresses
    BY <1>3 DEF C!SocketFails, AddressInv
  <2>2. addresses' \in 0..MaxAddresses
    BY <2>1, TurnAssumption
  <2>3. blocking' \in BOOLEAN
    BY Zenon, <1>3 DEF C!SocketFails, AddressInv
  <2>4. cpc' = "socket"
    BY <1>3 DEF C!SocketFails
  <2> QED BY <2>2, <2>3, <2>4 DEF AddressInv
<1>4. CASE C!StartConnect
  <2>1. addresses > 0 /\ addresses' = addresses /\ addresses \in 0..MaxAddresses
    BY <1>4 DEF C!StartConnect, AddressInv
  <2>2. addresses >= 1
    BY <2>1, TurnAssumption
  <2>3. blocking' \in BOOLEAN
    BY Zenon, <1>4 DEF C!StartConnect
  <2> QED BY <2>1, <2>2, <2>3 DEF AddressInv
<1>5. CASE C!ConnectReturns
  <2>1. CASE cpc' = "select" /\ UNCHANGED <<addresses, sockets, blocking>>
    <3>1. blocking' \in BOOLEAN
      BY Zenon, <2>1 DEF AddressInv
    <3>2. cpc = "connect"
      BY <1>5 DEF C!ConnectReturns
    <3> QED BY <2>1, <3>1, <3>2 DEF AddressInv
  <2> QED BY <1>5, <2>1, AddressConnected, AddressTried DEF C!ConnectReturns
<1>6. CASE C!SelectFails
  BY <1>6, AddressTried DEF C!SelectFails
<1>7. CASE C!SelectReturns
  BY <1>7, AddressConnected, AddressTried DEF C!SelectReturns
<1> QED BY <1>1, <1>2, <1>3, <1>4, <1>5, <1>6, <1>7 DEF C!tcp_connect

LEMMA AddressStep == AddressInv /\ [TurnNext]_turnVars => AddressInv'
<1> SUFFICES ASSUME AddressInv, [TurnNext]_turnVars PROVE AddressInv'
  OBVIOUS
<1>0. UNCHANGED connectVars => AddressInv'
  BY AddressKept DEF connectVars
<1>1. CASE Connecting
  BY <1>0, <1>1, AddressWalk DEF Connecting
<1>2. CASE Posting
  BY <1>0, <1>2, AddressKept, PostingIs DEF C!Close
<1>3. CASE SigintAnywhere
  BY <1>0, <1>3, AddressTried DEF SigintAnywhere, C!SelectFails
<1>4. CASE Answered \/ DispatchShell \/ RunShell \/ ToolsDone \/ ShellEnds \/ CommandRuns \/ TurnStopped
           \/ ServerHangsUp \/ ServerEndsStream \/ UNCHANGED turnVars
  BY <1>0, <1>4 DEF Answered, DispatchShell, RunShell, ToolsDone, ShellEnds, CommandRuns, TurnStopped,
                    ServerHangsUp, ServerEndsStream, turnVars
<1> QED BY <1>1, <1>2, <1>3, <1>4 DEF TurnNext, chat_turn

LEMMA OutputKept ==
  ASSUME OutputInv, UNCHANGED <<written, truncated, holder, stopped, report>> PROVE OutputInv'
<1>1. truncated' \in BOOLEAN /\ holder' \in BOOLEAN /\ stopped' \in BOOLEAN
  BY Zenon DEF OutputInv
<1> QED BY <1>1 DEF OutputInv

LEMMA OutputStarts == ASSUME OutputInv, S!Popen \/ S!PopenFails PROVE OutputInv'
<1>1. S!NoReport \in S!Report
  BY DEF S!NoReport, S!Report
<1>2. CASE S!Popen
  <2>1. truncated' \in BOOLEAN /\ holder' \in BOOLEAN /\ stopped' \in BOOLEAN
    BY Zenon, <1>2 DEF S!Popen
  <2>2. written' <= MaxOutput
    BY <1>2, TurnAssumption DEF S!Popen
  <2>3. report' = S!NoReport
    BY <1>2 DEF S!Popen
  <2> QED BY <1>1, <2>1, <2>2, <2>3 DEF OutputInv
<1>3. CASE S!PopenFails
  <2>1. truncated' \in BOOLEAN /\ holder' \in BOOLEAN /\ stopped' \in BOOLEAN
    BY Zenon, <1>3 DEF S!PopenFails, OutputInv
  <2> QED BY <1>1, <1>3, <2>1 DEF S!PopenFails, OutputInv
<1> QED BY <1>2, <1>3

LEMMA OutputAppended ==
  ASSUME OutputInv, S!Append(gathered), UNCHANGED stopped PROVE OutputInv'
<1>1. truncated' \in BOOLEAN /\ holder' \in BOOLEAN /\ stopped' \in BOOLEAN
  <2>1. truncated' = (length' > Cap) /\ UNCHANGED holder
    BY Zenon DEF S!Append
  <2>2. (length' > Cap) \in BOOLEAN
    OBVIOUS
  <2> QED BY Zenon, <2>1, <2>2 DEF OutputInv
<1>2. UNCHANGED <<written, report>>
  BY DEF S!Append
<1> QED BY <1>1, <1>2 DEF OutputInv

LEMMA OutputReported == ASSUME ShellInv, OutputInv, S!Pclose PROVE OutputInv'
<1>1. UNCHANGED <<written, truncated, holder, stopped>>
  BY DEF S!Pclose
<1>2. truncated' \in BOOLEAN /\ holder' \in BOOLEAN /\ stopped' \in BOOLEAN
  BY Zenon, <1>1 DEF OutputInv
<1>3. sh \in {"running", "exited", "killed"} /\ length \in Nat /\ nul \in Nat
  BY DEF ShellInv, ShellCounts, ShellEnd
<1>4. truncated \in BOOLEAN
  BY Zenon DEF OutputInv
<1>5. report' \in S!Report
  <2>1. CASE S!Cut
    <3>1. nul - 1 \in Nat
      BY <1>3, <2>1 DEF S!Cut
    <3>2. report' = [shown |-> nul - 1, note |-> FALSE, end |-> ""]
      BY <2>1 DEF S!Pclose
    <3> QED BY <3>1, <3>2 DEF S!Report
  <2>2. CASE ~S!Cut
    <3>1. report' = [shown |-> length, note |-> truncated, end |-> sh]
      BY <2>2 DEF S!Pclose
    <3> QED BY <1>3, <1>4, <3>1 DEF S!Report
  <2> QED BY <2>1, <2>2
<1> QED BY <1>1, <1>2, <1>5 DEF OutputInv

LEMMA OutputRuns == ASSUME ShellInv, OutputInv, S!run_shell PROVE OutputInv'
<1>1. CASE S!Gather \/ S!OutputEnds
  BY <1>1, OutputKept DEF S!Gather, S!OutputEnds
<1>2. CASE S!ChunkFull \/ S!ChunkLast
  BY <1>2, OutputAppended DEF S!ChunkFull, S!ChunkLast
<1> QED BY <1>1, <1>2, OutputReported DEF S!run_shell

LEMMA OutputInterrupted == ASSUME OutputInv, S!ReadInterrupted PROVE OutputInv'
<1>1. CASE S!Append(gathered) /\ UNCHANGED stopped
  BY <1>1, OutputAppended
<1>2. CASE stopped' = TRUE /\ UNCHANGED <<written, truncated, holder, report>>
  <2>1. truncated' \in BOOLEAN /\ holder' \in BOOLEAN /\ stopped' \in BOOLEAN
    BY Zenon, <1>2 DEF OutputInv
  <2> QED BY <1>2, <2>1 DEF OutputInv
<1> QED BY <1>1, <1>2 DEF S!ReadInterrupted

LEMMA OutputWritten ==
  ASSUME ShellInv, OutputInv, S!ShellEnds \/ S!Writes \/ S!HolderEnds PROVE OutputInv'
<1>1. CASE S!ShellEnds
  BY <1>1, OutputKept DEF S!ShellEnds
<1>2. ASSUME NEW zero \in BOOLEAN, S!WriteByte(zero) PROVE OutputInv'
  <2>1. truncated' \in BOOLEAN /\ holder' \in BOOLEAN /\ stopped' \in BOOLEAN
    BY Zenon, <1>2 DEF S!WriteByte, OutputInv
  <2>2. written < MaxOutput /\ written' = written + 1 /\ report' = report
    BY <1>2 DEF S!WriteByte
  <2>3. written \in Nat /\ MaxOutput \in Nat
    BY TurnAssumption DEF ShellInv, ShellCounts
  <2>4. written' <= MaxOutput
    BY <2>2, <2>3
  <2> QED BY <2>1, <2>2, <2>4 DEF OutputInv
<1>3. CASE S!HolderEnds
  <2>1. truncated' \in BOOLEAN /\ holder' \in BOOLEAN /\ stopped' \in BOOLEAN
    BY Zenon, <1>3 DEF S!HolderEnds, OutputInv
  <2> QED BY <1>3, <2>1 DEF S!HolderEnds, OutputInv
<1> QED BY <1>1, <1>2, <1>3 DEF S!Writes

LEMMA OutputStep == ShellInv /\ OutputInv /\ [TurnNext]_turnVars => OutputInv'
<1> SUFFICES ASSUME ShellInv, OutputInv, [TurnNext]_turnVars PROVE OutputInv'
  OBVIOUS
<1>0. UNCHANGED shellVars => OutputInv'
  BY OutputKept DEF shellVars
<1>1. CASE Connecting \/ Posting \/ Answered \/ ToolsDone \/ ServerHangsUp \/ ServerEndsStream
           \/ TurnStopped \/ UNCHANGED turnVars
  BY <1>0, <1>1, PostingIs DEF Connecting, Answered, ToolsDone, ServerHangsUp, ServerEndsStream,
     TurnStopped, turnVars
<1>2. CASE DispatchShell
  BY <1>2, OutputStarts DEF DispatchShell
<1>3. CASE RunShell
  BY <1>3, OutputRuns DEF RunShell
<1>4. CASE SigintAnywhere
  BY <1>0, <1>4, OutputInterrupted DEF SigintAnywhere
<1>5. CASE ShellEnds \/ CommandRuns
  BY <1>5, OutputWritten DEF ShellEnds, CommandRuns
<1> QED BY <1>1, <1>2, <1>3, <1>4, <1>5 DEF TurnNext, chat_turn

LEMMA RoundStep == RoundInv /\ [TurnNext]_turnVars => RoundInv'
<1> SUFFICES ASSUME RoundInv, [TurnNext]_turnVars PROVE RoundInv'
  OBVIOUS
<1>1. CASE Answered
  <2>1. calls' \in 0..MaxCalls
    BY <1>1, TurnAssumption DEF Answered, Wanted
  <2>2. turn' \in {"tools", "over"}
    BY <1>1 DEF Answered
  <2> QED BY <2>1, <2>2 DEF RoundInv
<1>2. CASE DispatchShell
  <2>1. calls > 0 /\ calls' = calls - 1 /\ turn' = turn
    BY <1>2 DEF DispatchShell
  <2>2. calls \in 0..MaxCalls /\ MaxCalls \in Nat
    BY TurnAssumption DEF RoundInv
  <2>3. calls' \in 0..MaxCalls
    BY <2>1, <2>2
  <2> QED BY <2>1, <2>3 DEF RoundInv
<1>3. CASE ToolsDone
  BY <1>3 DEF ToolsDone, RoundInv
<1>4. CASE Connecting \/ Posting \/ RunShell \/ SigintAnywhere \/ ServerHangsUp
           \/ ServerEndsStream \/ ShellEnds \/ CommandRuns \/ TurnStopped \/ UNCHANGED turnVars
  <2>1. UNCHANGED <<turn, calls>>
    BY <1>4, PostingIs DEF Connecting, RunShell, SigintAnywhere, ServerHangsUp, ServerEndsStream,
                ShellEnds, CommandRuns, TurnStopped, turnVars
  <2> QED BY <2>1 DEF RoundInv
<1> QED BY <1>1, <1>2, <1>3, <1>4 DEF TurnNext, chat_turn

LEMMA TypesInit == TurnInit => AddressInv /\ OutputInv /\ RoundInv
<1> SUFFICES ASSUME TurnInit PROVE AddressInv /\ OutputInv /\ RoundInv
  OBVIOUS
<1>1. blocking \in BOOLEAN
  BY Zenon DEF TurnInit, C!ConnectInit
<1>2. AddressInv
  BY <1>1, TurnAssumption DEF TurnInit, C!ConnectInit, AddressInv
<1>3. truncated \in BOOLEAN /\ holder \in BOOLEAN /\ stopped \in BOOLEAN
  BY Zenon DEF TurnInit, S!ShellInit
<1>4. S!NoReport \in S!Report
  BY DEF S!NoReport, S!Report
<1>5. written <= MaxOutput /\ report = S!NoReport
  BY TurnAssumption DEF TurnInit, S!ShellInit
<1>6. RoundInv
  BY TurnAssumption DEF TurnInit, RoundInv
<1> QED BY <1>2, <1>3, <1>4, <1>5, <1>6 DEF OutputInv

(* The buffers of a request, the walk over the addresses and a shell call  *)
(* hold what they are given (main.c:56, 150, 190, 290, 520).               *)
THEOREM TurnTypeCorrect == TurnSpec => []TurnTypeOK
<1>1. ControlInv /\ FrameInv => TypeOK
  BY DEF ControlInv, FrameInv, TypeOK, Places
<1>2. SocketInv /\ AddressInv => C!ConnectTypeOK
  <2> SUFFICES ASSUME SocketInv, AddressInv PROVE C!ConnectTypeOK
    OBVIOUS
  <2>1. blocking \in BOOLEAN
    BY Zenon DEF AddressInv
  <2>2. sockets \in 0..1
    <3>1. sockets = 0 \/ sockets = 1
      BY Zenon DEF SocketInv
    <3> QED BY <3>1
  <2>3. cpc \in {"getaddrinfo", "socket", "connect", "select", "connected", "gave up"}
    BY DEF SocketInv
  <2> QED BY <2>1, <2>2, <2>3 DEF AddressInv, C!ConnectTypeOK
<1>3. ShellInv /\ OutputInv => S!ShellTypeOK
  <2> SUFFICES ASSUME ShellInv, OutputInv PROVE S!ShellTypeOK
    OBVIOUS
  <2>1. truncated \in BOOLEAN /\ holder \in BOOLEAN /\ stopped \in BOOLEAN
    BY Zenon DEF OutputInv
  <2>2. /\ written \in 0..MaxOutput /\ nul \in 0..written
        /\ gathered \in 0..ChunkSize /\ length \in 0..(Cap + ChunkSize)
        /\ gathered + length <= written
    BY TurnAssumption DEF ShellInv, ShellCounts, OutputInv
  <2>3. spc \in {"idle", "fread", "pclose"} /\ sh \in {"running", "exited", "killed"}
    BY DEF ShellInv, ShellEnd
  <2> QED BY <2>1, <2>2, <2>3 DEF OutputInv, S!ShellTypeOK
<1>4. ControlInv /\ FrameInv /\ SocketInv /\ AddressInv /\ ShellInv /\ OutputInv /\ RoundInv
        => TurnTypeOK
  BY <1>1, <1>2, <1>3 DEF RoundInv, TurnTypeOK
<1> QED BY <1>4, ControlInit, ControlStep, FrameInit, FrameStep, InitSockets, SocketStep, InitShell,
        ShellStep, TypesInit, AddressStep, OutputStep, RoundStep, PTL DEF TurnSpec
=============================================================================
