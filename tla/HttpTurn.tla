------------------------------ MODULE HttpTurn ------------------------------
(***************************************************************************)
(* One request as do_turn makes it: http_post_sse connects, writes the     *)
(* request, reads the header block and the body, and closes the            *)
(* connection; do_turn turns the outcome into 0, -1, -2 or -3.             *)
(*                                                                         *)
(* A read returns as many bytes as it likes, the server may stop sending   *)
(* or hang up anywhere, and SIGINT may arrive between any two steps.  A    *)
(* br_sslio_read returns -1, never 0, after a close_notify, a reset or     *)
(* 30 s of silence.  When the stream just ends, sock_read returns 0, which *)
(* run_until takes for "nothing yet": it asks again, at once, for ever.    *)
(***************************************************************************)
EXTENDS Integers, Sequences, SequencesExt

CONSTANTS
  MaxSizeLine,   (* sizeof szline - 1.                                     *)
  BufSize,       (* sizeof buf.                                            *)
  MaxHeader,     (* sizeof hdr - 1.                                        *)
  MaxErrHead,    (* err_head_sz - 1.                                       *)
  RequestWrites, (* Records the request needs.                             *)
  Responses      (* What the server can answer.                            *)

(***************************************************************************)
(* A response: its status, the length of its header block (0: the server   *)
(* sends none), how the body is framed, the Content-Length (-1: none), the *)
(* bytes that follow the header block, the body they stand for, and        *)
(* whether that body is an error that mentions the context length.         *)
(* A byte of the wire is a number: 0..15 are the hexadecimal digits.       *)
(*                                                                         *)
(* chunks is what the server means by the framing and the program does not *)
(* see: how many bytes of the wire precede each size line, how many the    *)
(* line has, and how many of the body precede its chunk.                   *)
(***************************************************************************)
CR == 16
LF == 17
Minus == 18
Other == 19

Byte == 0..19

Mark == [at : Nat, size : Nat, off : Nat]

Response == [status : {200, 400, 500}, header : Nat, chunked : BOOLEAN, clen : Int,
             wire : Seq(Byte), payload : Seq(Byte), chunks : Seq(Mark), overflow : BOOLEAN]

ASSUME HttpAssumption ==
  /\ MaxSizeLine \in Nat \ {0} /\ BufSize \in Nat \ {0} /\ MaxHeader \in Nat \ {0}
  /\ MaxErrHead \in Nat \ {0} /\ RequestWrites \in Nat \ {0}
  /\ \A resp \in Responses :
       /\ resp.status \in {200, 400, 500} /\ resp.header \in Nat /\ resp.clen \in Int
       /\ resp.chunked \in BOOLEAN /\ resp.overflow \in BOOLEAN
       /\ resp.wire \in Seq(Byte) /\ resp.payload \in Seq(Byte) /\ resp.chunks \in Seq(Mark)

VARIABLES
  pc,         (* Where http_post_sse or do_turn is; "spinning" in the loop *)
              (* of run_until on a stream that has ended.                  *)
  server,     (* The response the server sends.                            *)
  peer,       (* "open", "closed" (it hung up) or "reset" (and said so).   *)
  unsent,     (* Records of the request not yet written.                   *)
  rpos,       (* Bytes after the header block that have been read.         *)
  szline,     (* szline of http_stream_body.                               *)
  remaining,  (* remaining of http_stream_body.                            *)
  got,        (* What the last read returned, on its way to on_chunk.      *)
  delivered,  (* The bytes on_chunk was called with.                       *)
  used,       (* used: bytes of the error body captured.                   *)
  status,     (* *out_status; 0 until the header block is parsed.          *)
  r,          (* What http_stream_body, then http_post_sse, returns.       *)
  interrupt,  (* g_interrupt.                                              *)
  result,     (* What do_turn returns; 1 until then.                       *)
  failed      (* History: a read or a write failed before its time.        *)

sending == <<server, peer, unsent>>
reading == <<rpos, szline, remaining, got, delivered, used>>
vars == <<pc, sending, reading, status, r, interrupt, result, failed>>

Init ==
  /\ pc = "connect" /\ server \in Responses /\ peer = "open" /\ unsent = RequestWrites
  /\ rpos = 0 /\ szline = <<>> /\ remaining = 0 /\ got = <<>> /\ delivered = <<>>
  /\ used = 0 /\ status = 0 /\ r = 0 /\ interrupt = FALSE /\ result = 1 /\ failed = FALSE

(* http_post_sse goes on at another place, nothing else changes.           *)
Goto(place) ==
  /\ pc' = place
  /\ UNCHANGED <<sending, reading, status, r, interrupt, result, failed>>

(* http_stream_body returns; the TLS engine is alive and is to be closed.  *)
ReturnBody(value) ==
  /\ pc' = "closing" /\ r' = value
  /\ UNCHANGED <<sending, status, interrupt, result, failed>>

(* The connection is gone; br_sslio_close has nothing to do.               *)
Lose(early) ==
  /\ pc' = "check" /\ r' = -1 /\ failed' = early
  /\ UNCHANGED <<sending, reading, status, interrupt, result>>

-----------------------------------------------------------------------------
(* parse_url, tcp_connect, and the request.                                *)

Connect == pc = "connect" /\ Goto("write")

ConnectFails == pc = "connect" /\ Lose(TRUE)

(* A record written to a peer that has hung up is answered by a reset.     *)
WriteRequest ==
  /\ pc = "write" /\ unsent > 0 /\ peer # "reset"
  /\ unsent' = unsent - 1
  /\ peer' = IF peer = "closed" THEN "reset" ELSE peer
  /\ UNCHANGED <<pc, server, reading, status, r, interrupt, result, failed>>

(* send on a reset connection raises SIGPIPE, which nobody handles.        *)
BrokenPipe == pc = "write" /\ unsent > 0 /\ peer = "reset" /\ Goto("killed")

WriteFails == pc = "write" /\ unsent > 0 /\ peer # "reset" /\ Lose(TRUE)

RequestWritten == pc = "write" /\ unsent = 0 /\ Goto("headers")

-----------------------------------------------------------------------------
(* http_read_headers.                                                      *)

ReadHeaders ==
  /\ pc = "headers" /\ peer # "reset"
  /\ server.header \in 1..MaxHeader
  /\ status' = server.status
  /\ pc' = IF server.status # 200 THEN "error" ELSE IF server.chunked THEN "size?" ELSE "data"
  /\ UNCHANGED <<sending, reading, r, interrupt, result, failed>>

HeadersUnusable ==
  /\ pc = "headers"
  /\ server.header \notin 1..MaxHeader
  /\ Lose(FALSE)

(* close_notify, a reset or 30 s of silence within the block.              *)
HeadersFail == pc = "headers" /\ Lose(TRUE)

-----------------------------------------------------------------------------
(* A status other than 200: the head of the body is captured.              *)

Unread == Len(server.wire) - rpos

(* Mutant: what does not fit is counted.                                   *)
ReadErrorBody_Unclamped ==
  /\ pc = "error" /\ used < MaxErrHead /\ Unread > 0
  /\ \E k \in 1..Unread : rpos' = rpos + k /\ used' = used + k
  /\ UNCHANGED <<pc, sending, szline, remaining, got, delivered, status, r, interrupt, result, failed>>

ReadErrorBody ==
  /\ pc = "error" /\ used < MaxErrHead /\ Unread > 0
  /\ \E k \in 1..Unread :
       /\ rpos' = rpos + k
       /\ used' = IF used + k < MaxErrHead THEN used + k ELSE MaxErrHead
  /\ UNCHANGED <<pc, sending, szline, remaining, got, delivered, status, r, interrupt, result, failed>>

ErrorBodyFull ==
  /\ pc = "error" /\ used = MaxErrHead
  /\ ReturnBody(-1)
  /\ UNCHANGED reading

(* close_notify, at the end of the body or before, a reset, or silence.    *)
ErrorBodyEnds == pc = "error" /\ used < MaxErrHead /\ Lose(Unread > 0)

-----------------------------------------------------------------------------
(* The size of a chunk.                                                    *)

(* Mutant: the line feed a short read left behind is no blank.             *)
Blank_NotLF(b) == b = CR

Blank(b) == b \in {CR, LF}

Stripped(s) ==
  LET first == SelectInSeq(s, LAMBDA b : ~Blank(b))
  IN  IF first = 0 THEN <<>> ELSE SubSeq(s, first, Len(s))

LeadingDigits(s) ==
  LET stop == SelectInSeq(s, LAMBDA b : b > 15)
  IN  IF stop = 0 THEN s ELSE SubSeq(s, 1, stop - 1)

Number(s) == FoldLeft(LAMBDA acc, d : 16 * acc + d, 0, LeadingDigits(s))

(* strtol(s, NULL, 16): leading blanks, a sign, digits; 0 without digits.  *)
HexValue(s) ==
  LET rest == Stripped(s)
  IN  IF rest # <<>> /\ Head(rest) = Minus THEN -Number(Tail(rest)) ELSE Number(rest)

EndsLine(s) == Len(s) >= 2 /\ s[Len(s) - 1] = CR /\ s[Len(s)] = LF

(***************************************************************************)
(* What the server is taken to send with a status 200: a body of its       *)
(* Content-Length, one that ends with the connection, or chunks whose size *)
(* lines fit into szline, until a size that is 0, or is none.              *)
(***************************************************************************)
SizeLine(resp, c) == SubSeq(resp.wire, c.at + 1, c.at + c.size)

IsSizeLine(resp, c) ==
  /\ c.size \in 2..(MaxSizeLine - 1) /\ c.at + c.size <= Len(resp.wire)
  /\ c.off <= Len(resp.payload)
  /\ EndsLine(SizeLine(resp, c))
  /\ \A j \in 1..(c.size - 1) : ~EndsLine(SubSeq(resp.wire, c.at + 1, c.at + j))

IsChunk(resp, c, next) ==
  /\ c.off < next.off /\ HexValue(SizeLine(resp, c)) = next.off - c.off
  /\ next.at = c.at + c.size + (next.off - c.off) + 2
  /\ \A j \in 1..(next.off - c.off) : resp.wire[c.at + c.size + j] = resp.payload[c.off + j]
  /\ resp.wire[next.at - 1] = CR /\ resp.wire[next.at] = LF

IsEnd(resp, c) ==
  LET value == HexValue(SizeLine(resp, c))
  IN  value \in Int /\ value <= 0 /\ (value = 0 => c.off = Len(resp.payload))

WellChunked(resp) ==
  LET n == Len(resp.chunks)
  IN  /\ n >= 1 /\ resp.chunks[1].at = 0 /\ resp.chunks[1].off = 0
      /\ \A k \in 1..n : IsSizeLine(resp, resp.chunks[k])
      /\ \A k \in 1..(n - 1) : IsChunk(resp, resp.chunks[k], resp.chunks[k + 1])
      /\ IsEnd(resp, resp.chunks[n])

ASSUME FramingAssumption ==
  \A resp \in Responses :
    resp.status = 200 =>
      IF resp.chunked THEN WellChunked(resp)
      ELSE resp.wire = resp.payload /\ (resp.clen < 0 \/ resp.clen = Len(resp.wire))

-----------------------------------------------------------------------------
(* http_stream_body.  "size?" and "data" are the tests of g_interrupt.     *)

StopAtInterrupt ==
  /\ pc \in {"size?", "data"} /\ interrupt
  /\ ReturnBody(-2)
  /\ UNCHANGED reading

NextChunk ==
  /\ pc = "size?" /\ ~interrupt
  /\ pc' = "size" /\ szline' = <<>>
  /\ UNCHANGED <<sending, rpos, remaining, got, delivered, used, status, r, interrupt, result, failed>>

SizeLineDone == EndsLine(szline) \/ Len(szline) = MaxSizeLine

ReadSizeByte ==
  /\ pc = "size" /\ ~SizeLineDone /\ Unread > 0
  /\ rpos' = rpos + 1 /\ szline' = Append(szline, server.wire[rpos + 1])
  /\ UNCHANGED <<pc, sending, remaining, got, delivered, used, status, r, interrupt, result, failed>>

SizeKnown ==
  /\ pc = "size" /\ SizeLineDone /\ HexValue(szline) > 0
  /\ pc' = "data" /\ remaining' = HexValue(szline)
  /\ UNCHANGED <<sending, rpos, szline, got, delivered, used, status, r, interrupt, result, failed>>

SizeNegative ==
  /\ pc = "size" /\ SizeLineDone /\ HexValue(szline) < 0
  /\ ReturnBody(-1)
  /\ UNCHANGED reading

(* The bytes after the last chunk are read once and not looked at.         *)
LastChunk ==
  /\ pc = "size" /\ SizeLineDone /\ HexValue(szline) = 0
  /\ \E k \in 0..2 : k <= Unread /\ rpos' = rpos + k
  /\ ReturnBody(0)
  /\ UNCHANGED <<szline, remaining, got, delivered, used>>

(* br_sslio_read(ioc, buf, want).  The part of the body before a read that *)
(* fails has been delivered already.                                       *)
Want == IF server.chunked /\ remaining < BufSize THEN remaining ELSE BufSize

AskForBody == pc = "data" /\ ~interrupt /\ Goto("recv")

ReadBody ==
  /\ pc = "recv" /\ Unread > 0
  /\ \E k \in 1..Want :
       /\ k <= Unread
       /\ got' = SubSeq(server.wire, rpos + 1, rpos + k) /\ rpos' = rpos + k
  /\ pc' = "callback"
  /\ UNCHANGED <<sending, szline, remaining, delivered, used, status, r, interrupt, result, failed>>

(* on_chunk has its own look at g_interrupt and then takes nothing.        *)
RefuseChunk ==
  /\ pc = "callback" /\ interrupt
  /\ ReturnBody(-1)
  /\ UNCHANGED reading

AcceptChunk ==
  /\ pc = "callback" /\ ~interrupt /\ server.chunked
  /\ delivered' = delivered \o got /\ remaining' = remaining - Len(got)
  /\ pc' = IF remaining' > 0 THEN "data" ELSE "crlf"
  /\ UNCHANGED <<sending, rpos, szline, got, used, status, r, interrupt, result, failed>>

LengthReached(body) == server.clen >= 0 /\ Len(body) >= server.clen

AcceptPlain ==
  /\ pc = "callback" /\ ~interrupt /\ ~server.chunked
  /\ delivered' = delivered \o got
  /\ IF LengthReached(delivered') THEN pc' = "closing" ELSE pc' = "data"
  /\ UNCHANGED <<sending, rpos, szline, remaining, got, used, status, r, interrupt, result, failed>>

(* One read of at most the two bytes; a lone CR is enough.                 *)
EndOfChunk ==
  /\ pc = "crlf"
  /\ \E k \in 1..2 : k <= Unread /\ rpos' = rpos + k
  /\ pc' = "size?"
  /\ UNCHANGED <<sending, szline, remaining, got, delivered, used, status, r, interrupt, result, failed>>

Reads == \/ pc = "size" /\ ~SizeLineDone
         \/ pc \in {"recv", "crlf"}

(* Mutant: the result of a read is not looked at.                          *)
ReadEnds_Again == Reads /\ UNCHANGED vars

(* close_notify, a reset, or 30 s of silence.                              *)
ReadEnds == Reads /\ Lose(Unread > 0)

-----------------------------------------------------------------------------
(* br_sslio_close: close_notify is sent, and what the server still sends   *)
(* is read and discarded until the server, too, says close_notify, resets  *)
(* the connection, or is silent for 30 s.                                  *)

DiscardIncoming ==
  /\ pc = "closing" /\ Unread > 0
  /\ rpos' = rpos + 1
  /\ UNCHANGED <<pc, sending, szline, remaining, got, delivered, used, status, r, interrupt, result, failed>>

Closed == pc = "closing" /\ Goto("check")

-----------------------------------------------------------------------------
(* run_until, as br_sslio_* use it: it looks at nothing but the engine.    *)

(* Where a call waits for a record: the handshake before the first record  *)
(* of the request, every read, and the close.                              *)
InRunUntil ==
  \/ pc = "write" /\ unsent = RequestWrites
  \/ pc \in {"headers", "closing"} \/ Reads
  \/ pc = "error" /\ used < MaxErrHead
  \/ pc = "size" /\ SizeLineDone /\ HexValue(szline) = 0

(* sock_read returns 0 again, and run_until calls it again.                *)
Spin == pc = "spinning" /\ UNCHANGED vars

-----------------------------------------------------------------------------
(* do_turn.                                                                *)

(* The captured bytes are parsed as they came, chunk sizes included; an    *)
(* error that is cut off or begins with a size is no JSON object, so that  *)
(* an overflow reported in chunks is not recognised.                       *)
ContextError == server.overflow /\ ~server.chunked /\ used = Len(server.wire)

(* Mutant: only http_post_sse is asked whether there was a SIGINT.         *)
Result_TrustsR ==
  IF r = -2 THEN -2
  ELSE IF r < 0 /\ status = 0 THEN -1
  ELSE IF status = 200 THEN 0
  ELSE IF ContextError THEN -3 ELSE -1

Result ==
  IF interrupt \/ r = -2 THEN -2
  ELSE IF r < 0 /\ status = 0 THEN -1
  ELSE IF status = 200 THEN 0
  ELSE IF ContextError THEN -3 ELSE -1

Return ==
  /\ pc = "check"
  /\ pc' = "done" /\ result' = Result
  /\ UNCHANGED <<sending, reading, status, r, interrupt, failed>>

Stopped == pc \in {"done", "killed"} /\ UNCHANGED vars

-----------------------------------------------------------------------------
(* The environment.                                                        *)

Sigint ==
  /\ pc \notin {"done", "killed"} /\ ~interrupt
  /\ interrupt' = TRUE
  /\ UNCHANGED <<pc, sending, reading, status, r, result, failed>>

(* The server closes the connection before it has read the request.        *)
HangUp ==
  /\ pc = "write" /\ peer = "open"
  /\ peer' = "closed"
  /\ UNCHANGED <<pc, server, unsent, reading, status, r, interrupt, result, failed>>

(* The server's end of the stream arrives (a FIN) without a close_notify.  *)
EndOfStream == InRunUntil /\ peer # "reset" /\ Goto("spinning")

Request == \/ Connect \/ ConnectFails \/ WriteRequest \/ BrokenPipe \/ WriteFails \/ RequestWritten
           \/ ReadHeaders \/ HeadersUnusable \/ HeadersFail
           \/ ReadErrorBody \/ ErrorBodyFull \/ ErrorBodyEnds

StreamBody == \/ StopAtInterrupt \/ NextChunk \/ ReadSizeByte \/ SizeKnown \/ SizeNegative \/ LastChunk
              \/ AskForBody \/ ReadBody \/ RefuseChunk \/ AcceptChunk \/ AcceptPlain \/ EndOfChunk \/ ReadEnds

do_turn == Request \/ StreamBody \/ DiscardIncoming \/ Closed \/ Spin \/ Return

Next == do_turn \/ Sigint \/ HangUp \/ EndOfStream \/ Stopped

Spec == Init /\ [][Next]_vars


-----------------------------------------------------------------------------
(* Types; the header block, a size line and the captured error stay within *)
(* their buffers (main.c:150, 190, 290).                                   *)
TypeOK ==
  /\ pc \in {"connect", "write", "headers", "error", "size?", "size", "data", "recv",
             "callback", "crlf", "closing", "spinning", "check", "done", "killed"}
  /\ server \in Responses /\ peer \in {"open", "closed", "reset"}
  /\ unsent \in 0..RequestWrites
  /\ rpos \in 0..Len(server.wire)
  /\ szline \in Seq(Byte) /\ Len(szline) <= MaxSizeLine
  /\ remaining \in Nat
  /\ got \in Seq(Byte) /\ Len(got) <= BufSize
  /\ delivered \in Seq(Byte)
  /\ used \in 0..MaxErrHead
  /\ status \in {0, 200, 400, 500} /\ r \in {0, -1, -2} /\ result \in {1, 0, -1, -2, -3}
  /\ interrupt \in BOOLEAN /\ failed \in BOOLEAN

(* Whatever the reads return and wherever the stream breaks off, on_chunk  *)
(* sees a prefix of the body and never a byte of the framing, and a body   *)
(* that ended with 0 was delivered whole: a short read of the two bytes    *)
(* after a chunk is made up for by strtol (main.c:198, 217).               *)
FramingExact ==
  /\ IsPrefix(delivered, server.payload)
  /\ pc \in {"closing", "check", "done"} /\ status = 200 /\ r = 0 => delivered = server.payload

Outcome ==
  CASE result = 1  -> "pending"
    [] result = 0  -> "answer"
    [] result = -2 -> "interrupted"
    [] OTHER       -> "error"

Abstract == INSTANCE Delivery WITH
  total <- Len(server.payload), delivered <- Len(delivered),
  interrupted <- interrupt, outcome <- Outcome

(* do_turn hands the body over as Delivery says: in order, nothing after   *)
(* SIGINT, and an error only if nothing was handed over (main.c:387, 455). *)
ImplementsDelivery == Abstract!Spec

(* do_turn comes back, or else the stream has ended under it without a     *)
(* close_notify and run_until spins: no other wait and no loop of its own  *)
(* keeps it, for each read and write returns within its timeout, and the   *)
(* loops go on only while bytes arrive.                                    *)
TurnReturns == <>(pc \in {"done", "killed", "spinning"})

-----------------------------------------------------------------------------
(* What is said of the code and does not hold.                             *)

(* ROADMAP.md:84: a stream that stalls for 30 s is aborted; a turn whose   *)
(* transport failed is a failed turn.                                      *)
TransportErrorFailsTurn == pc = "done" /\ failed => result # 0
=============================================================================
