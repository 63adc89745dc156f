------------------------------ MODULE Delivery ------------------------------
(***************************************************************************)
(* What the two halves of a turn promise each other.  The transport        *)
(* (http_post_sse, do_turn) hands the accumulator (on_chunk) the body of   *)
(* the answer in order, each byte once and nothing else, in as many pieces *)
(* as it likes; it stops at SIGINT, and it ends in one of three ways.      *)
(* HttpTurn implements it; SseStream is checked with every chunk sequence  *)
(* it allows.                                                              *)
(***************************************************************************)
EXTENDS Integers

VARIABLES
  total,       (* The length of the body the server means to send.        *)
  delivered,   (* The length of the prefix on_chunk has been given.       *)
  interrupted, (* There was a SIGINT.                                     *)
  outcome      (* "pending", or how do_turn returned.                     *)

vars == <<total, delivered, interrupted, outcome>>

Init ==
  /\ total \in Nat /\ delivered = 0
  /\ interrupted = FALSE /\ outcome = "pending"

Deliver ==
  /\ outcome = "pending" /\ ~interrupted
  /\ delivered' \in (delivered + 1)..total
  /\ UNCHANGED <<total, interrupted, outcome>>

Interrupt ==
  /\ ~interrupted /\ interrupted' = TRUE
  /\ UNCHANGED <<total, delivered, outcome>>

(* Part of the body may be missing from an answer: do_turn returns 0 once  *)
(* the status was 200.  What was shown is never taken back by an error.    *)
Return ==
  /\ outcome = "pending"
  /\ outcome' \in IF interrupted THEN {"interrupted"} ELSE {"answer", "error"}
  /\ outcome' = "error" => delivered = 0
  /\ UNCHANGED <<total, delivered, interrupted>>

Next == Deliver \/ Interrupt \/ Return

Spec == Init /\ [][Next]_vars
=============================================================================
