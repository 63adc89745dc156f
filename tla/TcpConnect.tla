----------------------------- MODULE TcpConnect -----------------------------
(***************************************************************************)
(* tcp_connect: the walk over the addresses of a host.  Each is given a    *)
(* socket of its own, which connects without blocking and has 10 s to do   *)
(* so; SIGINT makes select fail, and then the next address is tried.       *)
(***************************************************************************)
EXTENDS Integers

CONSTANT MaxAddresses   (* Bound on what getaddrinfo finds.                *)

VARIABLES
  cpc,        (* Where tcp_connect is; "gave up" and "connected" are its   *)
              (* two returns.                                              *)
  addresses,  (* How many there are, from rp on.                           *)
  sockets,    (* How many this process has open.                           *)
  blocking    (* The flags of the last one.                                *)

connectVars == <<cpc, addresses, sockets, blocking>>

ConnectInit == cpc = "getaddrinfo" /\ addresses = 0 /\ sockets = 0 /\ blocking = TRUE

Resolve ==
  /\ cpc = "getaddrinfo" /\ cpc' = "socket"
  /\ addresses' \in 1..MaxAddresses
  /\ UNCHANGED <<sockets, blocking>>

(* Also a URL that parse_url refuses.                                      *)
ResolveFails ==
  /\ cpc = "getaddrinfo" /\ cpc' = "gave up"
  /\ UNCHANGED <<addresses, sockets, blocking>>

SocketFails ==
  /\ cpc = "socket" /\ addresses > 0
  /\ addresses' = addresses - 1
  /\ UNCHANGED <<cpc, sockets, blocking>>

StartConnect ==
  /\ cpc = "socket" /\ addresses > 0
  /\ cpc' = "connect"
  /\ sockets' = sockets + 1 /\ blocking' = FALSE
  /\ UNCHANGED addresses

(* close(fd); fd = -1; continue.                                           *)
NextAddress ==
  /\ cpc' = "socket" /\ addresses' = addresses - 1
  /\ sockets' = sockets - 1
  /\ UNCHANGED blocking

Connected ==
  /\ cpc' = "connected" /\ blocking' = TRUE
  /\ UNCHANGED <<addresses, sockets>>

ConnectReturns ==
  /\ cpc = "connect"
  /\ \/ Connected
     \/ NextAddress
     \/ cpc' = "select" /\ UNCHANGED <<addresses, sockets, blocking>>

(* The time is up, or there was a SIGINT.                                  *)
SelectFails == cpc = "select" /\ NextAddress

(* SO_ERROR tells which.                                                   *)
SelectReturns == cpc = "select" /\ (Connected \/ NextAddress)

NoAddressLeft ==
  /\ cpc = "socket" /\ addresses = 0
  /\ cpc' = "gave up"
  /\ UNCHANGED <<addresses, sockets, blocking>>

tcp_connect ==
  \/ Resolve \/ ResolveFails \/ SocketFails \/ StartConnect \/ ConnectReturns
  \/ SelectFails \/ SelectReturns \/ NoAddressLeft

(* close(fd) of http_post_sse.                                             *)
Close == sockets' = sockets - 1 /\ UNCHANGED <<cpc, addresses, blocking>>

ConnectTypeOK ==
  /\ cpc \in {"getaddrinfo", "socket", "connect", "select", "connected", "gave up"}
  /\ addresses \in 0..MaxAddresses /\ sockets \in 0..1 /\ blocking \in BOOLEAN
=============================================================================
