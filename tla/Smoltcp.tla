------------------------------ MODULE Smoltcp ------------------------------
(***************************************************************************)
(* What the event loop relies on in smoltcp 0.12: a TCP socket as a value, *)
(* and the operators that the interface and the program apply to it.  The  *)
(* library is not part of the repository; these definitions follow how     *)
(* src/event_loop.rs and src/event_loop/*.rs use it.  The program never    *)
(* calls close(), so a socket only sees the peer's FIN and the states      *)
(* FinWait*, Closing, LastAck and TimeWait are never entered.              *)
(*                                                                         *)
(* Sequence numbers are reduced to two identities: c names the peer's      *)
(* connection attempt, s the socket's own initial sequence number.  A      *)
(* segment is inside the window of a socket iff both match.                *)
(***************************************************************************)
EXTENDS Naturals

CONSTANTS Key,     \* 4-tuples: records with at least the fields dst and port
          NoKey    \* no 4-tuple

ASSUME KeyAssumption == NoKey \notin Key

Port == {k.port : k \in Key}

\* "DATAFIN" is a FIN that leaves bytes the program has not read yet.
Flag == {"SYN", "SYNACK", "ACK", "FIN", "DATAFIN", "RST"}
Segment == [k : Key, f : Flag, c : Nat, s : Nat]

SocketState == {"Free", "Closed", "Listen", "SynReceived", "Established", "CloseWait"}

\* port: the listen endpoint; tuple: the 4-tuple, if any; rx: the receive
\* buffer holds bytes; syn: the SYN|ACK has still to be sent.
Socket == [state : SocketState, port : Port \cup {0}, tuple : Key \cup {NoKey},
           c : Nat, s : Nat, rx : BOOLEAN, syn : BOOLEAN]

\* An unused slot of the SocketSet, and a socket after listen() on a port.
FreeSlot == [state |-> "Free", port |-> 0, tuple |-> NoKey,
             c |-> 0, s |-> 0, rx |-> FALSE, syn |-> FALSE]
ListenOn(port) == [FreeSlot EXCEPT !.state = "Listen", !.port = port]

\* tcp::Socket::accepts: a listening socket takes any SYN to its port, a
\* socket with a 4-tuple every segment of that 4-tuple, a closed one nothing.
Accepts(sock, p) ==
  /\ sock.state \notin {"Free", "Closed"}
  /\ sock.state = "Listen" => p.f = "SYN"
  /\ IF sock.tuple = NoKey THEN sock.port = p.k.port ELSE sock.tuple = p.k

\* tcp::Socket::process for an accepted segment; isn is the initial sequence
\* number picked when a SYN is taken.
Received(sock, p, isn) ==
  CASE sock.state = "Listen" ->
         [sock EXCEPT !.state = "SynReceived", !.tuple = p.k, !.c = p.c, !.s = isn, !.syn = TRUE]
    [] sock.state # "Listen" /\ (p.f = "SYN" \/ p.c # sock.c \/ p.s # sock.s) -> sock
    [] OTHER ->
         CASE p.f = "RST" /\ sock.state = "SynReceived" -> ListenOn(sock.port)
           [] p.f = "RST" /\ sock.state # "SynReceived" ->
                [sock EXCEPT !.state = "Closed", !.tuple = NoKey]
           [] p.f = "ACK" /\ sock.state = "SynReceived" ->
                [sock EXCEPT !.state = "Established", !.syn = FALSE]
           [] p.f \in {"FIN", "DATAFIN"} ->
                [sock EXCEPT !.state = "CloseWait", !.syn = FALSE, !.rx = (p.f = "DATAFIN")]
           [] OTHER -> sock

\* abort(): the socket is closed at once and owes its peer one RST.
Abort(sock) == [sock EXCEPT !.state = "Closed", !.syn = FALSE]

OwesReset(sock) == sock.state = "Closed" /\ sock.tuple # NoKey
HasEgress(sock) == sock.syn \/ OwesReset(sock)

\* What the egress half of Interface::poll sends for a socket, and leaves.
Emitted(sock) == [k |-> sock.tuple, f |-> IF sock.syn THEN "SYNACK" ELSE "RST",
                  c |-> sock.c, s |-> sock.s]
AfterEgress(sock) == IF sock.syn THEN [sock EXCEPT !.syn = FALSE]
                                 ELSE [sock EXCEPT !.tuple = NoKey]

\* A segment no socket accepts is answered with a RST.
ResetReply(p) == [k |-> p.k, f |-> "RST", c |-> p.c, s |-> p.s]

MaySend(sock) == sock.state \in {"Established", "CloseWait"}
MayRecv(sock) == sock.state = "Established" \/ sock.rx
=============================================================================
