---------------------------- MODULE PublishedTcp ----------------------------
(***************************************************************************)
(* Published ports: src/event_loop/published.rs in the tick of             *)
(* src/event_loop.rs.  Accept tasks hand host connections to the loop      *)
(* through a bounded channel; the loop gives each a source port and a      *)
(* smoltcp socket that connects to the namespace, and takes both back when *)
(* the connection is over.                                                 *)
(*                                                                         *)
(* A socket handle is named by the host connection it serves.  The         *)
(* namespace's kernel keeps a TCP connection per source port, in the worst *)
(* case to one and the same service, so that a port that is used again     *)
(* means a 4-tuple that is used again.  The bytes that are forwarded are   *)
(* the subject of PublishedForward; here a connection one of whose peers   *)
(* has ended is drained at any later call of process().  A SYN that the    *)
(* kernel drops is not retransmitted: it stands for a handshake that       *)
(* stalls until the timeout.                                               *)
(***************************************************************************)
EXTENDS Naturals, Sequences

CONSTANTS Conn,                \* host connections
          NoConn,              \* none of them
          Listener,            \* published endpoints, one accept task each
          PORT_MIN, PORT_MAX,  \* the range of source ports
          ACCEPT_QUEUE         \* capacity of the channel

ASSUME PublishedAssumption ==
  /\ NoConn \notin Conn
  /\ PORT_MIN \in Nat \ {0} /\ PORT_MAX \in Nat /\ PORT_MIN <= PORT_MAX
  /\ ACCEPT_QUEUE \in Nat \ {0}

Port == PORT_MIN .. PORT_MAX
NoPort == 0

VARIABLES
  stream,          \* the host stream of each connection
  hostEnded,       \* host peers that closed or reset their connection
  sending,         \* per accept task, the connection it is sending
  accepted_rx,     \* the channel
  pending,
  states,          \* PublishedTcp::states ("Absent": no entry)
  expired,         \* Connecting entries older than TCP_HANDSHAKE_TIMEOUT
  handle_to_port,
  next, used,      \* PortAllocator
  sockets,         \* the smoltcp socket of each connection
  pc,              \* where the event loop is
  rx_queue,        \* per port, packets read from the TUN and not processed
  tun,             \* per port, packets the kernel has queued on the TUN
  toNs,            \* per port, segments written to the TUN and not handled
  peer             \* per port, the kernel's connection

hostVars == <<stream, hostEnded, sending, accepted_rx, pending>>
tableVars == <<states, expired, handle_to_port, next, used>>
netVars == <<rx_queue, tun, toNs, peer>>
vars == <<hostVars, tableVars, sockets, pc, netVars>>

Phase == {"wait", "receive", "attach", "ingress", "egress1", "process", "egress2",
          "cleanup", "stopped"}
Tag == {"Absent", "Connecting", "Established", "Closing"}
Segment == [f : {"SYN", "SYNACK", "ACK", "FIN", "RST"}, c : Conn]

\* owes: the segments the socket sends in the next egress.
Socket == [state : {"Free", "SynSent", "Established", "CloseWait", "Closed"},
           owes : {"nothing", "SYN", "ACK", "RST"}]
FreeSlot == [state |-> "Free", owes |-> "nothing"]
NoPeer == [st |-> "none", c |-> NoConn]

Init ==
  /\ stream = [c \in Conn |-> "none"] /\ hostEnded = {}
  /\ sending = [l \in Listener |-> NoConn]
  /\ accepted_rx = <<>> /\ pending = <<>>
  /\ states = [c \in Conn |-> "Absent"] /\ expired = {}
  /\ handle_to_port = [c \in Conn |-> NoPort]
  /\ next = PORT_MIN /\ used = {}
  /\ sockets = [c \in Conn |-> FreeSlot]
  /\ pc = "wait"
  /\ rx_queue = [p \in Port |-> <<>>] /\ tun = [p \in Port |-> <<>>]
  /\ toNs = [p \in Port |-> <<>>] /\ peer = [p \in Port |-> NoPeer]

-----------------------------------------------------------------------------
(* Host peers and accept tasks.  Tasks run on other threads than the loop. *)

\* listener.accept() returns a connection, which the task starts to send.  A
\* failed accept sleeps and leaves everything as it was.
Accept(l, c) ==
  /\ pc # "stopped" /\ sending[l] = NoConn /\ stream[c] = "none"
  /\ stream' = [stream EXCEPT ![c] = "open"]
  /\ sending' = [sending EXCEPT ![l] = c]
  /\ UNCHANGED <<hostEnded, accepted_rx, pending, tableVars, sockets, pc, netVars>>

\* tx.send() completes as soon as the channel has room.
SendAccepted(l) ==
  /\ sending[l] # NoConn /\ Len(accepted_rx) < ACCEPT_QUEUE
  /\ accepted_rx' = Append(accepted_rx, sending[l])
  /\ sending' = [sending EXCEPT ![l] = NoConn]
  /\ UNCHANGED <<stream, hostEnded, pending, tableVars, sockets, pc, netVars>>

\* The host peer closes or resets; the program notices when it forwards.
HostEnds(c) ==
  /\ stream[c] = "open" /\ c \notin hostEnded
  /\ hostEnded' = hostEnded \cup {c}
  /\ UNCHANGED <<stream, sending, accepted_rx, pending, tableVars, sockets, pc, netVars>>

\* A Connecting entry gets older than TCP_HANDSHAKE_TIMEOUT.
HandshakeExpires(c) ==
  /\ states[c] = "Connecting" /\ c \notin expired
  /\ expired' = expired \cup {c}
  /\ UNCHANGED <<hostVars, states, handle_to_port, next, used, sockets, pc, netVars>>

-----------------------------------------------------------------------------
(* The namespace: its kernel and the service behind the published port.    *)

Reply(p, f, c) == tun' = [tun EXCEPT ![p] = Append(@, [f |-> f, c |-> c])]

\* The kernel handles the next segment written for port p.  A SYN meets a
\* service, no service, or a full backlog; one that meets a connection of the
\* same 4-tuple is ignored.
KernelReceives(p) ==
  /\ toNs[p] # <<>>
  /\ toNs' = [toNs EXCEPT ![p] = Tail(@)]
  /\ LET s == Head(toNs[p])
         mine == peer[p].c = s.c
     IN  \/ /\ s.f = "SYN" /\ peer[p] = NoPeer
            /\ \/ /\ peer' = [peer EXCEPT ![p] = [st |-> "synrcvd", c |-> s.c]]
                  /\ Reply(p, "SYNACK", s.c)
               \/ /\ Reply(p, "RST", s.c) /\ UNCHANGED peer
               \/ UNCHANGED <<peer, tun>>
         \/ /\ s.f = "ACK" /\ mine /\ peer[p].st = "synrcvd"
            /\ peer' = [peer EXCEPT ![p].st = "estab"]
            /\ UNCHANGED tun
         \/ /\ s.f = "RST" /\ mine
            /\ peer' = [peer EXCEPT ![p] = NoPeer]
            /\ UNCHANGED tun
         \/ /\ s.f = "ACK" /\ ~mine
            /\ Reply(p, "RST", s.c) /\ UNCHANGED peer
         \/ /\ \/ s.f = "SYN" /\ peer[p] # NoPeer
               \/ s.f = "RST" /\ ~mine
            /\ UNCHANGED <<peer, tun>>
  /\ UNCHANGED <<hostVars, tableVars, sockets, pc, rx_queue>>

\* The service closes its direction, or resets the connection.
ServiceEnds(p) ==
  /\ peer[p].st = "estab"
  /\ \/ peer' = [peer EXCEPT ![p].st = "finwait"] /\ Reply(p, "FIN", peer[p].c)
     \/ peer' = [peer EXCEPT ![p] = NoPeer] /\ Reply(p, "RST", peer[p].c)
  /\ UNCHANGED <<hostVars, tableVars, sockets, pc, rx_queue, toNs>>

\* The kernel gives up a handshake or an orphaned connection, silently.
KernelForgets(p) ==
  /\ peer[p].st \in {"synrcvd", "finwait"}
  /\ peer' = [peer EXCEPT ![p] = NoPeer]
  /\ UNCHANGED <<hostVars, tableVars, sockets, pc, rx_queue, tun, toNs>>

KernelStep == \E p \in Port : KernelReceives(p) \/ ServiceEnds(p) \/ KernelForgets(p)

-----------------------------------------------------------------------------
(* wait_for_work, and the reads at the start of the tick.                  *)

\* A bug that takes a connection only to learn that there is one.
WaitForWork_Discards ==
  /\ pc = "wait" /\ pc' = "receive"
  /\ accepted_rx' = IF accepted_rx = <<>> THEN <<>> ELSE Tail(accepted_rx)
  /\ rx_queue' = [p \in Port |-> rx_queue[p] \o tun[p]]
  /\ tun' = [p \in Port |-> <<>>]
  /\ UNCHANGED <<stream, hostEnded, sending, pending, tableVars, sockets, toNs, peer>>

\* poll_ready takes one accepted connection; the tick then reads the TUN.
WaitForWork ==
  /\ pc = "wait" /\ pc' = "receive"
  /\ \/ accepted_rx # <<>>
        /\ pending' = Append(pending, Head(accepted_rx)) /\ accepted_rx' = Tail(accepted_rx)
     \/ accepted_rx = <<>> /\ UNCHANGED <<pending, accepted_rx>>
  /\ rx_queue' = [p \in Port |-> rx_queue[p] \o tun[p]]
  /\ tun' = [p \in Port |-> <<>>]
  /\ UNCHANGED <<stream, hostEnded, sending, tableVars, sockets, toNs, peer>>

\* The shutdown signal: PublishedTcp is dropped, which aborts the accept tasks
\* and closes every stream.
Shutdown ==
  /\ pc = "wait" /\ pc' = "stopped"
  /\ stream' = [c \in Conn |-> IF stream[c] = "open" THEN "dropped" ELSE stream[c]]
  /\ sending' = [l \in Listener |-> NoConn] /\ accepted_rx' = <<>> /\ pending' = <<>>
  /\ states' = [c \in Conn |-> "Absent"] /\ expired' = {}
  /\ handle_to_port' = [c \in Conn |-> NoPort] /\ used' = {}
  /\ sockets' = [c \in Conn |-> FreeSlot]
  /\ UNCHANGED <<hostEnded, next, netVars>>

-----------------------------------------------------------------------------
(* attach_accepted: first the channel is emptied, then every pending       *)
(* connection gets a port and a socket.                                    *)

ReceiveAccepted ==
  /\ pc = "receive" /\ accepted_rx # <<>>
  /\ pending' = Append(pending, Head(accepted_rx)) /\ accepted_rx' = Tail(accepted_rx)
  /\ UNCHANGED <<stream, hostEnded, sending, tableVars, sockets, pc, netVars>>

Received ==
  /\ pc = "receive" /\ accepted_rx = <<>> /\ pc' = "attach"
  /\ UNCHANGED <<hostVars, tableVars, sockets, netVars>>

\* PortAllocator::allocate tries capacity candidates, starting with next.
capacity == PORT_MAX - PORT_MIN + 1
After(p) == IF p = PORT_MAX THEN PORT_MIN ELSE p + 1
Candidate(i) == PORT_MIN + ((next - PORT_MIN + i) % capacity)

\* A bug that tries one candidate less.
Tries_OneLess == 0 .. capacity - 2

Tries == 0 .. capacity - 1

FirstFree(p) ==
  \E i \in Tries : p = Candidate(i) /\ p \notin used /\ \A j \in 0 .. i - 1 : Candidate(j) \in used

\* connect() fails: the port is released.
ConnectFails(c, p) ==
  /\ next' = After(p) /\ UNCHANGED used
  /\ stream' = [stream EXCEPT ![c] = "dropped"]
  /\ UNCHANGED <<states, handle_to_port, sockets>>

ConnectStarts(c, p) ==
  /\ next' = After(p) /\ used' = used \cup {p}
  /\ sockets' = [sockets EXCEPT ![c] = [state |-> "SynSent", owes |-> "SYN"]]
  /\ states' = [states EXCEPT ![c] = "Connecting"]
  /\ handle_to_port' = [handle_to_port EXCEPT ![c] = p]
  /\ UNCHANGED stream

\* No candidate is free; next has gone round the ring.
PortsExhausted(c) ==
  /\ \A i \in Tries : Candidate(i) \in used
  /\ stream' = [stream EXCEPT ![c] = "refused"]
  /\ UNCHANGED <<next, used, states, handle_to_port, sockets>>

AttachNext ==
  /\ pc = "attach" /\ pending # <<>>
  /\ pending' = Tail(pending)
  /\ LET c == Head(pending)
     IN  \/ \E p \in Port : FirstFree(p) /\ (ConnectStarts(c, p) \/ ConnectFails(c, p))
         \/ PortsExhausted(c)
  /\ UNCHANGED <<hostEnded, sending, accepted_rx, expired, pc, netVars>>

Attached ==
  /\ pc = "attach" /\ pending = <<>> /\ pc' = "ingress"
  /\ UNCHANGED <<hostVars, tableVars, sockets, netVars>>

-----------------------------------------------------------------------------
(* Interface::poll.                                                        *)

\* tcp::Socket::process, for a segment of the socket's own connection.
AfterSegment(sock, f) ==
  CASE f = "SYNACK" /\ sock.state = "SynSent" -> [state |-> "Established", owes |-> "ACK"]
    [] f = "FIN" /\ sock.state = "Established" -> [sock EXCEPT !.state = "CloseWait"]
    [] f = "RST" -> [state |-> "Closed", owes |-> "nothing"]
    [] OTHER -> sock

\* Live sockets on port p; a closed socket accepts nothing.
OnPort(p) == {c \in Conn : handle_to_port[c] = p /\ sockets[c].state \notin {"Free", "Closed"}}

\* Ingress of one packet.  A segment that no socket accepts is answered with a
\* RST.  One of an earlier connection of the 4-tuple is out of the window of the
\* socket that has it now: it is answered with a RST, dropped, or answered with an
\* ACK that changes nothing at the peer.
Ingress(p) ==
  /\ pc = "ingress" /\ rx_queue[p] # <<>>
  /\ rx_queue' = [rx_queue EXCEPT ![p] = Tail(@)]
  /\ LET s == Head(rx_queue[p])
     IN  \/ /\ s.c \in OnPort(p)
            /\ sockets' = [sockets EXCEPT ![s.c] = AfterSegment(@, s.f)]
            /\ UNCHANGED toNs
         \/ /\ s.c \notin OnPort(p) /\ s.f # "RST"
            /\ toNs' = [toNs EXCEPT ![p] = Append(@, [f |-> "RST", c |-> s.c])]
            /\ UNCHANGED sockets
         \/ /\ s.c \notin OnPort(p) /\ (s.f = "RST" \/ OnPort(p) # {})
            /\ UNCHANGED <<toNs, sockets>>
  /\ UNCHANGED <<hostVars, tableVars, pc, tun, peer>>

IngressDone ==
  /\ pc = "ingress" /\ \A p \in Port : rx_queue[p] = <<>>
  /\ pc' = "egress1"
  /\ UNCHANGED <<hostVars, tableVars, sockets, netVars>>

\* Egress of the first and the second call: every socket sends what it owes.
Owed(p) ==
  LET owing == {c \in Conn : handle_to_port[c] = p /\ sockets[c].owes # "nothing"}
  IN  IF owing = {} THEN <<>>
      ELSE LET c == CHOOSE c \in owing : TRUE IN <<[f |-> sockets[c].owes, c |-> c]>>

Egress ==
  /\ pc \in {"egress1", "egress2"}
  /\ pc' = IF pc = "egress1" THEN "process" ELSE "cleanup"
  /\ toNs' = [p \in Port |-> toNs[p] \o Owed(p)]
  /\ sockets' = [c \in Conn |-> [sockets[c] EXCEPT !.owes = "nothing"]]
  /\ UNCHANGED <<hostVars, tableVars, rx_queue, tun, peer>>

-----------------------------------------------------------------------------
(* process(): poll_connecting, then shuttle_established, which also sees   *)
(* the entries that poll_connecting has just made Established.             *)

Connected(c) == states[c] = "Connecting" /\ sockets[c].state \in {"Established", "CloseWait"}
Refused(c) == states[c] = "Connecting" /\ sockets[c].state = "Closed"

\* A bug that never gives up a handshake.
TimesOut_Never(c) == FALSE

TimesOut(c) == states[c] = "Connecting" /\ sockets[c].state = "SynSent" /\ c \in expired

\* An Established entry ends when the socket is closed, or when a peer has
\* ended and the entry is among those that are drained, or failed, by now.
Forwarding(c) == states[c] = "Established" \/ Connected(c)
MayFinish == {c \in Conn : Forwarding(c) /\ (c \in hostEnded \/ sockets[c].state = "CloseWait")}
Finishes(c, done) == c \in done \/ (Forwarding(c) /\ sockets[c].state = "Closed")

\* A bug that drops a finished connection without a RST.
Aborts_TimeoutOnly(c, done) == TimesOut(c)

\* A bug that drops a connection that timed out without a RST.
Aborts_NotTimeout(c, done) == c \in done /\ sockets[c].state # "Closed"

Aborts(c, done) == TimesOut(c) \/ (c \in done /\ sockets[c].state # "Closed")

Process ==
  /\ pc = "process" /\ pc' = "egress2"
  /\ \E done \in SUBSET MayFinish :
       LET ends(c) == Refused(c) \/ TimesOut(c) \/ Finishes(c, done)
       IN  /\ states' = [c \in Conn |-> IF ends(c) THEN "Closing"
                                        ELSE IF Connected(c) THEN "Established" ELSE states[c]]
           /\ stream' = [c \in Conn |-> IF ends(c) THEN "dropped" ELSE stream[c]]
           /\ sockets' = [c \in Conn |-> IF Aborts(c, done)
                                         THEN [state |-> "Closed", owes |-> "RST"]
                                         ELSE sockets[c]]
  /\ expired' = {c \in expired : states'[c] = "Connecting"}
  /\ UNCHANGED <<hostEnded, sending, accepted_rx, pending, handle_to_port, next, used, netVars>>

\* cleanup(): every Closing entry goes, with its socket and its port.
ClosingHandles == {c \in Conn : states[c] = "Closing"}

\* A bug that forgets to release the ports.
ReleasedPorts_None == {}

ReleasedPorts == {handle_to_port[c] : c \in ClosingHandles}

Cleanup ==
  /\ pc = "cleanup" /\ pc' = "wait"
  /\ states' = [c \in Conn |-> IF c \in ClosingHandles THEN "Absent" ELSE states[c]]
  /\ sockets' = [c \in Conn |-> IF c \in ClosingHandles THEN FreeSlot ELSE sockets[c]]
  /\ handle_to_port' = [c \in Conn |-> IF c \in ClosingHandles THEN NoPort ELSE handle_to_port[c]]
  /\ used' = used \ ReleasedPorts
  /\ UNCHANGED <<hostVars, expired, next, netVars>>

Tick == \/ ReceiveAccepted \/ Received \/ AttachNext \/ Attached
        \/ (\E p \in Port : Ingress(p)) \/ IngressDone
        \/ Egress \/ Process \/ Cleanup

-----------------------------------------------------------------------------
Next ==
  \/ \E l \in Listener : SendAccepted(l) \/ \E c \in Conn : Accept(l, c)
  \/ \E c \in Conn : HostEnds(c) \/ HandshakeExpires(c)
  \/ KernelStep \/ WaitForWork \/ Shutdown \/ Tick

Spec == Init /\ [][Next]_vars

\* Fairness.  The loop always makes progress (see OutboundTcp), the clock
\* advances, the kernel handles what is written to the TUN, and Tokio hands the
\* free places of a channel to the waiting senders in turn.  The peers and the
\* shutdown signal owe nothing.
Fairness ==
  /\ WF_vars(WaitForWork) /\ WF_vars(Tick)
  /\ \A c \in Conn : WF_vars(HandshakeExpires(c))
  /\ \A p \in Port : WF_vars(KernelReceives(p))
  /\ \A l \in Listener : SF_vars(SendAccepted(l))

FairSpec == Spec /\ Fairness

-----------------------------------------------------------------------------
(* Properties.                                                             *)

\* Every variable has its type.
TypeOK ==
  /\ stream \in [Conn -> {"none", "open", "refused", "dropped"}]
  /\ hostEnded \subseteq Conn /\ expired \subseteq Conn
  /\ sending \in [Listener -> Conn \cup {NoConn}]
  /\ accepted_rx \in Seq(Conn) /\ pending \in Seq(Conn)
  /\ Len(accepted_rx) <= ACCEPT_QUEUE
  /\ states \in [Conn -> Tag] /\ handle_to_port \in [Conn -> Port \cup {NoPort}]
  /\ next \in Port /\ used \subseteq Port
  /\ sockets \in [Conn -> Socket] /\ pc \in Phase
  /\ \A q \in {rx_queue, tun, toNs} : q \in [Port -> Seq(Segment)]
  /\ peer \in [Port -> [st : {"none", "synrcvd", "estab", "finwait"}, c : Conn \cup {NoConn}]]

\* The source ports in use are exactly those of the entries, and no two
\* entries share one: every path, the failed connect and the refused, expired
\* and finished connection, gives its port back exactly once.
PortsBalanced ==
  /\ \A c \in Conn : /\ states[c] = "Absent" <=> handle_to_port[c] = NoPort
                     /\ states[c] = "Absent" <=> sockets[c].state = "Free"
  /\ \A c, d \in Conn :
       (handle_to_port[c] = handle_to_port[d] /\ states[c] # "Absent") => c = d
  /\ used = {handle_to_port[c] : c \in Conn} \ {NoPort}

\* A stream that was accepted is held in exactly one place, in an accept task,
\* the channel, pending or an entry, until it is closed: a full channel or a
\* full port range makes no connection vanish or be served twice.
Places(c) ==
  {<<"task", l>> : l \in {m \in Listener : sending[m] = c}}
    \cup {<<"channel", i>> : i \in {j \in 1 .. Len(accepted_rx) : accepted_rx[j] = c}}
    \cup {<<"pending", i>> : i \in {j \in 1 .. Len(pending) : pending[j] = c}}
    \cup {<<"entry", x>> : x \in {states[c]} \cap {"Connecting", "Established"}}
StreamHeldOnce ==
  \A c \in Conn : IF stream[c] = "open" THEN \E x \in Places(c) : Places(c) = {x}
                                        ELSE Places(c) = {}

\* A source port is only used again when the namespace's kernel has nothing
\* left of its last connection: no SYN meets a connection of the same 4-tuple.
\* It rests on the RST leaving before cleanup releases the port.
ResetAhead(p, c, i) == \E j \in 1 .. i - 1 : toNs[p][j] = [f |-> "RST", c |-> c]
TupleFresh ==
  \A p \in Port : \A i \in 1 .. Len(toNs[p]) :
    toNs[p][i].f = "SYN" => /\ peer[p] = NoPeer \/ ResetAhead(p, peer[p].c, i)
                            /\ \A j \in 1 .. i - 1 : toNs[p][j].f = "SYN"
                                 => ResetAhead(p, toNs[p][j].c, i)

\* A service that believes to be connected is: a live socket serves it, or the
\* RST that tells it otherwise is owed or on its way.
ServiceNotAbandoned ==
  \A p \in Port : (peer[p].st \in {"estab", "finwait"} /\ pc # "stopped") =>
    LET c == peer[p].c
    IN  \/ /\ handle_to_port[c] = p
           /\ sockets[c].state # "Closed" \/ sockets[c].owes = "RST"
        \/ ResetAhead(p, c, Len(toNs[p]) + 1)

\* attach_accepted turns a connection away only when every port is in use.
RefusedOnlyWhenFull ==
  [][\A c \in Conn : (stream[c] = "open" /\ stream'[c] = "refused") => used = Port]_vars

\* Every accepted connection is forwarded or closed in the end: handshakes that
\* stall, peers that vanish, a full channel and a full port range do not keep
\* one waiting.
AcceptedResolves ==
  \A c \in Conn : (stream[c] = "open") ~> (states[c] = "Established" \/ stream[c] # "open")

\* When an entry is closed, for whatever reason, the service behind it hears
\* of it, unless the loop is stopped.
ServiceHearsEnd ==
  \A c \in Conn, p \in Port :
    (states[c] = "Closing" /\ handle_to_port[c] = p /\ peer[p].c = c)
      ~> (peer[p].c # c \/ pc = "stopped")

\* Both: no end of a published connection goes unheard.
PublishedResolves == AcceptedResolves /\ ServiceHearsEnd
=============================================================================
