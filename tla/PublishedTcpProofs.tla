------------------------- MODULE PublishedTcpProofs -------------------------
(***************************************************************************)
(* Proofs about PublishedTcp, for any number of host connections, accept   *)
(* tasks, source ports and places in the channel: the invariant of the     *)
(* program's own tables, which holds whatever the kernel of the namespace  *)
(* does, and what follows from it.  PublishedWireProofs builds on it for   *)
(* the segments.                                                           *)
(***************************************************************************)
EXTENDS PublishedTcp, TLAPS

\* How long a prover may take over one step, in seconds.
USE SMTT(20), ZenonT(20)

(* The invariant: where a stream is, what its entry says, and which port   *)
(* it has.                                                                 *)

Forwarded == {"Connecting", "Established"}
InTask(c) == \E l \in Listener : sending[l] = c
InChannel(c) == \E i \in 1 .. Len(accepted_rx) : accepted_rx[i] = c
InPending(c) == \E i \in 1 .. Len(pending) : pending[i] = c

\* A stream that is open is somewhere, and what is somewhere is open.
Held ==
  \A c \in Conn : stream[c] = "open" <=>
    InTask(c) \/ InChannel(c) \/ InPending(c) \/ states[c] \in Forwarded

\* No stream is in two places.
Apart ==
  /\ \A l, m \in Listener : (sending[l] = sending[m] /\ sending[l] # NoConn) => l = m
  /\ \A i, j \in 1 .. Len(accepted_rx) : accepted_rx[i] = accepted_rx[j] => i = j
  /\ \A i, j \in 1 .. Len(pending) : pending[i] = pending[j] => i = j
  /\ \A l \in Listener : /\ \A i \in 1 .. Len(accepted_rx) : sending[l] # accepted_rx[i]
                         /\ \A i \in 1 .. Len(pending) : sending[l] # pending[i]
  /\ \A i \in 1 .. Len(accepted_rx), j \in 1 .. Len(pending) : accepted_rx[i] # pending[j]

\* An entry, its stream and its socket agree; what waits has no entry.
Entries ==
  /\ \A c \in Conn : /\ stream[c] = "none" => states[c] = "Absent"
                     /\ states[c] = "Closing" => stream[c] = "dropped" /\ sockets[c].state = "Closed"
                     /\ sockets[c].owes = "RST" => sockets[c].state = "Closed"
                     /\ sockets[c].owes = "SYN" => sockets[c].state = "SynSent"
                     /\ pc = "cleanup" => sockets[c].owes = "nothing"
                     /\ states[c] = "Absent" => sockets[c] = FreeSlot
  /\ \A l \in Listener : sending[l] # NoConn => states[sending[l]] = "Absent"
  /\ \A i \in 1 .. Len(accepted_rx) : states[accepted_rx[i]] = "Absent"
  /\ \A i \in 1 .. Len(pending) : states[pending[i]] = "Absent"

Tables == PortsBalanced /\ Held /\ Apart /\ Entries

\* The kernel has a connection of a host connection, or none.
KnownPeers == \A p \in Port : peer[p].c = NoConn <=> peer[p].st = "none"

IInv == TypeOK /\ KnownPeers /\ Tables

-----------------------------------------------------------------------------
(* What is queued, and what a step does to the tables.                     *)

PeerRecord == [st : {"none", "synrcvd", "estab", "finwait"}, c : Conn \cup {NoConn}]

\* The queues of segments, apart from the rest of the state.
LEMMA Queues ==
  ASSUME TypeOK
  PROVE  /\ rx_queue \in [Port -> Seq(Segment)]
         /\ tun \in [Port -> Seq(Segment)]
         /\ toNs \in [Port -> Seq(Segment)]
BY Zenon DEF TypeOK

\* What egress appends on a port is one segment of a connection there, or
\* nothing.
LEMMA OwedProperties ==
  ASSUME TypeOK, NEW p \in Port
  PROVE  \/ /\ Owed(p) = <<>>
            /\ \A c \in Conn : handle_to_port[c] = p => sockets[c].owes = "nothing"
         \/ \E c \in Conn : /\ handle_to_port[c] = p /\ sockets[c].owes # "nothing"
                            /\ Owed(p) = <<[f |-> sockets[c].owes, c |-> c]>>
                            /\ [f |-> sockets[c].owes, c |-> c] \in Segment
<1> DEFINE owing == {c \in Conn : handle_to_port[c] = p /\ sockets[c].owes # "nothing"}
           d == CHOOSE c \in owing : TRUE
<1>1. Owed(p) = IF owing = {} THEN <<>> ELSE <<[f |-> sockets[d].owes, c |-> d]>>
  BY Zenon DEF Owed
<1>2. ASSUME owing # {} PROVE d \in owing
  BY <1>2, Zenon
<1> HIDE DEF d
<1>3. CASE owing = {}
  BY <1>1, <1>3, Zenon
<1>4. CASE owing # {}
  <2>1. d \in Conn /\ handle_to_port[d] = p /\ sockets[d].owes # "nothing"
    BY <1>2, <1>4, Zenon
  <2>2. [f |-> sockets[d].owes, c |-> d] \in Segment
    BY <2>1, Zenon DEF TypeOK, Socket, Segment
  <2> QED
    BY <1>1, <1>4, <2>1, <2>2, Zenon
<1> QED
  BY <1>3, <1>4, Zenon

\* The connection that attach_accepted takes from pending was held there, and
\* only there.
LEMMA AttachNextFacts ==
  ASSUME TypeOK, Tables, AttachNext, NEW c, c = Head(pending)
  PROVE  LET n == Len(pending)
         IN  /\ c \in Conn /\ n \in Nat \ {0} /\ c = pending[1]
             /\ Len(pending') = n - 1
             /\ \A i \in 1 .. n - 1 : i + 1 \in 1 .. n /\ pending'[i] = pending[i + 1]
                                      /\ pending'[i] # c
             /\ \A i \in 1 .. n : i = 1 \/ (i - 1 \in 1 .. n - 1 /\ pending'[i - 1] = pending[i])
             /\ states[c] = "Absent" /\ stream[c] = "open" /\ sockets[c] = FreeSlot
             /\ ~InTask(c) /\ ~InChannel(c) /\ ~InPending(c)'
             /\ pc = "attach" /\ UNCHANGED <<sending, accepted_rx, pc>>
<1> DEFINE n == Len(pending)
<1>1. /\ c \in Conn /\ n \in Nat \ {0} /\ c = pending[1]
      /\ Len(pending') = n - 1 /\ \A i \in 1 .. n - 1 : pending'[i] = pending[i + 1]
  BY DEF TypeOK, AttachNext
<1>2. \A i \in 1 .. n - 1 : i + 1 \in 1 .. n /\ i + 1 # 1
  BY <1>1
<1>3. \A i \in 1 .. n - 1 : pending'[i] # c
  BY <1>1, <1>2 DEF Tables, Apart
<1>4. \A i \in 1 .. n : i = 1 \/ (i - 1 \in 1 .. n - 1 /\ pending'[i - 1] = pending[i])
  BY <1>1
<1>5. InPending(c) /\ ~InTask(c) /\ ~InChannel(c)
  BY <1>1 DEF Tables, Apart, InPending, InTask, InChannel
<1>6. ~InPending(c)'
  BY <1>1, <1>3, Zenon DEF InPending
<1>7. states[c] = "Absent" /\ stream[c] = "open" /\ sockets[c] = FreeSlot
  BY <1>1, <1>5 DEF Tables, Held, Entries
<1>8. pc = "attach" /\ UNCHANGED <<sending, accepted_rx, pc>>
  BY Zenon DEF AttachNext
<1> QED
  BY <1>1, <1>2, <1>3, <1>4, <1>5, <1>6, <1>7, <1>8, Zenon

\* What process() does to each connection: it goes on, it becomes Established,
\* or it ends; one that ends was Connecting or Established, and its socket is
\* closed or aborted.
LEMMA ProcessEffect ==
  ASSUME TypeOK, Tables, Process
  PROVE  /\ pc = "process" /\ pc' = "egress2"
         /\ UNCHANGED <<sending, accepted_rx, pending, handle_to_port, used, netVars>>
         /\ \A c \in Conn :
              \/ /\ stream'[c] = stream[c] /\ sockets'[c] = sockets[c]
                 /\ states'[c] = states[c] \/ (states[c] = "Connecting" /\ states'[c] = "Established")
              \/ /\ states[c] \in Forwarded /\ states'[c] = "Closing" /\ stream'[c] = "dropped"
                 /\ \/ sockets'[c] = sockets[c] /\ sockets[c].state = "Closed"
                    \/ sockets'[c] = [state |-> "Closed", owes |-> "RST"]
<1>1. PICK done \in SUBSET MayFinish :
        \A c \in Conn :
          LET ends == Refused(c) \/ TimesOut(c) \/ Finishes(c, done)
          IN  /\ states'[c] = IF ends THEN "Closing"
                              ELSE IF Connected(c) THEN "Established" ELSE states[c]
              /\ stream'[c] = IF ends THEN "dropped" ELSE stream[c]
              /\ sockets'[c] = IF Aborts(c, done) THEN [state |-> "Closed", owes |-> "RST"]
                               ELSE sockets[c]
  BY Zenon DEF Process
<1>2. \A c \in Conn : /\ Refused(c) => states[c] \in Forwarded /\ sockets[c].state = "Closed"
                      /\ TimesOut(c) => states[c] \in Forwarded /\ Aborts(c, done)
                      /\ Finishes(c, done) => /\ states[c] \in Forwarded
                                              /\ Aborts(c, done) \/ sockets[c].state = "Closed"
                      /\ Aborts(c, done) => TimesOut(c) \/ Finishes(c, done)
                      /\ Connected(c) => states[c] = "Connecting"
  BY Zenon DEF Refused, TimesOut, Finishes, Aborts, MayFinish, Forwarding, Connected, Forwarded
<1> QED
  BY <1>1, <1>2, Zenon DEF Process

-----------------------------------------------------------------------------
(* Typing.                                                                 *)

\* Every step keeps the types.
LEMMA TypeStep == TypeOK /\ KnownPeers /\ [Next]_vars => TypeOK'
<1> SUFFICES ASSUME TypeOK, KnownPeers, [Next]_vars PROVE TypeOK'
  BY Zenon
<1> USE PublishedAssumption
<1>1. ASSUME NEW l \in Listener, SendAccepted(l) PROVE TypeOK'
  BY <1>1 DEF TypeOK, SendAccepted, tableVars, netVars
<1>2. ASSUME NEW l \in Listener, NEW c \in Conn, Accept(l, c) PROVE TypeOK'
  BY <1>2, Zenon DEF TypeOK, Accept, tableVars, netVars
<1>3. ASSUME NEW c \in Conn, HostEnds(c) PROVE TypeOK'
  BY <1>3, Zenon DEF TypeOK, HostEnds, tableVars, netVars
<1>4. ASSUME NEW c \in Conn, HandshakeExpires(c) PROVE TypeOK'
  BY <1>4, Zenon DEF TypeOK, HandshakeExpires, hostVars, netVars
<1>5. ASSUME NEW p \in Port, KernelReceives(p) PROVE TypeOK'
  <2>1. Head(toNs[p]) \in Segment /\ Tail(toNs[p]) \in Seq(Segment)
    BY <1>5 DEF TypeOK, KernelReceives
  <2>2. toNs' \in [Port -> Seq(Segment)]
    BY <1>5, <2>1, Zenon DEF TypeOK, KernelReceives
  <2>3. tun' \in [Port -> Seq(Segment)]
    <3>1. \A flag \in {"SYNACK", "RST"} :
            [f |-> flag, c |-> Head(toNs[p]).c] \in Segment
      BY <2>1, Zenon DEF Segment
    <3>2. \A flag \in {"SYNACK", "RST"} :
            Reply(p, flag, Head(toNs[p]).c) => tun' \in [Port -> Seq(Segment)]
      BY <3>1 DEF TypeOK, Reply
    <3> QED
      BY <1>5, <3>2, Zenon DEF TypeOK, KernelReceives
  <2>4. peer' \in [Port -> PeerRecord]
    <3>1. peer \in [Port -> PeerRecord]
      BY Zenon DEF TypeOK, PeerRecord
    <3>2. /\ [st |-> "synrcvd", c |-> Head(toNs[p]).c] \in PeerRecord
          /\ NoPeer \in PeerRecord
          /\ [peer[p] EXCEPT !.st = "estab"] \in PeerRecord
      BY <2>1, <3>1 DEF PeerRecord, Segment, NoPeer
    <3>3. \E r \in PeerRecord : peer' = [peer EXCEPT ![p] = r]
      <4>1. peer = [peer EXCEPT ![p] = peer[p]]
        BY <3>1
      <4> QED
        BY <1>5, <3>1, <3>2, <4>1, Zenon DEF KernelReceives
    <3> QED
      BY <3>1, <3>3
  <2> QED
    BY <1>5, <2>2, <2>3, <2>4, Zenon DEF TypeOK, KernelReceives, hostVars, tableVars, PeerRecord
<1>6. ASSUME NEW p \in Port, ServiceEnds(p) PROVE TypeOK'
  <2>1. peer \in [Port -> PeerRecord]
    BY Zenon DEF TypeOK, PeerRecord
  <2>2. [peer[p] EXCEPT !.st = "finwait"] \in PeerRecord /\ NoPeer \in PeerRecord
    BY <2>1 DEF PeerRecord, NoPeer
  <2>3. peer' \in [Port -> PeerRecord]
    BY <1>6, <2>1, <2>2, Zenon DEF ServiceEnds
  <2>4. tun' \in [Port -> Seq(Segment)]
    <3>1. peer[p].c \in Conn
      BY <1>6, <2>1, Zenon DEF ServiceEnds, KnownPeers, PeerRecord
    <3>2. \A flag \in {"FIN", "RST"} : [f |-> flag, c |-> peer[p].c] \in Segment
      BY <3>1, Zenon DEF Segment
    <3>3. \A flag \in {"FIN", "RST"} :
            Reply(p, flag, peer[p].c) => tun' \in [Port -> Seq(Segment)]
      BY <3>2, Queues DEF Reply
    <3> QED
      BY <1>6, <3>3, Zenon DEF ServiceEnds
  <2> QED
    BY <1>6, <2>3, <2>4, Zenon DEF TypeOK, ServiceEnds, hostVars, tableVars, PeerRecord
<1>7. ASSUME NEW p \in Port, KernelForgets(p) PROVE TypeOK'
  BY <1>7, Zenon DEF TypeOK, KernelForgets, hostVars, tableVars, NoPeer
<1>8. CASE WaitForWork
  <2>1. pending' \in Seq(Conn) /\ accepted_rx' \in Seq(Conn) /\ Len(accepted_rx') <= ACCEPT_QUEUE
    <3>1. /\ accepted_rx \in Seq(Conn) /\ pending \in Seq(Conn)
          /\ Len(accepted_rx) <= ACCEPT_QUEUE /\ ACCEPT_QUEUE \in Nat
      BY Zenon DEF TypeOK
    <3>2. CASE accepted_rx = <<>> /\ UNCHANGED <<pending, accepted_rx>>
      BY <3>1, <3>2
    <3>3. CASE accepted_rx # <<>> /\ pending' = Append(pending, Head(accepted_rx))
                                  /\ accepted_rx' = Tail(accepted_rx)
      BY <3>1, <3>3
    <3> QED
      BY <1>8, <3>2, <3>3, Zenon DEF WaitForWork
  <2>2. rx_queue' \in [Port -> Seq(Segment)] /\ tun' \in [Port -> Seq(Segment)]
    BY <1>8 DEF TypeOK, WaitForWork
  <2> QED
    BY <1>8, <2>1, <2>2, Zenon DEF TypeOK, WaitForWork, tableVars, Phase
<1>9. CASE Shutdown
  BY <1>9 DEF TypeOK, Shutdown, netVars, Phase, Tag, Socket, FreeSlot
<1>10. CASE ReceiveAccepted
  BY <1>10 DEF TypeOK, ReceiveAccepted, tableVars, netVars
<1>11. CASE Received \/ Attached \/ IngressDone
  BY <1>11 DEF TypeOK, Received, Attached, IngressDone, hostVars, tableVars, netVars, Phase
<1>12. CASE AttachNext
  <2>1. Head(pending) \in Conn /\ Tail(pending) \in Seq(Conn)
    BY <1>12 DEF TypeOK, AttachNext
  <2>2. \A p \in Port : After(p) \in Port
    BY DEF After, Port
  <2>3. ASSUME NEW p \in Port, ConnectStarts(Head(pending), p) PROVE TypeOK'
    <3>1. [state |-> "SynSent", owes |-> "SYN"] \in Socket
      BY Zenon DEF Socket
    <3> QED
      BY <1>12, <2>1, <2>2, <2>3, <3>1, Zenon DEF TypeOK, AttachNext, ConnectStarts, Tag, netVars
  <2>4. ASSUME NEW p \in Port, ConnectFails(Head(pending), p) PROVE TypeOK'
    BY <1>12, <2>1, <2>2, <2>4, Zenon DEF TypeOK, AttachNext, ConnectFails, netVars
  <2>5. ASSUME PortsExhausted(Head(pending)) PROVE TypeOK'
    BY <1>12, <2>1, <2>5, Zenon DEF TypeOK, AttachNext, PortsExhausted, netVars
  <2> QED
    BY <1>12, <2>3, <2>4, <2>5, Zenon DEF AttachNext
<1>13. ASSUME NEW p \in Port, Ingress(p) PROVE TypeOK'
  <2>1. Head(rx_queue[p]) \in Segment /\ Tail(rx_queue[p]) \in Seq(Segment)
    BY <1>13 DEF TypeOK, Ingress
  <2>2. rx_queue' \in [Port -> Seq(Segment)]
    BY <1>13, <2>1, Zenon DEF TypeOK, Ingress
  <2>3. toNs' \in [Port -> Seq(Segment)]
    <3>1. [f |-> "RST", c |-> Head(rx_queue[p]).c] \in Segment
      BY <2>1, Zenon DEF Segment
    <3>2. Append(toNs[p], [f |-> "RST", c |-> Head(rx_queue[p]).c]) \in Seq(Segment)
      BY <3>1, Queues
    <3> QED
      BY <1>13, <3>2, Queues, Zenon DEF Ingress
  <2>4. sockets' \in [Conn -> Socket]
    <3>1. \A sock \in Socket, flag \in {"SYN", "SYNACK", "ACK", "FIN", "RST"} :
            AfterSegment(sock, flag) \in Socket
      BY DEF AfterSegment, Socket
    <3>2. Head(rx_queue[p]).f \in {"SYN", "SYNACK", "ACK", "FIN", "RST"}
      BY <2>1, Zenon DEF Segment
    <3>3. sockets \in [Conn -> Socket] /\ OnPort(p) \subseteq Conn
      BY Zenon DEF TypeOK, OnPort
    <3> QED
      BY <1>13, <3>1, <3>2, <3>3 DEF Ingress
  <2> QED
    BY <1>13, <2>2, <2>3, <2>4, Zenon DEF TypeOK, Ingress, hostVars, tableVars
<1>14. CASE Egress
  <2>1. \A p \in Port : Owed(p) \in Seq(Segment)
    <3> TAKE p \in Port
    <3>1. <<>> \in Seq(Segment) /\ \A x \in Segment : <<x>> \in Seq(Segment)
      OBVIOUS
    <3>2. \/ Owed(p) = <<>>
          \/ \E x \in Segment : Owed(p) = <<x>>
      BY OwedProperties, Zenon
    <3> QED
      BY <3>1, <3>2, Zenon
  <2>2. toNs' \in [Port -> Seq(Segment)]
    BY <1>14, <2>1 DEF TypeOK, Egress
  <2>3. sockets' \in [Conn -> Socket]
    <3>1. \A x \in Socket : [x EXCEPT !.owes = "nothing"] \in Socket
      BY DEF Socket
    <3>2. \A c \in Conn : sockets[c] \in Socket
      BY Zenon DEF TypeOK
    <3> QED
      BY <1>14, <3>1, <3>2, Zenon DEF Egress
  <2> QED
    BY <1>14, <2>2, <2>3, Zenon DEF TypeOK, Egress, hostVars, tableVars, Phase
<1>15. CASE Process
  <2>1. [state |-> "Closed", owes |-> "RST"] \in Socket
    BY Zenon DEF Socket
  <2>2. sockets' \in [Conn -> Socket]
    BY <1>15, <2>1, Zenon DEF TypeOK, Process
  <2>3. states' \in [Conn -> Tag]
    BY <1>15 DEF TypeOK, Process, Tag
  <2>4. stream' \in [Conn -> {"none", "open", "refused", "dropped"}]
    BY <1>15, Zenon DEF TypeOK, Process
  <2> QED
    BY <1>15, <2>2, <2>3, <2>4, Zenon DEF TypeOK, Process, Phase, netVars
<1>16. CASE Cleanup
  <2>1. FreeSlot \in Socket
    BY Zenon DEF FreeSlot, Socket
  <2> QED
    BY <1>16, <2>1, Zenon DEF TypeOK, Cleanup, Phase, Tag, hostVars, netVars
<1>17. CASE UNCHANGED vars
  BY <1>17, Zenon DEF TypeOK, vars, hostVars, tableVars, netVars
<1> QED
  BY <1>1, <1>2, <1>3, <1>4, <1>5, <1>6, <1>7, <1>8, <1>9, <1>10, <1>11, <1>12, <1>13, <1>14,
     <1>15, <1>16, <1>17 DEF Next, KernelStep, Tick

\* The kernel's connections stay well formed.
LEMMA PeersStep == TypeOK /\ KnownPeers /\ [Next]_vars => KnownPeers'
<1> SUFFICES ASSUME TypeOK, KnownPeers, [Next]_vars, peer' # peer PROVE KnownPeers'
  BY Zenon DEF KnownPeers
<1>1. peer \in [Port -> PeerRecord]
  BY Zenon DEF TypeOK, PeerRecord
<1>2. KernelStep
  BY Zenon DEF Next, vars, netVars, SendAccepted, Accept, HostEnds, HandshakeExpires, WaitForWork,
     Shutdown, Tick, ReceiveAccepted, Received, AttachNext, Attached, Ingress, IngressDone,
     Egress, Process, Cleanup
<1>3. ASSUME NEW p \in Port, KernelReceives(p) PROVE KnownPeers'
  <2>1. Head(toNs[p]).c \in Conn
    <3>1. Head(toNs[p]) \in Segment
      BY <1>3, Queues DEF KernelReceives
    <3> QED
      BY <3>1, Zenon DEF Segment
  <2> QED
    BY <1>1, <1>3, <2>1, PublishedAssumption DEF KernelReceives, KnownPeers, NoPeer, PeerRecord
<1>4. ASSUME NEW p \in Port, ServiceEnds(p) \/ KernelForgets(p) PROVE KnownPeers'
  BY <1>1, <1>4 DEF ServiceEnds, KernelForgets, KnownPeers, NoPeer, PeerRecord
<1> QED
  BY <1>2, <1>3, <1>4 DEF KernelStep

-----------------------------------------------------------------------------
(* Streams, entries and ports.                                             *)

\* Steps that touch no table.
LEMMA TablesFrame ==
  ASSUME Tables, UNCHANGED <<stream, sending, accepted_rx, pending>>,
         UNCHANGED <<states, handle_to_port, used, sockets>>,
         pc' = "cleanup" => pc = "cleanup"
  PROVE  Tables'
<1>1. PortsBalanced'
  BY Zenon DEF Tables, PortsBalanced
<1>2. Held'
  BY Zenon DEF Tables, Held, InTask, InChannel, InPending
<1>3. Apart'
  BY DEF Tables, Apart
<1>4. Entries'
  BY DEF Tables, Entries
<1> QED
  BY <1>1, <1>2, <1>3, <1>4 DEF Tables

LEMMA AcceptTables ==
  ASSUME TypeOK, Tables, NEW l \in Listener, NEW c \in Conn, Accept(l, c)
  PROVE  Tables'
<1>1. /\ pc' = pc /\ sending[l] = NoConn /\ stream[c] = "none"
      /\ UNCHANGED <<accepted_rx, pending, states, handle_to_port, used, sockets>>
  BY Zenon DEF Accept, tableVars
<1>2. /\ sending'[l] = c /\ \A m \in Listener : m # l => sending'[m] = sending[m]
      /\ stream'[c] = "open" /\ \A d \in Conn : d # c => stream'[d] = stream[d]
  BY Zenon DEF Accept, TypeOK
<1>3. ~InTask(c) /\ ~InChannel(c) /\ ~InPending(c) /\ states[c] = "Absent"
  BY <1>1, Zenon DEF Tables, Held, Entries
<1>4. PortsBalanced'
  BY <1>1 DEF Tables, PortsBalanced
<1>5. Held'
  <2> SUFFICES ASSUME NEW d \in Conn
               PROVE  (stream[d] = "open")' <=> (InTask(d) \/ InChannel(d) \/ InPending(d)
                                                   \/ states[d] \in Forwarded)'
    BY Zenon DEF Held
  <2>1. CASE d = c
    BY <1>2, <2>1, Zenon DEF InTask
  <2>2. CASE d # c
    <3>1. InTask(d)' <=> InTask(d)
      BY <1>1, <1>2, <2>2, PublishedAssumption DEF InTask
    <3> QED
      BY <1>1, <1>2, <2>2, <3>1 DEF Tables, Held, InChannel, InPending
  <2> QED
    BY <2>1, <2>2, Zenon
<1>6. Apart'
  BY <1>1, <1>2, <1>3 DEF Tables, Apart, InTask, InChannel, InPending
<1>7. Entries'
  BY <1>1, <1>2, <1>3 DEF Tables, Entries
<1> QED
  BY <1>4, <1>5, <1>6, <1>7 DEF Tables

LEMMA SendAcceptedTables ==
  ASSUME TypeOK, Tables, NEW l \in Listener, SendAccepted(l)
  PROVE  Tables'
<1> DEFINE c == sending[l]
           n == Len(accepted_rx)
<1>1. /\ c # NoConn /\ UNCHANGED <<pc, stream, pending, states, handle_to_port, used, sockets>>
  BY Zenon DEF SendAccepted, tableVars
<1>2. /\ sending'[l] = NoConn /\ \A m \in Listener : m # l => sending'[m] = sending[m]
  BY Zenon DEF SendAccepted, TypeOK
<1>3. c \in Conn /\ n \in Nat /\ Len(accepted_rx') = n + 1 /\ accepted_rx'[n + 1] = c
      /\ \A i \in 1 .. n : accepted_rx'[i] = accepted_rx[i]
  BY <1>1 DEF SendAccepted, TypeOK
<1> HIDE DEF c, n
<1>4. PortsBalanced'
  BY <1>1 DEF Tables, PortsBalanced
<1>5. Held'
  <2> SUFFICES ASSUME NEW d \in Conn
               PROVE  (stream[d] = "open")' <=> (InTask(d) \/ InChannel(d) \/ InPending(d)
                                                   \/ states[d] \in Forwarded)'
    BY Zenon DEF Held
  <2>1. (InTask(d) \/ InChannel(d))' <=> InTask(d) \/ InChannel(d)
    <3>1. CASE d = c
      <4>1. InChannel(d)'
        BY <1>3, <3>1 DEF InChannel
      <4>2. InTask(d)
        BY <3>1 DEF InTask, c
      <4> QED
        BY <4>1, <4>2
    <3>2. CASE d # c
      <4>1. InTask(d)' <=> InTask(d)
        BY <1>2, <3>2, PublishedAssumption, Zenon DEF InTask, c
      <4>2. InChannel(d)' <=> InChannel(d)
        BY <1>3, <3>2 DEF InChannel, n
      <4> QED
        BY <4>1, <4>2
    <3> QED
      BY <3>1, <3>2, Zenon
  <2>2. InPending(d)' <=> InPending(d)
    BY <1>1, Zenon DEF InPending
  <2> QED
    BY <1>1, <2>1, <2>2, Zenon DEF Tables, Held
<1>6. Apart'
  <2>1. \A i \in 1 .. n : accepted_rx[i] # c
    BY Zenon DEF Tables, Apart, c, n
  <2>2. \A i \in 1 .. Len(pending) : pending[i] # c
    BY Zenon DEF Tables, Apart, c
  <2>3. \A m \in Listener : m # l => sending[m] # c
    BY <1>1, Zenon DEF Tables, Apart, c
  <2>4. \A i \in 1 .. Len(accepted_rx)' : i = n + 1 \/ i \in 1 .. n
    BY <1>3
  <2>5. NoConn \notin {accepted_rx'[i] : i \in 1 .. Len(accepted_rx)'}
    <3>1. \A i \in 1 .. n : accepted_rx[i] \in Conn
      BY DEF TypeOK, n
    <3> QED
      BY <1>3, <2>4, <3>1, PublishedAssumption, Zenon
  <2>6. NoConn \notin {pending[i] : i \in 1 .. Len(pending)}
    BY PublishedAssumption DEF TypeOK
  <2> QED
    BY <1>1, <1>2, <1>3, <2>1, <2>2, <2>3, <2>4, <2>5, <2>6 DEF Tables, Apart, n
<1>7. Entries'
  <2>1. \A i \in 1 .. Len(accepted_rx)' : i = n + 1 \/ i \in 1 .. n
    BY <1>3
  <2>2. states[c] = "Absent"
    BY <1>1, Zenon DEF Tables, Entries, c
  <2> QED
    BY <1>1, <1>2, <1>3, <2>1, <2>2 DEF Tables, Entries, n
<1> QED
  BY <1>4, <1>5, <1>6, <1>7 DEF Tables

\* The loop takes a connection from the channel (poll_ready, attach_accepted).
LEMMA TakeTables ==
  ASSUME TypeOK, Tables, accepted_rx # <<>>,
         pending' = Append(pending, Head(accepted_rx)), accepted_rx' = Tail(accepted_rx),
         UNCHANGED <<stream, sending, states, handle_to_port, used, sockets>>,
         pc' # "cleanup"
  PROVE  Tables'
<1> DEFINE c == Head(accepted_rx)
           n == Len(accepted_rx)
           k == Len(pending)
<1>1. /\ c \in Conn /\ n \in Nat \ {0} /\ c = accepted_rx[1]
      /\ Len(accepted_rx') = n - 1 /\ \A i \in 1 .. n - 1 : accepted_rx'[i] = accepted_rx[i + 1]
  BY DEF TypeOK
<1>2. /\ k \in Nat /\ Len(pending') = k + 1 /\ pending'[k + 1] = c
      /\ \A i \in 1 .. k : pending'[i] = pending[i]
  BY DEF TypeOK
<1> HIDE DEF c, n, k
<1>3. \A i \in 1 .. n : i = 1 \/ (i - 1 \in 1 .. n - 1 /\ accepted_rx'[i - 1] = accepted_rx[i])
  BY <1>1
<1>4. \A i \in 1 .. Len(pending)' : i = k + 1 \/ i \in 1 .. k
  BY <1>2
<1>5. \A i \in 1 .. n - 1 : i + 1 \in 1 .. n /\ accepted_rx'[i] = accepted_rx[i + 1]
                            /\ accepted_rx'[i] # c
  <2>1. \A i \in 1 .. n - 1 : i + 1 \in 1 .. n /\ i + 1 # 1
    BY <1>1
  <2> QED
    BY <1>1, <2>1 DEF Tables, Apart, n
<1>6. PortsBalanced'
  BY Zenon DEF Tables, PortsBalanced
<1>7. Held'
  <2> SUFFICES ASSUME NEW d \in Conn
               PROVE  (InTask(d) \/ InChannel(d) \/ InPending(d))'
                        <=> InTask(d) \/ InChannel(d) \/ InPending(d)
    BY Zenon DEF Held, Tables
  <2>1. InTask(d)' <=> InTask(d)
    BY Zenon DEF InTask
  <2>2. CASE d = c
    <3>1. InChannel(d)
      BY <1>1, <2>2 DEF InChannel, n
    <3>2. InPending(d)'
      BY <1>2, <2>2 DEF InPending
    <3> QED
      BY <3>1, <3>2, Zenon
  <2>3. CASE d # c
    <3>1. InChannel(d)' <=> InChannel(d)
      BY <1>1, <1>3, <1>5, <2>3 DEF InChannel, n
    <3>2. InPending(d)' <=> InPending(d)
      BY <1>2, <1>4, <2>3 DEF InPending, k
    <3> QED
      BY <2>1, <3>1, <3>2, Zenon
  <2> QED
    BY <2>2, <2>3, Zenon
<1>8. Apart'
  <2>1. \A i \in 1 .. k : pending[i] # c
    BY <1>1 DEF Tables, Apart, n, k
  <2>2. \A l \in Listener : sending[l] # c
    BY <1>1 DEF Tables, Apart, n
  <2>3. \A i, j \in 1 .. Len(accepted_rx)' : accepted_rx'[i] = accepted_rx'[j] => i = j
    BY <1>1, <1>5 DEF Tables, Apart, n
  <2>4. \A i, j \in 1 .. Len(pending)' : pending'[i] = pending'[j] => i = j
    BY <1>2, <1>4, <2>1 DEF Tables, Apart, k
  <2>5. \A i \in 1 .. Len(accepted_rx)', j \in 1 .. Len(pending)' : accepted_rx'[i] # pending'[j]
    BY <1>1, <1>2, <1>4, <1>5 DEF Tables, Apart, n, k
  <2>6. \A l \in Listener : /\ \A i \in 1 .. Len(accepted_rx)' : sending'[l] # accepted_rx'[i]
                            /\ \A i \in 1 .. Len(pending)' : sending'[l] # pending'[i]
    BY <1>1, <1>2, <1>4, <1>5, <2>2 DEF Tables, Apart, n, k
  <2> QED
    BY <2>3, <2>4, <2>5, <2>6, Zenon DEF Tables, Apart
<1>9. Entries'
  BY <1>1, <1>2, <1>4, <1>5 DEF Tables, Entries, n, k
<1> QED
  BY <1>6, <1>7, <1>8, <1>9 DEF Tables

LEMMA ShutdownTables ==
  ASSUME TypeOK, Tables, Shutdown
  PROVE  Tables'
<1>1. /\ accepted_rx' = <<>> /\ pending' = <<>> /\ used' = {} /\ pc' = "stopped"
      /\ \A l \in Listener : sending'[l] = NoConn
      /\ \A c \in Conn : /\ states'[c] = "Absent" /\ handle_to_port'[c] = NoPort
                         /\ sockets'[c] = FreeSlot /\ stream'[c] # "open"
                         /\ stream[c] = "none" => stream'[c] = "none"
  BY Zenon DEF Shutdown
<1>2. PortsBalanced'
  BY <1>1 DEF PortsBalanced, FreeSlot
<1>3. Held'
  BY <1>1, PublishedAssumption DEF Held, InTask, InChannel, InPending, Forwarded
<1>4. Apart'
  BY <1>1 DEF Apart
<1>5. Entries'
  BY <1>1 DEF Entries, FreeSlot
<1> QED
  BY <1>2, <1>3, <1>4, <1>5 DEF Tables

LEMMA AttachNextTables ==
  ASSUME TypeOK, Tables, AttachNext
  PROVE  Tables'
<1> PICK c : c = Head(pending)
  OBVIOUS
<1> DEFINE n == Len(pending)
<1>1. /\ c \in Conn /\ n \in Nat \ {0} /\ c = pending[1] /\ Len(pending') = n - 1
      /\ \A i \in 1 .. n - 1 : i + 1 \in 1 .. n /\ pending'[i] = pending[i + 1] /\ pending'[i] # c
      /\ \A i \in 1 .. n : i = 1 \/ (i - 1 \in 1 .. n - 1 /\ pending'[i - 1] = pending[i])
  BY AttachNextFacts
<1>2. /\ states[c] = "Absent" /\ stream[c] = "open" /\ sockets[c] = FreeSlot
      /\ ~InTask(c) /\ ~InChannel(c) /\ ~InPending(c)'
      /\ pc = "attach" /\ UNCHANGED <<sending, accepted_rx, pc>>
  BY AttachNextFacts, Zenon
<1>3. \A d \in Conn : d # c => ((InTask(d) \/ InChannel(d) \/ InPending(d))'
                                  <=> InTask(d) \/ InChannel(d) \/ InPending(d))
  BY <1>1, <1>2 DEF InTask, InChannel, InPending
<1>4. Apart'
  BY <1>1, <1>2 DEF Tables, Apart
<1>5. ASSUME NEW p \in Port, FirstFree(p), ConnectStarts(c, p) PROVE Tables'
  <2>1. /\ states'[c] = "Connecting" /\ handle_to_port'[c] = p
        /\ sockets'[c] = [state |-> "SynSent", owes |-> "SYN"]
        /\ \A d \in Conn : d # c => /\ states'[d] = states[d] /\ sockets'[d] = sockets[d]
                                    /\ handle_to_port'[d] = handle_to_port[d]
        /\ used' = used \cup {p} /\ stream' = stream
    BY <1>1, <1>5, Zenon DEF ConnectStarts, TypeOK
  <2>2. p \notin used /\ p # NoPort
    BY <1>5, PublishedAssumption DEF FirstFree, Tries, Port, NoPort
  <2>3. PortsBalanced'
    <3>1. \A d \in Conn : handle_to_port[d] # p
      BY <2>2 DEF Tables, PortsBalanced
    <3>2. used' = {handle_to_port'[d] : d \in Conn} \ {NoPort}
      <4>1. handle_to_port[c] = NoPort
        BY <1>1, <1>2, Zenon DEF Tables, PortsBalanced
      <4> QED
        BY <1>1, <2>1, <2>2, <4>1 DEF Tables, PortsBalanced
    <3>3. \A d, e \in Conn :
            (handle_to_port'[d] = handle_to_port'[e] /\ states'[d] # "Absent") => d = e
      BY <1>1, <2>1, <2>2, <3>1 DEF Tables, PortsBalanced
    <3>4. \A d \in Conn : /\ states'[d] = "Absent" <=> handle_to_port'[d] = NoPort
                          /\ states'[d] = "Absent" <=> sockets'[d].state = "Free"
      BY <2>1, <2>2 DEF Tables, PortsBalanced
    <3> QED
      BY <3>2, <3>3, <3>4, Zenon DEF PortsBalanced
  <2>4. Held'
    BY <1>2, <1>3, <2>1, Zenon DEF Tables, Held, Forwarded
  <2>5. Entries'
    <3>1. \A l \in Listener : sending[l] # c
      BY <1>2, Zenon DEF InTask
    <3>2. \A i \in 1 .. Len(accepted_rx) : accepted_rx[i] # c
      BY <1>2, Zenon DEF InChannel
    <3>3. /\ \A l \in Listener : sending[l] # NoConn => sending[l] \in Conn
          /\ \A i \in 1 .. Len(accepted_rx) : accepted_rx[i] \in Conn
          /\ \A i \in 1 .. n : pending[i] \in Conn
      BY DEF TypeOK
    <3>4. /\ \A l \in Listener : sending[l] # NoConn => states'[sending[l]] = "Absent"
          /\ \A i \in 1 .. Len(accepted_rx) : states'[accepted_rx[i]] = "Absent"
      BY <2>1, <3>1, <3>2, <3>3 DEF Tables, Entries
    <3>6. \A i \in 1 .. n - 1 : states'[pending'[i]] = "Absent"
      <4>1. \A i \in 1 .. n - 1 : pending'[i] \in Conn /\ states[pending'[i]] = "Absent"
        BY <1>1, <3>3 DEF Tables, Entries
      <4>2. \A i \in 1 .. n - 1 : pending'[i] # c
        BY <1>1, Zenon
      <4> QED
        BY <2>1, <4>1, <4>2, Zenon
    <3>5. \A d \in Conn :
            /\ stream'[d] = "none" => states'[d] = "Absent"
            /\ states'[d] = "Closing" => stream'[d] = "dropped" /\ sockets'[d].state = "Closed"
            /\ sockets'[d].owes = "RST" => sockets'[d].state = "Closed"
            /\ sockets'[d].owes = "SYN" => sockets'[d].state = "SynSent"
            /\ states'[d] = "Absent" => sockets'[d] = FreeSlot
      BY <1>1, <1>2, <2>1 DEF Tables, Entries
    <3> QED
      BY <1>1, <1>2, <3>4, <3>5, <3>6 DEF Entries
  <2> QED
    BY <1>4, <2>3, <2>4, <2>5 DEF Tables
<1>6. ASSUME UNCHANGED <<used, states, handle_to_port, sockets>>,
             \E x \in {"dropped", "refused"} : stream' = [stream EXCEPT ![c] = x]
      PROVE  Tables'
  <2>1. /\ stream'[c] \in {"dropped", "refused"}
        /\ \A d \in Conn : d # c => stream'[d] = stream[d]
    BY <1>1, <1>6 DEF TypeOK
  <2>2. PortsBalanced'
    BY <1>6 DEF Tables, PortsBalanced
  <2>3. Held'
    <3>1. ~InTask(c)' /\ ~InChannel(c)'
      BY <1>2, Zenon DEF InTask, InChannel
    <3> QED
      BY <1>2, <1>3, <1>6, <2>1, <3>1 DEF Tables, Held, Forwarded
  <2>4. Entries'
    BY <1>1, <1>2, <1>6, <2>1 DEF Tables, Entries
  <2> QED
    BY <1>4, <2>2, <2>3, <2>4 DEF Tables
<1> QED
  BY <1>5, <1>6, Zenon DEF AttachNext, ConnectFails, PortsExhausted

\* A step that enters and removes nothing leaves the ports balanced, and what
\* waits still has no entry.
LEMMA PortsKept ==
  ASSUME PortsBalanced, UNCHANGED <<handle_to_port, used>>,
         \A c \in Conn : /\ states'[c] = "Absent" <=> states[c] = "Absent"
                         /\ sockets'[c].state = "Free" <=> sockets[c].state = "Free"
  PROVE  PortsBalanced'
BY DEF PortsBalanced

LEMMA WaitingKept ==
  ASSUME TypeOK, Entries, UNCHANGED <<sending, accepted_rx, pending>>,
         \A c \in Conn : states[c] = "Absent" => states'[c] = "Absent"
  PROVE  /\ \A l \in Listener : sending'[l] # NoConn => states'[sending'[l]] = "Absent"
         /\ \A i \in 1 .. Len(accepted_rx') : states'[accepted_rx'[i]] = "Absent"
         /\ \A i \in 1 .. Len(pending') : states'[pending'[i]] = "Absent"
<1>1. /\ \A l \in Listener : sending[l] # NoConn => sending[l] \in Conn
      /\ \A i \in 1 .. Len(accepted_rx) : accepted_rx[i] \in Conn
      /\ \A i \in 1 .. Len(pending) : pending[i] \in Conn
  BY DEF TypeOK
<1> QED
  BY <1>1, Zenon DEF Entries

\* What a segment that a socket accepts leaves it owing.
LEMMA AfterSegmentOwes ==
  ASSUME NEW sock \in Socket, NEW f, sock.state # "Free", sock.owes # "RST",
         sock.owes = "SYN" => sock.state = "SynSent"
  PROVE  /\ AfterSegment(sock, f).state # "Free"
         /\ AfterSegment(sock, f).owes = "RST" => AfterSegment(sock, f).state = "Closed"
         /\ AfterSegment(sock, f).owes = "SYN" => AfterSegment(sock, f).state = "SynSent"
<1>1. CASE f = "FIN" /\ sock.state = "Established"
  <2>1. AfterSegment(sock, f) = [sock EXCEPT !.state = "CloseWait"]
    BY <1>1, Zenon DEF AfterSegment
  <2> QED
    BY <1>1, <2>1 DEF Socket
<1>2. CASE ~(f = "FIN" /\ sock.state = "Established")
  <2>1. AfterSegment(sock, f) \in {[state |-> "Established", owes |-> "ACK"],
                                   [state |-> "Closed", owes |-> "nothing"], sock}
    BY <1>2, Zenon DEF AfterSegment
  <2> QED
    BY <2>1
<1> QED
  BY <1>1, <1>2, Zenon

LEMMA IngressTables ==
  ASSUME TypeOK, Tables, NEW p \in Port, Ingress(p)
  PROVE  Tables'
<1> DEFINE d == Head(rx_queue[p]).c
           flag == Head(rx_queue[p]).f
<1>1. /\ pc = "ingress" /\ pc' = pc
      /\ UNCHANGED <<stream, sending, accepted_rx, pending, states, handle_to_port, used>>
  BY Zenon DEF Ingress, hostVars, tableVars
<1>2. CASE sockets' = sockets
  BY <1>1, <1>2, TablesFrame
<1>3. CASE d \in OnPort(p) /\ sockets' = [sockets EXCEPT ![d] = AfterSegment(@, flag)]
  <2>1. d \in Conn /\ sockets[d].state \notin {"Free", "Closed"} /\ handle_to_port[d] = p
    BY <1>3, Zenon DEF OnPort
  <2>2. sockets'[d] = AfterSegment(sockets[d], flag) /\ \A c \in Conn : c # d => sockets'[c] = sockets[c]
    BY <1>3, <2>1, Zenon DEF TypeOK
  <2>3. /\ sockets'[d].state # "Free" /\ (sockets'[d].owes = "RST" => sockets'[d].state = "Closed")
        /\ (sockets'[d].owes = "SYN" => sockets'[d].state = "SynSent")
    <3>1. sockets[d] \in Socket
      BY <2>1, Zenon DEF TypeOK
    <3>2. /\ sockets[d].owes # "RST"
          /\ sockets[d].owes = "SYN" => sockets[d].state = "SynSent"
      BY <2>1, Zenon DEF Tables, Entries
    <3> HIDE DEF d, flag
    <3>3. sockets[d].state # "Free"
      BY <2>1, Zenon
    <3>4. PICK sock : sock = AfterSegment(sockets[d], flag)
      OBVIOUS
    <3>5. sock.state # "Free" /\ (sock.owes = "RST" => sock.state = "Closed")
                              /\ (sock.owes = "SYN" => sock.state = "SynSent")
      BY <3>1, <3>2, <3>3, <3>4, AfterSegmentOwes, Zenon
    <3> QED
      BY <2>2, <3>4, <3>5, Zenon
  <2>4. states[d] \notin {"Absent", "Closing"}
    BY <2>1, Zenon DEF Tables, PortsBalanced, Entries
  <2>5. PortsBalanced'
    <3>1. \A c \in Conn : /\ states'[c] = "Absent" <=> states[c] = "Absent"
                          /\ sockets'[c].state = "Free" <=> sockets[c].state = "Free"
      BY <1>1, <2>1, <2>2, <2>3, Zenon
    <3> QED
      BY <1>1, <3>1, PortsKept, Zenon DEF Tables
  <2>6. Held'
    BY <1>1, Zenon DEF Tables, Held, InTask, InChannel, InPending
  <2>7. Apart'
    BY <1>1 DEF Tables, Apart
  <2>8. Entries'
    <3>1. \A c \in Conn : /\ stream'[c] = "none" => states'[c] = "Absent"
                          /\ states'[c] = "Closing" => stream'[c] = "dropped" /\ sockets'[c].state = "Closed"
                          /\ sockets'[c].owes = "RST" => sockets'[c].state = "Closed"
                          /\ sockets'[c].owes = "SYN" => sockets'[c].state = "SynSent"
                          /\ states'[c] = "Absent" => sockets'[c] = FreeSlot
      <4> TAKE c \in Conn
      <4>1. CASE c = d
        BY <1>1, <2>1, <2>3, <2>4, <4>1, Zenon DEF Tables, Entries
      <4>2. CASE c # d
        BY <1>1, <2>2, <4>2, Zenon DEF Tables, Entries
      <4> QED
        BY <4>1, <4>2, Zenon
    <3>2. pc' # "cleanup"
      BY <1>1
    <3>3. /\ \A l \in Listener : sending'[l] # NoConn => states'[sending'[l]] = "Absent"
          /\ \A i \in 1 .. Len(accepted_rx') : states'[accepted_rx'[i]] = "Absent"
          /\ \A i \in 1 .. Len(pending') : states'[pending'[i]] = "Absent"
      BY <1>1, WaitingKept, Zenon DEF Tables
    <3> QED
      BY <3>1, <3>2, <3>3 DEF Entries
  <2> QED
    BY <2>5, <2>6, <2>7, <2>8 DEF Tables
<1> QED
  BY <1>2, <1>3, Zenon DEF Ingress

LEMMA EgressTables ==
  ASSUME TypeOK, Tables, Egress
  PROVE  Tables'
<1>1. /\ UNCHANGED <<stream, sending, accepted_rx, pending, states, handle_to_port, used>>
      /\ \A c \in Conn : sockets'[c].state = sockets[c].state /\ sockets'[c].owes = "nothing"
  BY DEF Egress, hostVars, tableVars, TypeOK, Socket
<1>2. \A c \in Conn : sockets[c] = FreeSlot => sockets'[c] = FreeSlot
  BY DEF Egress, FreeSlot
<1>3. PortsBalanced'
  BY <1>1 DEF Tables, PortsBalanced
<1>4. Held'
  BY <1>1 DEF Tables, Held, InTask, InChannel, InPending
<1>5. Apart'
  BY <1>1 DEF Tables, Apart
<1>6. Entries'
  BY <1>1, <1>2, Zenon DEF Tables, Entries
<1> QED
  BY <1>3, <1>4, <1>5, <1>6 DEF Tables

LEMMA ProcessTables ==
  ASSUME TypeOK, Tables, Process
  PROVE  Tables'
<1>1. /\ pc' = "egress2" /\ UNCHANGED <<sending, accepted_rx, pending, handle_to_port, used>>
      /\ \A c \in Conn :
           \/ /\ stream'[c] = stream[c] /\ sockets'[c] = sockets[c]
              /\ states'[c] = states[c] \/ (states[c] = "Connecting" /\ states'[c] = "Established")
           \/ /\ states[c] \in Forwarded /\ states'[c] = "Closing" /\ stream'[c] = "dropped"
              /\ \/ sockets'[c] = sockets[c] /\ sockets[c].state = "Closed"
                 \/ sockets'[c] = [state |-> "Closed", owes |-> "RST"]
  BY ProcessEffect, Zenon
<1>2. PortsBalanced'
  <2>1. \A c \in Conn : states'[c] = "Absent" <=> states[c] = "Absent"
    BY <1>1, Zenon DEF Forwarded
  <2>2. \A c \in Conn : sockets'[c].state = "Free" <=> sockets[c].state = "Free"
    BY <1>1 DEF Tables, PortsBalanced, Forwarded
  <2> QED
    BY <1>1, <2>1, <2>2, PortsKept, Zenon DEF Tables
<1>3. \A c \in Conn : states[c] \in Forwarded => ~InTask(c) /\ ~InChannel(c) /\ ~InPending(c)
  BY PublishedAssumption DEF Tables, Entries, InTask, InChannel, InPending, Forwarded
<1>4. Held'
  <2> SUFFICES ASSUME NEW c \in Conn
               PROVE  (stream[c] = "open")' <=> (InTask(c) \/ InChannel(c) \/ InPending(c)
                                                   \/ states[c] \in Forwarded)'
    BY Zenon DEF Held
  <2>1. (InTask(c) \/ InChannel(c) \/ InPending(c))' <=> InTask(c) \/ InChannel(c) \/ InPending(c)
    BY <1>1, Zenon DEF InTask, InChannel, InPending
  <2> QED
    BY <1>1, <1>3, <2>1, Zenon DEF Tables, Held, Forwarded
<1>5. Apart'
  BY <1>1 DEF Tables, Apart
<1>6. Entries'
  <2>1. \A c \in Conn :
          /\ stream'[c] = "none" => states'[c] = "Absent"
          /\ states'[c] = "Closing" => stream'[c] = "dropped" /\ sockets'[c].state = "Closed"
          /\ sockets'[c].owes = "RST" => sockets'[c].state = "Closed"
          /\ sockets'[c].owes = "SYN" => sockets'[c].state = "SynSent"
          /\ states'[c] = "Absent" => sockets'[c] = FreeSlot
    BY <1>1 DEF Tables, Entries, Forwarded
  <2>2. \A c \in Conn : states[c] = "Absent" => states'[c] = "Absent"
    BY <1>1, Zenon DEF Forwarded
  <2>3. /\ \A l \in Listener : sending'[l] # NoConn => states'[sending'[l]] = "Absent"
        /\ \A i \in 1 .. Len(accepted_rx') : states'[accepted_rx'[i]] = "Absent"
        /\ \A i \in 1 .. Len(pending') : states'[pending'[i]] = "Absent"
    BY <1>1, <2>2, WaitingKept, Zenon DEF Tables
  <2> QED
    BY <1>1, <2>1, <2>3, Zenon DEF Entries
<1> QED
  BY <1>2, <1>4, <1>5, <1>6 DEF Tables

LEMMA CleanupTables ==
  ASSUME TypeOK, Tables, Cleanup
  PROVE  Tables'
<1>1. /\ UNCHANGED <<stream, sending, accepted_rx, pending>> /\ pc' = "wait"
      /\ \A c \in Conn : states[c] = "Closing" =>
           states'[c] = "Absent" /\ sockets'[c] = FreeSlot /\ handle_to_port'[c] = NoPort
      /\ \A c \in Conn : states[c] # "Closing" =>
           states'[c] = states[c] /\ sockets'[c] = sockets[c] /\ handle_to_port'[c] = handle_to_port[c]
      /\ used' = used \ {handle_to_port[c] : c \in {d \in Conn : states[d] = "Closing"}}
  BY Zenon DEF Cleanup, ClosingHandles, ReleasedPorts, hostVars
<1>2. PortsBalanced'
  <2>1. \A c \in Conn : /\ states'[c] = "Absent" <=> handle_to_port'[c] = NoPort
                        /\ states'[c] = "Absent" <=> sockets'[c].state = "Free"
    BY <1>1 DEF Tables, PortsBalanced, FreeSlot
  <2>2. \A c, d \in Conn :
          (handle_to_port'[c] = handle_to_port'[d] /\ states'[c] # "Absent") => c = d
    BY <1>1, <2>1 DEF Tables, PortsBalanced
  <2>3. used' = {handle_to_port'[c] : c \in Conn} \ {NoPort}
    <3>1. \A p : p \in used' => p \in {handle_to_port'[c] : c \in Conn} \ {NoPort}
      BY <1>1 DEF Tables, PortsBalanced
    <3>2. ASSUME NEW c \in Conn, handle_to_port'[c] # NoPort PROVE handle_to_port'[c] \in used'
      <4>1. states[c] \notin {"Closing", "Absent"} /\ handle_to_port'[c] = handle_to_port[c]
        BY <1>1, <3>2, Zenon DEF Tables, PortsBalanced
      <4>2. \A d \in Conn : states[d] = "Closing" => handle_to_port[d] # handle_to_port[c]
        BY <4>1, Zenon DEF Tables, PortsBalanced
      <4>3. handle_to_port[c] \in used
        BY <3>2, <4>1, Zenon DEF Tables, PortsBalanced
      <4> QED
        BY <1>1, <4>1, <4>2, <4>3
    <3> QED
      BY <3>1, <3>2
  <2> QED
    BY <2>1, <2>2, <2>3, Zenon DEF PortsBalanced
<1>3. Held'
  BY <1>1 DEF Tables, Held, InTask, InChannel, InPending, Forwarded
<1>4. Apart'
  BY <1>1 DEF Tables, Apart
<1>5. Entries'
  <2>1. \A c \in Conn : states[c] = "Absent" => states'[c] = "Absent"
    BY <1>1, Zenon
  <2>2. /\ \A l \in Listener : sending'[l] # NoConn => states'[sending'[l]] = "Absent"
        /\ \A i \in 1 .. Len(accepted_rx)' : states'[accepted_rx'[i]] = "Absent"
        /\ \A i \in 1 .. Len(pending)' : states'[pending'[i]] = "Absent"
    BY <1>1, <2>1 DEF Tables, Entries, TypeOK
  <2> QED
    BY <1>1, <2>2 DEF Tables, Entries, FreeSlot
<1> QED
  BY <1>2, <1>3, <1>4, <1>5 DEF Tables

\* Every step keeps the tables consistent.
LEMMA TablesStep == TypeOK /\ Tables /\ [Next]_vars => Tables'
<1> SUFFICES ASSUME TypeOK, Tables, [Next]_vars PROVE Tables'
  OBVIOUS
<1>1. ASSUME NEW l \in Listener, SendAccepted(l) PROVE Tables'
  BY <1>1, SendAcceptedTables
<1>2. ASSUME NEW l \in Listener, NEW c \in Conn, Accept(l, c) PROVE Tables'
  BY <1>2, AcceptTables
<1>3. ASSUME NEW c \in Conn, HostEnds(c) \/ HandshakeExpires(c) PROVE Tables'
  BY <1>3, TablesFrame, Zenon DEF HostEnds, HandshakeExpires, hostVars, tableVars
<1>4. CASE KernelStep
  BY <1>4, TablesFrame, Zenon DEF KernelStep, KernelReceives, ServiceEnds, KernelForgets, hostVars, tableVars
<1>5. CASE WaitForWork
  BY <1>5, TablesFrame, TakeTables, Zenon DEF WaitForWork, tableVars
<1>6. CASE Shutdown
  BY <1>6, ShutdownTables
<1>7. CASE ReceiveAccepted
  BY <1>7, TakeTables, Zenon DEF ReceiveAccepted, tableVars
<1>8. CASE Received \/ Attached \/ IngressDone
  BY <1>8, TablesFrame, Zenon DEF Received, Attached, IngressDone, hostVars, tableVars
<1>9. CASE AttachNext
  BY <1>9, AttachNextTables
<1>10. ASSUME NEW p \in Port, Ingress(p) PROVE Tables'
  BY <1>10, IngressTables
<1>11. CASE Egress
  BY <1>11, EgressTables
<1>12. CASE Process
  BY <1>12, ProcessTables
<1>13. CASE Cleanup
  BY <1>13, CleanupTables
<1>14. CASE UNCHANGED vars
  BY <1>14, TablesFrame, Zenon DEF vars, hostVars, tableVars
<1> QED
  BY <1>1, <1>2, <1>3, <1>4, <1>5, <1>6, <1>7, <1>8, <1>9, <1>10, <1>11, <1>12, <1>13, <1>14
     DEF Next, Tick

-----------------------------------------------------------------------------
(* The theorems.                                                           *)

LEMMA InitIInv == Init => IInv
<1> SUFFICES ASSUME Init PROVE IInv
  OBVIOUS
<1>1. TypeOK
  BY PublishedAssumption DEF Init, TypeOK, Port, Tag, Socket, FreeSlot, Phase, NoPeer
<1>2. KnownPeers
  BY Zenon DEF Init, KnownPeers, NoPeer
<1>3. Tables
  <2>1. PortsBalanced
    BY Zenon DEF Init, PortsBalanced, FreeSlot
  <2>2. Held
    <3>1. Len(accepted_rx) = 0 /\ Len(pending) = 0
      BY Zenon DEF Init
    <3>2. \A c \in Conn : ~InChannel(c) /\ ~InPending(c)
      BY <3>1 DEF InChannel, InPending
    <3>3. \A c \in Conn : ~InTask(c) /\ stream[c] # "open" /\ states[c] \notin Forwarded
      BY PublishedAssumption, Zenon DEF Init, InTask, Forwarded
    <3> QED
      BY <3>2, <3>3, Zenon DEF Held
  <2>3. Apart
    BY DEF Init, Apart
  <2>4. Entries
    BY DEF Init, Entries, FreeSlot
  <2> QED
    BY <2>1, <2>2, <2>3, <2>4 DEF Tables
<1> QED
  BY <1>1, <1>2, <1>3 DEF IInv

\* The invariant holds throughout.
LEMMA Invariance == Spec => []IInv
<1>1. IInv /\ [Next]_vars => IInv'
  BY TypeStep, PeersStep, TablesStep DEF IInv
<1> QED
  BY InitIInv, <1>1, PTL DEF Spec

\* Every variable of PublishedTcp keeps its type, and the channel its bound.
THEOREM PublishedTypeCorrect == Spec => []TypeOK
<1>1. IInv => TypeOK
  BY DEF IInv
<1> QED
  BY <1>1, Invariance, PTL

\* PortAllocator and the tables of PublishedTcp agree at every step: the ports
\* in use are those of the entries, one each, on every path of
\* attach_accepted, process and cleanup.
THEOREM PortsAlwaysBalanced == Spec => []PortsBalanced
<1>1. IInv => PortsBalanced
  BY DEF IInv, Tables
<1> QED
  BY <1>1, Invariance, PTL

\* In terms of sets: a stream that is open is in one place, one that is not is
\* in none.
LEMMA OnePlace ==
  ASSUME IInv, NEW c \in Conn
  PROVE  IF stream[c] = "open" THEN \E x : Places(c) = {x} ELSE Places(c) = {}
<1> DEFINE task == {<<"task", l>> : l \in {m \in Listener : sending[m] = c}}
           channel == {<<"channel", i>> : i \in {j \in 1 .. Len(accepted_rx) : accepted_rx[j] = c}}
           queue == {<<"pending", i>> : i \in {j \in 1 .. Len(pending) : pending[j] = c}}
           entry == {<<"entry", x>> : x \in {states[c]} \cap Forwarded}
<1>1. Places(c) = task \cup channel \cup queue \cup entry
  BY Zenon DEF Places, Forwarded
<1>2. /\ ~InTask(c) => task = {}
      /\ ~InChannel(c) => channel = {}
      /\ ~InPending(c) => queue = {}
      /\ states[c] \notin Forwarded => entry = {}
  BY Zenon DEF InTask, InChannel, InPending
<1>3. /\ InTask(c) => \E x : task = {x}
      /\ InChannel(c) => \E x : channel = {x}
      /\ InPending(c) => \E x : queue = {x}
      /\ states[c] \in Forwarded => \E x : entry = {x}
  <2>1. ASSUME InTask(c) PROVE \E x : task = {x}
    <3>1. PICK l \in Listener : sending[l] = c
      BY <2>1 DEF InTask
    <3>2. {m \in Listener : sending[m] = c} = {l}
      BY <3>1, PublishedAssumption DEF IInv, Tables, Apart
    <3>3. task = {<<"task", l>>}
      BY <3>2, Zenon
    <3> QED
      BY <3>3, Zenon
  <2>2. ASSUME InChannel(c) PROVE \E x : channel = {x}
    <3>1. PICK i \in 1 .. Len(accepted_rx) : accepted_rx[i] = c
      BY <2>2 DEF InChannel
    <3>2. {j \in 1 .. Len(accepted_rx) : accepted_rx[j] = c} = {i}
      BY <3>1 DEF IInv, Tables, Apart
    <3>3. channel = {<<"channel", i>>}
      BY <3>2, Zenon
    <3> QED
      BY <3>3, Zenon
  <2>3. ASSUME InPending(c) PROVE \E x : queue = {x}
    <3>1. PICK i \in 1 .. Len(pending) : pending[i] = c
      BY <2>3 DEF InPending
    <3>2. {j \in 1 .. Len(pending) : pending[j] = c} = {i}
      BY <3>1 DEF IInv, Tables, Apart
    <3>3. queue = {<<"pending", i>>}
      BY <3>2, Zenon
    <3> QED
      BY <3>3, Zenon
  <2>4. ASSUME states[c] \in Forwarded PROVE \E x : entry = {x}
    <3>1. entry = {<<"entry", states[c]>>}
      BY <2>4
    <3> QED
      BY <3>1, Zenon
  <2> QED
    BY <2>1, <2>2, <2>3, <2>4, Zenon
<1>4. /\ InTask(c) => ~InChannel(c) /\ ~InPending(c)
      /\ InChannel(c) => ~InPending(c)
      /\ InTask(c) \/ InChannel(c) \/ InPending(c) => states[c] \notin Forwarded
  BY PublishedAssumption DEF IInv, Tables, Apart, Entries, InTask, InChannel, InPending, Forwarded
<1>5. stream[c] = "open" <=> InTask(c) \/ InChannel(c) \/ InPending(c) \/ states[c] \in Forwarded
  BY Zenon DEF IInv, Tables, Held
<1> HIDE DEF task, channel, queue, entry
<1> QED
  BY <1>1, <1>2, <1>3, <1>4, <1>5, Zenon

\* No accepted stream is lost or served twice between the accept task, the
\* channel, pending and the entries, whatever the capacities.
THEOREM StreamsHeldOnce == Spec => []StreamHeldOnce
<1>1. IInv => StreamHeldOnce
  BY OnePlace, Zenon DEF StreamHeldOnce
<1> QED
  BY <1>1, Invariance, PTL

-----------------------------------------------------------------------------
(* The search for a source port.                                           *)

\* The candidates of PortAllocator::allocate are the ports of the range, and
\* every port is one.
LEMMA Candidates ==
  ASSUME TypeOK
  PROVE  /\ \A i \in 0 .. capacity - 1 : Candidate(i) \in Port
         /\ \A p \in Port : \E i \in 0 .. capacity - 1 : Candidate(i) = p
<1>1. /\ capacity \in Nat \ {0} /\ next - PORT_MIN \in 0 .. capacity - 1
      /\ PORT_MAX = PORT_MIN + capacity - 1 /\ PORT_MIN \in Nat
  BY PublishedAssumption DEF TypeOK, Port, capacity
<1>2. \A n \in Nat \ {0} : \A a, i \in 0 .. n - 1 :
        (a + i) % n = IF a + i < n THEN a + i ELSE a + i - n
  OBVIOUS
<1> DEFINE a == next - PORT_MIN
<1>3. \A i \in 0 .. capacity - 1 :
        Candidate(i) = PORT_MIN + (IF a + i < capacity THEN a + i ELSE a + i - capacity)
  BY <1>1, <1>2, Zenon DEF Candidate
<1>4. ASSUME NEW p \in Port PROVE \E i \in 0 .. capacity - 1 : Candidate(i) = p
  <2>1. CASE p >= next
    <3>1. /\ p - next \in 0 .. capacity - 1 /\ a + (p - next) < capacity
          /\ PORT_MIN + (a + (p - next)) = p
      BY <1>1, <2>1, PublishedAssumption DEF Port, TypeOK
    <3> QED
      BY <1>3, <3>1
  <2>2. CASE p < next
    <3>1. /\ p - next + capacity \in 0 .. capacity - 1 /\ ~(a + (p - next + capacity) < capacity)
          /\ PORT_MIN + (a + (p - next + capacity) - capacity) = p
      BY <1>1, <2>2, PublishedAssumption DEF Port, TypeOK
    <3> QED
      BY <1>3, <3>1, Zenon
  <2> QED
    BY <2>1, <2>2, PublishedAssumption DEF Port, TypeOK
<1> QED
  BY <1>1, <1>3, <1>4 DEF Port

\* allocate() fails only when the range is in use: the search, which starts at
\* next and wraps, leaves no port out.
LEMMA ExhaustedIsFull ==
  ASSUME TypeOK, \A i \in Tries : Candidate(i) \in used
  PROVE  used = Port
<1>1. \A p \in Port : p \in used
  BY Candidates, Zenon DEF Tries
<1> QED
  BY <1>1, Zenon DEF TypeOK

\* attach_accepted turns a connection away only when every port is in use.
THEOREM RefusalsOnlyWhenFull == Spec => RefusedOnlyWhenFull
<1> DEFINE Justified == \A c \in Conn : (stream[c] = "open" /\ stream'[c] = "refused") => used = Port
<1>1. IInv /\ [Next]_vars => [Justified]_vars
  <2> SUFFICES ASSUME IInv, Next, NEW c \in Conn, stream[c] = "open", stream'[c] = "refused"
               PROVE  used = Port
    BY Zenon
  <2>1. TypeOK /\ Tables
    BY DEF IInv
  <2>2. stream' # stream
    OBVIOUS
  <2>3. ~\E l \in Listener : SendAccepted(l) \/ \E d \in Conn : Accept(l, d)
    BY <2>1, Zenon DEF SendAccepted, Accept, TypeOK
  <2>4. ~Process
    BY <2>1, ProcessEffect, Zenon
  <2>5. AttachNext
    BY <2>2, <2>3, <2>4, Zenon DEF Next, HostEnds, HandshakeExpires, KernelStep, KernelReceives,
       ServiceEnds, KernelForgets, WaitForWork, Shutdown, Tick, ReceiveAccepted, Received, Attached,
       Ingress, IngressDone, Egress, Cleanup, hostVars
  <2>6. \A d \in Conn, p \in Port : ~ConnectStarts(d, p) /\ ~ConnectFails(d, p)
    BY <2>1, <2>2, Zenon DEF ConnectStarts, ConnectFails, TypeOK
  <2>7. Head(pending) \in Conn
    BY <2>1, <2>5, AttachNextFacts, Zenon
  <2>8. PortsExhausted(Head(pending))
    BY <2>5, <2>6, <2>7, Zenon DEF AttachNext
  <2> QED
    BY <2>1, <2>8, ExhaustedIsFull DEF PortsExhausted
<1> QED
  BY <1>1, Invariance, PTL DEF Spec, RefusedOnlyWhenFull
=============================================================================
