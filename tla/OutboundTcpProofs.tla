------------------------- MODULE OutboundTcpProofs -------------------------
(***************************************************************************)
(* Proofs about outbound TCP, for every set of 4-tuples, every number of   *)
(* sockets, and every number of attempts and retransmissions.  IInv is     *)
(* about the program's own tables and sockets; Wire, which builds on it,   *)
(* about the segments in flight and what the clients have been told.       *)
(***************************************************************************)
EXTENDS OutboundTcp, TLAPS

\* How long a prover may take over one step, in seconds.
USE SMTT(20), ZenonT(20)

-----------------------------------------------------------------------------
(* Sockets.                                                                *)

HasPeer == {"SynReceived", "Established", "CloseWait"}
Handshaken == {"Established", "CloseWait", "Closed"}

\* A socket that talks to a peer knows its 4-tuple, and only a socket in
\* SynReceived has a SYN|ACK to send.
Shape(sock) ==
  /\ sock \in Socket
  /\ sock.state \in HasPeer => sock.tuple \in Key
  /\ sock.syn => sock.state = "SynReceived"

LEMMA FreshSockets ==
  /\ Shape(FreeSlot)
  /\ \A port \in Port \cup {0} : Shape(ListenOn(port)) /\ ListenOn(port).state = "Listen"
BY Zenon DEF Shape, FreeSlot, ListenOn, Socket, SocketState, HasPeer

LEMMA AbortShape ==
  ASSUME NEW sock, Shape(sock)
  PROVE  Shape(Abort(sock)) /\ Abort(sock).state = "Closed" /\ Abort(sock).s = sock.s
BY Zenon DEF Shape, Abort, Socket, SocketState, HasPeer

LEMMA EgressShape ==
  ASSUME NEW sock, Shape(sock), HasEgress(sock)
  PROVE  /\ Shape(AfterEgress(sock))
         /\ AfterEgress(sock).state = sock.state /\ AfterEgress(sock).s = sock.s
         /\ Emitted(sock) \in Segment
BY Zenon DEF Shape, AfterEgress, HasEgress, OwesReset, Emitted, Segment, Flag, Socket, SocketState, HasPeer

\* A segment keeps the shape of the socket that accepts it, never frees its
\* slot, and leaves a socket that is past the handshake past the handshake,
\* with its own sequence numbers.
LEMMA ReceivedShape ==
  ASSUME NEW sock, Shape(sock), NEW p \in Segment, Accepts(sock, p), NEW i \in Nat
  PROVE  /\ Shape(Received(sock, p, i))
         /\ Received(sock, p, i).state # "Free"
         /\ sock.state \in Handshaken =>
              Received(sock, p, i).state \in Handshaken /\ Received(sock, p, i).s = sock.s
<1>0. sock.state \notin {"Free", "Closed"} /\ sock.state \in SocketState /\ sock.port \in Port \cup {0}
  BY Zenon DEF Accepts, Shape, Socket
<1>1. CASE sock.state = "Listen"
  BY <1>1, Zenon DEF Received, Shape, Segment, Socket, SocketState, HasPeer, Handshaken
<1>2. CASE sock.state # "Listen" /\ (p.f = "SYN" \/ p.c # sock.c \/ p.s # sock.s)
  BY <1>0, <1>2, Zenon DEF Received
<1>3. CASE sock.state # "Listen" /\ ~(p.f = "SYN" \/ p.c # sock.c \/ p.s # sock.s)
  <2>1. CASE p.f = "RST" /\ sock.state = "SynReceived"
    BY <1>0, <1>3, <2>1, FreshSockets DEF Received, Handshaken
  <2>2. CASE p.f = "RST" /\ sock.state # "SynReceived"
    BY <1>0, <1>3, <2>2, Zenon DEF Received, Shape, Socket, SocketState, HasPeer, Handshaken
  <2>3. CASE p.f = "ACK" /\ sock.state = "SynReceived"
    BY <1>0, <1>3, <2>3, Zenon DEF Received, Shape, Socket, SocketState, HasPeer, Handshaken
  <2>4. CASE p.f \in {"FIN", "DATAFIN"}
    BY <1>0, <1>3, <2>4, Zenon DEF Received, Shape, Socket, SocketState, HasPeer, Handshaken
  <2>5. CASE p.f = "SYNACK" \/ (p.f = "ACK" /\ sock.state # "SynReceived")
    BY <1>0, <1>3, <2>5, Zenon DEF Received
  <2> QED
    BY <1>3, <2>1, <2>2, <2>3, <2>4, <2>5, Zenon DEF Segment, Flag
<1> QED
  BY <1>1, <1>2, <1>3, Zenon

-----------------------------------------------------------------------------
(* The inductive invariant.                                                *)

Shapes == \A h \in Handle : Shape(sockets[h])

\* An entry leaves Listening only for a socket past the handshake.
PastHandshake ==
  \A h \in Handle : states[h] \in {"Connecting", "Established"} => sockets[h].state \in Handshaken

\* The second Interface::poll of the tick has sent everything.
Flushed == pc = "cleanup" => \A h \in Handle : ~HasEgress(sockets[h])

\* What the tables of OutboundTcp and the sockets say of each other.
Tables == Shapes /\ PastHandshake /\ Flushed /\ EndpointsTracked /\ NoOrphanTask

IInv == TypeOK /\ Tables

LEMMA InitIInv == Init => IInv
<1> SUFFICES ASSUME Init PROVE IInv
  OBVIOUS
<1>1. TypeOK
  BY FreshSockets DEF Init, TypeOK, ClientType, Phase, Tag, Shape
<1>2. Shapes /\ PastHandshake /\ Flushed
  BY FreshSockets, Zenon DEF Init, Shapes, PastHandshake, Flushed
<1>3. EndpointsTracked /\ NoOrphanTask
  BY Zenon DEF Init, EndpointsTracked, NoOrphanTask, FreeSlot
<1> QED
  BY <1>1, <1>2, <1>3 DEF IInv, Tables

\* Steps that touch neither the sockets nor the tables keep what they say.
LEMMA Frame ==
  ASSUME Tables, UNCHANGED <<pc, sockets, outboundVars>>
  PROVE  Tables'
BY DEF Tables, Shapes, PastHandshake, Flushed, EndpointsTracked, NoOrphanTask, outboundVars

LEMMA ClientIInv ==
  ASSUME IInv, ClientStep
  PROVE  IInv'
<1>0. PICK k \in Key : \/ Connect(k) \/ RetransmitSyn(k) \/ Cancel(k)
                       \/ HalfClose(k) \/ Reset(k) \/ Deliver(k)
  BY Zenon DEF ClientStep
<1>1. UNCHANGED <<pc, rx_queue, scan, sockets, isn, outboundVars>>
  BY <1>0, Zenon DEF Connect, RetransmitSyn, Cancel, HalfClose, Reset, Deliver
<1>2. Tables'
  BY <1>1, Frame DEF IInv
<1>3. client \in [Key -> ClientType] /\ tun \in Seq(Segment) /\ toApp \in [Key -> Seq(Segment)]
  BY Zenon DEF IInv, TypeOK
<1>4. \A f \in Flag : Seg(k, f) \in Segment
  BY <1>3, Zenon DEF Seg, Segment, ClientType
<1>5. ASSUME NEW p \in Segment, Send(p) PROVE tun' \in Seq(Segment)
  BY <1>3, <1>5 DEF Send
<1>6. ASSUME NEW st \in {"closed", "synsent", "estab", "finwait"},
             client' = [client EXCEPT ![k].st = st]
      PROVE  client' \in [Key -> ClientType]
  BY <1>3, <1>6, Zenon DEF ClientType
<1>7. client' \in [Key -> ClientType] /\ tun' \in Seq(Segment) /\ toApp' \in [Key -> Seq(Segment)]
  <2>1. CASE Connect(k)
    <3>1. client[k].c + 1 \in Nat
      BY <1>3 DEF ClientType
    <3>2. client' \in [Key -> ClientType]
      BY <1>3, <2>1, <3>1, Zenon DEF Connect, ClientType
    <3>3. [k |-> k, f |-> "SYN", c |-> client[k].c + 1, s |-> 0] \in Segment
      BY <3>1, Zenon DEF Segment, Flag
    <3> QED
      BY <1>3, <1>5, <2>1, <3>2, <3>3, Zenon DEF Connect
  <2>2. CASE RetransmitSyn(k)
    <3> DEFINE n == client[k].syns + 1
    <3>0. n \in Nat
      BY <1>3 DEF ClientType
    <3> HIDE DEF n
    <3>1. client' \in [Key -> ClientType]
      <4>1. client' = [client EXCEPT ![k].syns = n]
        BY <2>2, Zenon DEF RetransmitSyn, n
      <4> QED
        BY <1>3, <3>0, <4>1, Zenon DEF ClientType
    <3> QED
      BY <1>3, <1>4, <1>5, <2>2, <3>1, Zenon DEF RetransmitSyn, Flag
  <2>3. CASE Cancel(k)
    BY <1>3, <1>6, <2>3, Zenon DEF Cancel
  <2>4. CASE HalfClose(k)
    BY <1>3, <1>4, <1>5, <1>6, <2>4, Zenon DEF HalfClose, Flag
  <2>5. CASE Reset(k)
    BY <1>3, <1>4, <1>5, <1>6, <2>5, Zenon DEF Reset, Flag
  <2>6. CASE Deliver(k)
    <3> DEFINE p == Head(toApp[k])
    <3>1. p \in Segment /\ Tail(toApp[k]) \in Seq(Segment)
      BY <1>3, <2>6 DEF Deliver
    <3>2. toApp' \in [Key -> Seq(Segment)]
      BY <1>3, <2>6, <3>1, Zenon DEF Deliver
    <3>3. \A f \in Flag : [k |-> k, f |-> f, c |-> p.c, s |-> p.s] \in Segment
      BY <3>1, Zenon DEF Segment
    <3>4. CASE UNCHANGED <<client, tun>>
      BY <1>3, <3>2, <3>4
    <3>5. CASE client' = [client EXCEPT ![k].st = "closed"] /\ UNCHANGED tun
      BY <1>3, <1>6, <3>2, <3>5, Zenon
    <3>6. CASE Send([k |-> k, f |-> "RST", c |-> p.c, s |-> p.s]) /\ UNCHANGED client
      BY <1>3, <1>5, <3>2, <3>3, <3>6, Zenon DEF Flag
    <3>7. CASE /\ client' = [client EXCEPT ![k].st = "estab", ![k].s = p.s]
               /\ Send([k |-> k, f |-> "ACK", c |-> p.c, s |-> p.s])
      <4>1. p.s \in Nat
        BY <3>1, Zenon DEF Segment
      <4>2. client' \in [Key -> ClientType]
        BY <1>3, <3>7, <4>1, Zenon DEF ClientType
      <4> QED
        BY <1>5, <3>2, <3>3, <3>7, <4>2, Zenon DEF Flag
    <3> QED
      BY <2>6, <3>4, <3>5, <3>6, <3>7, Zenon DEF Deliver
  <2> QED
    BY <1>0, <2>1, <2>2, <2>3, <2>4, <2>5, <2>6, Zenon
<1> QED
  BY <1>1, <1>2, <1>7, Zenon DEF IInv, TypeOK, outboundVars

\* A connect task returns: only its result changes.
LEMMA ConnectReturnsIInv ==
  ASSUME IInv, ConnectReturns
  PROVE  IInv'
<1>0. PICK t \in tasks, r \in {"ok", "err"} :
        tasks' = (tasks \ {t}) \cup {[t EXCEPT !.result = r]}
  BY DEF ConnectReturns
<1>1. UNCHANGED <<client, toApp, tun, pc, rx_queue, scan, sockets, isn, states, expired, ended,
                  listening_endpoints, handle_to_endpoint>>
  BY Zenon DEF ConnectReturns, clientVars
<1>2. t \in Task /\ [t EXCEPT !.result = r] \in Task
  BY Zenon DEF IInv, TypeOK, Task
<1>3. TypeOK'
  BY <1>0, <1>1, <1>2, Zenon DEF IInv, TypeOK
<1>4. [t EXCEPT !.result = r].h = t.h /\ [t EXCEPT !.result = r].s = t.s
  BY <1>2 DEF Task
<1>5. NoOrphanTask'
  <2> DEFINE u == [t EXCEPT !.result = r]
  <2> HIDE DEF u
  <2>1. u.h = t.h /\ u.s = t.s /\ tasks' = (tasks \ {t}) \cup {u}
    BY <1>0, <1>4 DEF u
  <2> QED
    BY <1>1, <2>1 DEF IInv, Tables, NoOrphanTask
<1> QED
  BY <1>1, <1>3, <1>5, Zenon DEF IInv, Tables, Shapes, PastHandshake, Flushed, EndpointsTracked

LEMMA ClockIInv ==
  ASSUME IInv, NEW h \in Handle, UpstreamEnds(h) \/ HandshakeExpires(h)
  PROVE  IInv'
<1>1. UNCHANGED <<client, toApp, tun, pc, rx_queue, scan, sockets, isn, states, tasks,
                  listening_endpoints, handle_to_endpoint>>
  BY Zenon DEF UpstreamEnds, HandshakeExpires, clientVars
<1>2. expired' \subseteq Handle /\ ended' \subseteq Handle
  BY Zenon DEF UpstreamEnds, HandshakeExpires, IInv, TypeOK
<1>3. TypeOK'
  BY <1>1, <1>2, Zenon DEF IInv, TypeOK
<1> QED
  BY <1>1, <1>3 DEF IInv, Tables, Shapes, PastHandshake, Flushed, EndpointsTracked, NoOrphanTask

LEMMA WaitForWorkIInv ==
  ASSUME IInv, WaitForWork
  PROVE  IInv'
<1>0. /\ \A h \in Handle : Shape(sockets[h])
      /\ sockets \in [Handle -> Socket] /\ states \in [Handle -> Tag]
  BY Zenon DEF IInv, Tables, Shapes, TypeOK
<1>1. UNCHANGED <<client, toApp, isn, expired, ended, listening_endpoints, handle_to_endpoint>>
  BY Zenon DEF WaitForWork, clientVars
<1>2. \A h \in Handle : /\ sockets'[h] = IF ConnectFails(h) THEN Abort(sockets[h]) ELSE sockets[h]
                        /\ Shape(sockets'[h]) /\ sockets'[h].s = sockets[h].s
                        /\ ConnectFails(h) => sockets'[h].state = "Closed"
  BY <1>0, AbortShape, Zenon DEF WaitForWork
<1>3. \A h \in Handle : states'[h] = IF ConnectFails(h) THEN "Closing"
                                     ELSE IF ConnectDone(h) THEN "Established" ELSE states[h]
  BY Zenon DEF WaitForWork
<1>4. \A h \in Handle : ConnectFails(h) \/ ConnectDone(h) => states[h] = "Connecting"
  BY Zenon DEF ConnectFails, ConnectDone
<1>5. TypeOK'
  <2>1. sockets' \in [Handle -> Socket]
    BY <1>2, Zenon DEF WaitForWork, Shape
  <2>2. states' \in [Handle -> Tag]
    BY <1>0, Zenon DEF WaitForWork, Tag
  <2>3. rx_queue' \in Seq(Segment) /\ tun' \in Seq(Segment)
    BY DEF IInv, TypeOK, WaitForWork
  <2>4. pc' \in Phase /\ scan' \in Nat \ {0} /\ tasks' \subseteq Task
    BY DEF IInv, TypeOK, WaitForWork, Phase
  <2> QED
    BY <1>1, <2>1, <2>2, <2>3, <2>4, Zenon DEF IInv, TypeOK
<1>6. Shapes' /\ Flushed'
  BY <1>2, Zenon DEF Shapes, Flushed, WaitForWork
<1>7. PastHandshake'
  BY <1>2, <1>3, <1>4, Zenon DEF PastHandshake, IInv, Tables, Handshaken
<1>8. EndpointsTracked'
  <2>1. \A h \in Handle : states'[h] = "Absent" <=> states[h] = "Absent"
    BY <1>3, <1>4
  <2>2. \A h \in Handle : sockets'[h].state = "Free" <=> sockets[h].state = "Free"
    BY <1>2, <1>4, Zenon DEF IInv, Tables, PastHandshake, Handshaken
  <2> QED
    BY <1>1, <2>1, <2>2 DEF EndpointsTracked, IInv, Tables
<1>9. NoOrphanTask'
  <2>1. NoOrphanTask
    BY DEF IInv, Tables
  <2>2. \A t \in tasks : t.h \in Handle
    BY Zenon DEF IInv, TypeOK, Task
  <2>3. \A t \in tasks : t \in TaskOf(t.h)
    BY <2>1, Zenon DEF TaskOf, NoOrphanTask
  <2>4. \A t \in tasks : t \in tasks' <=> ~(ConnectFails(t.h) \/ ConnectDone(t.h))
    BY <2>2, <2>3 DEF WaitForWork, ConsumedTasks, TaskOf
  <2>5. tasks' \subseteq tasks
    BY Zenon DEF WaitForWork
  <2> QED
    BY <1>2, <1>3, <2>1, <2>2, <2>4, <2>5 DEF NoOrphanTask
<1> QED
  BY <1>5, <1>6, <1>7, <1>8, <1>9 DEF IInv, Tables

LEMMA ShutdownIInv ==
  ASSUME IInv, Shutdown
  PROVE  IInv'
<1>1. /\ \A h \in Handle : /\ sockets'[h] = FreeSlot /\ states'[h] = "Absent"
                           /\ handle_to_endpoint'[h] = NoKey
      /\ listening_endpoints' = {} /\ pc' = "stopped"
  BY Zenon DEF Shutdown
<1>2. FreeSlot \in Socket /\ FreeSlot.state = "Free"
  BY FreshSockets, Zenon DEF Shape, FreeSlot
<1>3. tasks' = {}
  <2>1. \A t \in tasks : t.h \in Connecting /\ t \in TaskOf(t.h)
    BY Zenon DEF IInv, Tables, NoOrphanTask, Connecting, TaskOf, TypeOK, Task
  <2> QED
    BY <2>1, Zenon DEF Shutdown
<1>4. TypeOK'
  BY <1>1, <1>2, <1>3, Zenon DEF IInv, TypeOK, Shutdown, Phase, Tag, clientVars
<1>5. Shapes' /\ PastHandshake' /\ Flushed'
  BY <1>1, FreshSockets, Zenon DEF Shapes, PastHandshake, Flushed
<1>6. EndpointsTracked' /\ NoOrphanTask'
  BY <1>1, <1>2, <1>3, Zenon DEF EndpointsTracked, NoOrphanTask
<1> QED
  BY <1>4, <1>5, <1>6 DEF IInv, Tables

\* observe_syns takes a free slot for a 4-tuple that no handle tracks.
LEMMA ObserveSynIInv ==
  ASSUME IInv, ObserveSyn
  PROVE  IInv'
<1>0. /\ sockets \in [Handle -> Socket] /\ states \in [Handle -> Tag]
      /\ handle_to_endpoint \in [Handle -> Key \cup {NoKey}] /\ listening_endpoints \subseteq Key
      /\ rx_queue \in Seq(Segment) /\ scan \in Nat \ {0} /\ pc = "observe" /\ scan <= Len(rx_queue)
  BY Zenon DEF IInv, TypeOK, ObserveSyn
<1>1. scan' \in Nat \ {0} /\ UNCHANGED <<client, toApp, tun, pc, rx_queue, isn, expired, ended, tasks>>
  BY <1>0 DEF ObserveSyn, clientVars
<1>2. CASE UNCHANGED <<sockets, states, listening_endpoints, handle_to_endpoint>>
  <2>1. Tables'
    BY <1>1, <1>2, Frame DEF IInv, outboundVars
  <2> QED
    BY <1>1, <1>2, <2>1, Zenon DEF IInv, TypeOK
<1>3. ASSUME NEW h \in Handle, NEW k, k = rx_queue[scan].k, SynUntracked(rx_queue[scan]),
             IsFirst(h, FreeSlots), Track(h, k)
      PROVE  IInv'
  <2>1. k \in Key /\ k \notin listening_endpoints /\ k # NoKey
    <3>1. rx_queue[scan] \in Segment
      BY <1>0
    <3> QED
      BY <1>3, <3>1, KeyAssumption, Zenon DEF SynUntracked, Segment
  <2>2. sockets[h].state = "Free" /\ states[h] = "Absent"
    BY <1>3, Zenon DEF IsFirst, FreeSlots, IInv, Tables, EndpointsTracked
  <2>3. Shape(ListenOn(k.port)) /\ ListenOn(k.port).state = "Listen"
    BY <2>1, FreshSockets DEF Port
  <2>4. /\ sockets' = [sockets EXCEPT ![h] = ListenOn(k.port)]
        /\ states' = [states EXCEPT ![h] = "Listening"]
        /\ listening_endpoints' = listening_endpoints \cup {k}
        /\ handle_to_endpoint' = [handle_to_endpoint EXCEPT ![h] = k]
    BY <1>3, Zenon DEF Track
  <2>5. TypeOK'
    <3>1. sockets' \in [Handle -> Socket] /\ states' \in [Handle -> Tag]
      BY <1>0, <2>3, <2>4, Zenon DEF Shape, Tag
    <3>2. listening_endpoints' \subseteq Key /\ handle_to_endpoint' \in [Handle -> Key \cup {NoKey}]
      BY <1>0, <2>1, <2>4, Zenon
    <3> QED
      BY <1>1, <3>1, <3>2, Zenon DEF IInv, TypeOK
  <2>6. Shapes' /\ PastHandshake' /\ Flushed'
    BY <1>0, <1>1, <2>3, <2>4, Zenon DEF IInv, Tables, Shapes, PastHandshake, Flushed
  <2>7. EndpointsTracked'
    <3>1. EndpointsTracked
      BY DEF IInv, Tables
    <3>2. \A g \in Handle : handle_to_endpoint[g] # k
      BY <2>1, <3>1, Zenon DEF EndpointsTracked
    <3>3. handle_to_endpoint[h] = NoKey
      BY <2>2, <3>1, Zenon DEF EndpointsTracked
    <3>4. \A g \in Handle : /\ handle_to_endpoint'[g] = IF g = h THEN k ELSE handle_to_endpoint[g]
                            /\ states'[g] = IF g = h THEN "Listening" ELSE states[g]
                            /\ sockets'[g] = IF g = h THEN ListenOn(k.port) ELSE sockets[g]
      BY <1>0, <2>4, Zenon
    <3>5. listening_endpoints' = {handle_to_endpoint'[g] : g \in Handle} \ {NoKey}
      BY <2>1, <2>4, <3>1, <3>3, <3>4 DEF EndpointsTracked
    <3> QED
      BY <2>1, <2>3, <3>1, <3>2, <3>4, <3>5 DEF EndpointsTracked
  <2>8. NoOrphanTask'
    <3>1. \A t \in tasks : t.h \in Handle /\ t.h # h
      BY <2>2, Zenon DEF IInv, Tables, NoOrphanTask, TypeOK, Task
    <3> QED
      BY <1>0, <1>1, <2>4, <3>1 DEF IInv, Tables, NoOrphanTask
  <2> QED
    BY <2>5, <2>6, <2>7, <2>8 DEF IInv, Tables
<1> QED
  BY <1>2, <1>3, Zenon DEF ObserveSyn

\* Steps of the tick that only move to the next phase.
LEMMA PhaseIInv ==
  ASSUME IInv, Observed \/ IngressDone \/ EgressDone
  PROVE  IInv'
<1>1. UNCHANGED <<client, toApp, tun, rx_queue, scan, sockets, isn, outboundVars>>
  BY Zenon DEF Observed, IngressDone, EgressDone, clientVars
<1>2. pc' \in Phase
  BY Zenon DEF Observed, IngressDone, EgressDone, Phase
<1>3. Flushed'
  BY <1>1, Zenon DEF Observed, IngressDone, EgressDone, Flushed, Sending
<1> QED
  BY <1>1, <1>2, <1>3 DEF IInv, TypeOK, Tables, Shapes, PastHandshake, EndpointsTracked,
                          NoOrphanTask, outboundVars

\* One socket changes its TCP state, in ingress or in egress.
SocketStep(h) ==
  /\ Shape(sockets'[h])
  /\ sockets'[h].state = "Free" <=> sockets[h].state = "Free"
  /\ sockets[h].state \in Handshaken =>
       sockets'[h].state \in Handshaken /\ sockets'[h].s = sockets[h].s

LEMMA SocketsStep ==
  ASSUME Tables, \A t \in tasks : t.h \in Handle, pc' # "cleanup", UNCHANGED outboundVars,
         \A h \in Handle : SocketStep(h) \/ sockets'[h] = sockets[h]
  PROVE  Tables'
<1>1. Shapes' /\ PastHandshake' /\ Flushed'
  BY Zenon DEF Tables, Shapes, PastHandshake, Flushed, SocketStep, outboundVars
<1>2. EndpointsTracked'
  BY DEF Tables, EndpointsTracked, SocketStep, outboundVars
<1>3. NoOrphanTask'
  BY Zenon DEF Tables, PastHandshake, NoOrphanTask, SocketStep, outboundVars
<1> QED
  BY <1>1, <1>2, <1>3 DEF Tables

LEMMA IngressIInv ==
  ASSUME IInv, Ingress
  PROVE  IInv'
<1> DEFINE p == Head(rx_queue)
<1>0. /\ sockets \in [Handle -> Socket] /\ toApp \in [Key -> Seq(Segment)] /\ isn \in Nat
      /\ rx_queue \in Seq(Segment) /\ rx_queue # <<>> /\ pc = "ingress"
  BY Zenon DEF IInv, TypeOK, Ingress
<1>1. p \in Segment /\ Tail(rx_queue) \in Seq(Segment)
  BY <1>0
<1>2. /\ UNCHANGED <<client, tun, pc, scan, outboundVars>>
      /\ rx_queue' \in Seq(Segment)
  BY <1>1, Zenon DEF Ingress
<1>3. \A t \in tasks : t.h \in Handle
  BY Zenon DEF IInv, TypeOK, Task
<1>4. ASSUME toApp' \in [Key -> Seq(Segment)], sockets' \in [Handle -> Socket], isn' \in Nat, Tables'
      PROVE  IInv'
  BY <1>2, <1>4, Zenon DEF IInv, TypeOK, outboundVars
<1> HIDE DEF p
<1>5. ASSUME NEW h \in Handle, IsFirst(h, Accepting(p)),
             sockets' = [sockets EXCEPT ![h] = Received(sockets[h], p, isn + 1)],
             isn' = IF sockets[h].state = "Listen" THEN isn + 1 ELSE isn,
             UNCHANGED toApp
      PROVE  IInv'
  <2>1. Accepts(sockets[h], p) /\ Shape(sockets[h]) /\ sockets[h].state # "Free"
    BY <1>5, Zenon DEF IsFirst, Accepting, Accepts, IInv, Tables, Shapes
  <2> DEFINE i == isn + 1
  <2>2. i \in Nat /\ sockets' = [sockets EXCEPT ![h] = Received(sockets[h], p, i)]
    BY <1>0, <1>5
  <2> HIDE DEF i
  <2>3. /\ Shape(Received(sockets[h], p, i))
        /\ Received(sockets[h], p, i).state # "Free"
        /\ sockets[h].state \in Handshaken =>
             /\ Received(sockets[h], p, i).state \in Handshaken
             /\ Received(sockets[h], p, i).s = sockets[h].s
    BY <1>1, <2>1, <2>2, ReceivedShape, Zenon
  <2>4. \A g \in Handle : SocketStep(g) \/ sockets'[g] = sockets[g]
    BY <1>0, <2>1, <2>2, <2>3, Zenon DEF SocketStep
  <2>5. Tables'
    BY <1>0, <1>2, <1>3, <2>4, SocketsStep DEF IInv
  <2>6. sockets' \in [Handle -> Socket] /\ isn' \in Nat
    BY <1>0, <1>5, <2>2, <2>3 DEF Shape
  <2> QED
    BY <1>0, <1>4, <1>5, <2>5, <2>6, Zenon
<1>6. CASE UNCHANGED <<sockets, isn>> /\ toApp' \in [Key -> Seq(Segment)]
  <2>1. Tables'
    BY <1>2, <1>6, Frame DEF IInv
  <2> QED
    BY <1>0, <1>4, <1>6, <2>1
<1>7. ResetReply(p) \in Segment /\ p.k \in Key
  BY <1>1, Zenon DEF ResetReply, Segment, Flag
<1>8. [toApp EXCEPT ![p.k] = Append(@, ResetReply(p))] \in [Key -> Seq(Segment)]
  BY <1>0, <1>7
<1> QED
  BY <1>0, <1>5, <1>6, <1>8, Zenon DEF Ingress, p

LEMMA EgressIInv ==
  ASSUME IInv, Egress
  PROVE  IInv'
<1>0. /\ sockets \in [Handle -> Socket] /\ toApp \in [Key -> Seq(Segment)]
      /\ pc \in {"egress1", "egress2"} /\ \A t \in tasks : t.h \in Handle
  BY Zenon DEF IInv, TypeOK, Egress, Task
<1>1. UNCHANGED <<client, tun, pc, rx_queue, scan, isn, outboundVars>>
  BY Zenon DEF Egress
<1>2. PICK h \in Handle :
        /\ IsFirst(h, Sending)
        /\ toApp' = [toApp EXCEPT ![sockets[h].tuple] = Append(@, Emitted(sockets[h]))]
        /\ sockets' = [sockets EXCEPT ![h] = AfterEgress(@)]
  BY Zenon DEF Egress
<1>3. HasEgress(sockets[h]) /\ Shape(sockets[h])
  BY <1>2, Zenon DEF IsFirst, Sending, IInv, Tables, Shapes
<1>4. /\ Shape(AfterEgress(sockets[h])) /\ AfterEgress(sockets[h]).state = sockets[h].state
      /\ AfterEgress(sockets[h]).s = sockets[h].s /\ Emitted(sockets[h]) \in Segment
  BY <1>3, EgressShape, Zenon
<1>5. Tables'
  <2>1. \A g \in Handle : SocketStep(g) \/ sockets'[g] = sockets[g]
    BY <1>0, <1>2, <1>4, Zenon DEF SocketStep
  <2> QED
    BY <1>0, <1>1, <2>1, SocketsStep, Zenon DEF IInv
<1>6. sockets' \in [Handle -> Socket]
  BY <1>0, <1>2, <1>4, Zenon DEF Shape
<1>7. toApp' \in [Key -> Seq(Segment)]
  <2>1. sockets[h].tuple \in Key
    BY <1>4, Zenon DEF Emitted, Segment
  <2>2. Append(toApp[sockets[h].tuple], Emitted(sockets[h])) \in Seq(Segment)
    BY <1>0, <1>4, <2>1
  <2> QED
    BY <1>0, <1>2, <2>1, <2>2, Zenon
<1> QED
  BY <1>1, <1>5, <1>6, <1>7, Zenon DEF IInv, TypeOK, outboundVars

\* cleanup() frees exactly the Closing entries, each with its own endpoint.
LEMMA CleanupIInv ==
  ASSUME IInv, Cleanup
  PROVE  IInv'
<1>0. /\ sockets \in [Handle -> Socket] /\ states \in [Handle -> Tag]
      /\ handle_to_endpoint \in [Handle -> Key \cup {NoKey}] /\ listening_endpoints \subseteq Key
      /\ \A t \in tasks : t.h \in Handle
  BY Zenon DEF IInv, TypeOK, Task
<1>1. UNCHANGED <<client, toApp, tun, rx_queue, scan, isn, expired, ended, tasks>> /\ pc' = "wait"
  BY Zenon DEF Cleanup, clientVars
<1>2. /\ \A h \in Handle : /\ states'[h] = IF states[h] = "Closing" THEN "Absent" ELSE states[h]
                           /\ sockets'[h] = IF states[h] = "Closing" THEN FreeSlot ELSE sockets[h]
                           /\ handle_to_endpoint'[h] = IF states[h] = "Closing" THEN NoKey
                                                       ELSE handle_to_endpoint[h]
      /\ listening_endpoints' =
           listening_endpoints \ {handle_to_endpoint[h] : h \in {g \in Handle : states[g] = "Closing"}}
  BY Zenon DEF Cleanup, ClosingHandles, ReleasedEndpoints
<1>3. Shape(FreeSlot) /\ FreeSlot.state = "Free"
  BY FreshSockets, Zenon DEF FreeSlot
<1>4. TypeOK'
  <2>1. sockets' \in [Handle -> Socket] /\ states' \in [Handle -> Tag]
    BY <1>0, <1>2, <1>3, Zenon DEF Cleanup, Shape, Tag
  <2>2. handle_to_endpoint' \in [Handle -> Key \cup {NoKey}] /\ listening_endpoints' \subseteq Key
    BY <1>0, <1>2, Zenon DEF Cleanup
  <2> QED
    BY <1>1, <2>1, <2>2, Zenon DEF IInv, TypeOK, Phase
<1>5. Shapes' /\ PastHandshake' /\ Flushed'
  BY <1>1, <1>2, <1>3, Zenon DEF IInv, Tables, Shapes, PastHandshake, Flushed
<1>6. EndpointsTracked'
  <2>1. EndpointsTracked
    BY DEF IInv, Tables
  <2>2. listening_endpoints' = {handle_to_endpoint'[h] : h \in Handle} \ {NoKey}
    <3>1. ASSUME NEW e \in listening_endpoints' PROVE e \in {handle_to_endpoint'[h] : h \in Handle} \ {NoKey}
      BY <1>2, <2>1, <3>1 DEF EndpointsTracked
    <3>2. ASSUME NEW h \in Handle, handle_to_endpoint'[h] # NoKey
          PROVE  handle_to_endpoint'[h] \in listening_endpoints'
      BY <1>2, <2>1, <3>2 DEF EndpointsTracked
    <3> QED
      BY <3>1, <3>2
  <2> QED
    BY <1>2, <1>3, <2>1, <2>2 DEF EndpointsTracked
<1>7. NoOrphanTask'
  BY <1>0, <1>1, <1>2 DEF IInv, Tables, NoOrphanTask
<1> QED
  BY <1>4, <1>5, <1>6, <1>7 DEF IInv, Tables

\* process() starts a task for every handshake that is done, and aborts the
\* sockets of the entries it gives up.
LEMMA ProcessIInv ==
  ASSUME IInv, Process
  PROVE  IInv'
<1>0. /\ sockets \in [Handle -> Socket] /\ states \in [Handle -> Tag] /\ tasks \subseteq Task
      /\ expired \subseteq Handle /\ ended \subseteq Handle
      /\ Shapes /\ PastHandshake /\ EndpointsTracked /\ NoOrphanTask
  BY Zenon DEF IInv, Tables, TypeOK
<1>1. UNCHANGED <<client, toApp, tun, rx_queue, scan, isn, listening_endpoints, handle_to_endpoint>>
  BY Zenon DEF Process, clientVars
<1>2. PICK drained \in SUBSET {h \in Handle : states[h] = "Established" /\ sockets[h].rx} :
       /\ states' = [h \in Handle |->
            IF HandshakeDone(h) THEN "Connecting"
            ELSE IF \/ ListenerClosed(h) \/ HandshakeTimesOut(h)
                    \/ ForwardEnds(h, drained) THEN "Closing"
            ELSE states[h]]
       /\ sockets' = [h \in Handle |->
            IF AbortedByProcess(h, drained)
            THEN Abort(AfterForward(h, drained)) ELSE AfterForward(h, drained)]
  BY Zenon DEF Process
<1>3. /\ pc' = "egress2"
      /\ tasks' = tasks \cup {NewTask(h) : h \in {g \in Handle : HandshakeDone(g)}}
      /\ expired' \subseteq Handle /\ ended' \subseteq Handle
  BY <1>0, Zenon DEF Process
<1>4. \A h \in Handle :
        /\ Shape(AfterForward(h, drained)) /\ AfterForward(h, drained).s = sockets[h].s
        /\ AfterForward(h, drained).state = sockets[h].state
  <2> TAKE h \in Handle
  <2>1. Shape(sockets[h])
    BY <1>0, Zenon DEF Shapes
  <2> QED
    BY <2>1, Zenon DEF AfterForward, Shape, Socket
<1>5. \A h \in Handle :
        /\ Shape(sockets'[h]) /\ sockets'[h].s = sockets[h].s
        /\ sockets'[h].state = IF AbortedByProcess(h, drained) THEN "Closed" ELSE sockets[h].state
  BY <1>2, <1>4, AbortShape
<1>6. \A h \in Handle :
        /\ HandshakeDone(h) <=> states[h] # "Connecting" /\ states'[h] = "Connecting"
        /\ states[h] = "Connecting" => states'[h] = "Connecting"
        /\ states'[h] = "Established" => states[h] = "Established"
        /\ states[h] = "Absent" <=> states'[h] = "Absent"
  BY <1>0, <1>2, Zenon DEF HandshakeDone, ListenerClosed, HandshakeTimesOut, ForwardEnds, Tag
<1>7. \A h \in Handle : HandshakeDone(h) => /\ ~AbortedByProcess(h, drained)
                                            /\ sockets[h].state \in Handshaken
                                            /\ NewTask(h) \in Task /\ NewTask(h).h = h
                                            /\ NewTask(h).s = sockets[h].s
  <2> TAKE h \in Handle
  <2> HAVE HandshakeDone(h)
  <2>1. sockets[h].state \in {"Established", "CloseWait"} /\ states[h] = "Listening"
    BY Zenon DEF HandshakeDone, MaySend
  <2>2. sockets[h].tuple \in Key /\ sockets[h].s \in Nat
    BY <1>0, <2>1, Zenon DEF Shapes, Shape, HasPeer, Socket
  <2>3. ~AbortedByProcess(h, drained) /\ sockets[h].state \in Handshaken
    BY <2>1, Zenon DEF AbortedByProcess, HandshakeTimesOut, ForwardEnds, Handshaken
  <2> QED
    BY <2>2, <2>3, Zenon DEF NewTask, Task
<1>8. TypeOK'
  <2>1. sockets' \in [Handle -> Socket] /\ states' \in [Handle -> Tag]
    BY <1>0, <1>2, <1>5, Zenon DEF Shape, Tag
  <2>2. tasks' \subseteq Task
    BY <1>0, <1>3, <1>7
  <2> QED
    BY <1>1, <1>3, <2>1, <2>2, Zenon DEF IInv, TypeOK, Phase
<1>9. Shapes' /\ PastHandshake' /\ Flushed'
  BY <1>0, <1>3, <1>5, <1>6, <1>7 DEF Shapes, PastHandshake, Flushed, Handshaken
<1>10. EndpointsTracked'
  <2>1. \A h \in Handle : sockets'[h].state = "Free" <=> sockets[h].state = "Free"
    <3> TAKE h \in Handle
    <3>1. CASE AbortedByProcess(h, drained)
      BY <1>0, <1>5, <3>1, Zenon DEF AbortedByProcess, HandshakeTimesOut, ForwardEnds, EndpointsTracked
    <3> QED
      BY <1>5, <3>1, Zenon
  <2> QED
    BY <1>0, <1>1, <1>6, <2>1 DEF EndpointsTracked
<1>11. NoOrphanTask'
  <2>1. \A t \in tasks : t.h \in Handle /\ ~HandshakeDone(t.h) /\ states'[t.h] = "Connecting"
                         /\ t.s = sockets'[t.h].s
    BY <1>0, <1>5, <1>6 DEF NoOrphanTask, HandshakeDone, Task
  <2>2. \A t \in tasks' : t \in tasks \/ \E h \in Handle : HandshakeDone(h) /\ t = NewTask(h)
    BY <1>3
  <2>3. \A t \in tasks' : states'[t.h] = "Connecting" /\ t.s = sockets'[t.h].s
    BY <1>5, <1>6, <1>7, <2>1, <2>2
  <2>4. \A h \in Handle : states'[h] = "Connecting" => \E t \in tasks' : t.h = h
    BY <1>0, <1>3, <1>6, <1>7 DEF NoOrphanTask
  <2>5. \A t, u \in tasks' : t.h = u.h => t = u
    BY <1>0, <1>7, <2>1, <2>2 DEF NoOrphanTask
  <2> QED
    BY <2>3, <2>4, <2>5, Zenon DEF NoOrphanTask
<1> QED
  BY <1>8, <1>9, <1>10, <1>11 DEF IInv, Tables

-----------------------------------------------------------------------------
(* Theorems.                                                               *)

LEMMA NextIInv == IInv /\ [Next]_vars => IInv'
<1> SUFFICES ASSUME IInv, [Next]_vars PROVE IInv'
  OBVIOUS
<1>1. CASE ClientStep
  BY <1>1, ClientIInv
<1>2. CASE ConnectReturns
  BY <1>2, ConnectReturnsIInv
<1>3. CASE \E h \in Handle : UpstreamEnds(h) \/ HandshakeExpires(h)
  BY <1>3, ClockIInv
<1>4. CASE WaitForWork
  BY <1>4, WaitForWorkIInv
<1>5. CASE Shutdown
  BY <1>5, ShutdownIInv
<1>6. CASE Tick
  BY <1>6, ObserveSynIInv, PhaseIInv, IngressIInv, EgressIInv, ProcessIInv, CleanupIInv DEF Tick
<1>7. CASE UNCHANGED vars
  BY <1>7 DEF vars, clientVars, outboundVars, IInv, TypeOK, Tables, Shapes, PastHandshake, Flushed,
              EndpointsTracked, NoOrphanTask
<1> QED
  BY <1>1, <1>2, <1>3, <1>4, <1>5, <1>6, <1>7 DEF Next

\* The inductive invariant: sockets, states, endpoints and connect tasks of the
\* event loop say the same thing at every step of wait_for_work() and tick().
THEOREM OutboundInvariant == Spec => []IInv
BY InitIInv, NextIInv, PTL DEF Spec

\* Every variable of the event loop keeps its type, whatever the clients, the
\* upstream peers and the shutdown signal do.
THEOREM OutboundTypeCorrect == Spec => []TypeOK
<1>1. IInv => TypeOK
  BY DEF IInv
<1> QED
  BY <1>1, OutboundInvariant, PTL

\* The tables of OutboundTcp never disagree: observe_syns and cleanup() add and
\* remove endpoint, socket and state together.
THEOREM EndpointsAlwaysTracked == Spec => []EndpointsTracked
<1>1. IInv => EndpointsTracked
  BY Zenon DEF IInv, Tables
<1> QED
  BY <1>1, OutboundInvariant, PTL

\* No connect task outlives the entry of the client that asked for it, and no
\* Connecting entry is without its task: update_listeners, poll_connecting and
\* the Drop of OutboundTcp keep them together.
THEOREM TasksNeverOrphaned == Spec => []NoOrphanTask
<1>1. IInv => NoOrphanTask
  BY DEF IInv, Tables
<1> QED
  BY <1>1, OutboundInvariant, PTL

\* The second Interface::poll of a tick has sent every RST before cleanup()
\* removes the sockets.
THEOREM ResetsSentBeforeCleanup == Spec => ResetBeforeCleanup
<1>1. IInv /\ [Next]_vars =>
        [\A h \in Handle :
           (pc = "cleanup" /\ sockets[h].state # "Free" /\ sockets'[h].state = "Free")
             => ~HasEgress(sockets[h])]_vars
  BY Zenon DEF IInv, Tables, Flushed
<1> QED
  BY <1>1, OutboundInvariant, PTL DEF Spec, ResetBeforeCleanup

-----------------------------------------------------------------------------
(* Segments in flight.                                                     *)

\* The elements of a queue, and those that are on their way to the sockets.
Elems(q) == {q[i] : i \in 1 .. Len(q)}
Carried == Elems(tun) \cup Elems(rx_queue)

LEMMA QueueElems ==
  ASSUME NEW q \in Seq(Segment)
  PROVE  /\ \A x \in Segment : Elems(Append(q, x)) = Elems(q) \cup {x}
         /\ \A r \in Seq(Segment) : Elems(q \o r) \subseteq Elems(q) \cup Elems(r)
         /\ q # <<>> => Elems(Tail(q)) \subseteq Elems(q) /\ Head(q) \in Elems(q)
         /\ Elems(q) \subseteq Segment /\ Elems(<<>>) = {}
<1>1. ASSUME NEW x \in Segment PROVE Elems(Append(q, x)) = Elems(q) \cup {x}
  <2>1. Len(Append(q, x)) = Len(q) + 1 /\ Append(q, x)[Len(q) + 1] = x /\ Len(q) \in Nat
    OBVIOUS
  <2>2. \A i \in 1 .. Len(q) : Append(q, x)[i] = q[i]
    OBVIOUS
  <2>3. Elems(Append(q, x)) \subseteq Elems(q) \cup {x}
    BY <2>1, <2>2 DEF Elems
  <2>4. Elems(q) \subseteq Elems(Append(q, x))
    BY <2>1, <2>2 DEF Elems
  <2>5. x \in Elems(Append(q, x))
    BY <2>1 DEF Elems
  <2> QED
    BY <2>3, <2>4, <2>5
<1>2. ASSUME NEW r \in Seq(Segment) PROVE Elems(q \o r) \subseteq Elems(q) \cup Elems(r)
  <2> SUFFICES ASSUME NEW i \in 1 .. Len(q \o r) PROVE (q \o r)[i] \in Elems(q) \cup Elems(r)
    BY Zenon DEF Elems
  <2>1. CASE i \in 1 .. Len(q)
    BY <2>1 DEF Elems
  <2>2. CASE i \notin 1 .. Len(q)
    <3>1. i - Len(q) \in 1 .. Len(r) /\ (q \o r)[i] = r[i - Len(q)]
      BY <2>2
    <3> QED
      BY <3>1, Zenon DEF Elems
  <2> QED
    BY <2>1, <2>2, Zenon
<1>3. ASSUME q # <<>> PROVE Elems(Tail(q)) \subseteq Elems(q) /\ Head(q) \in Elems(q)
  <2>1. Len(q) \in Nat /\ 1 \in 1 .. Len(q) /\ Head(q) = q[1] /\ Len(Tail(q)) = Len(q) - 1
    BY <1>3
  <2>2. \A i \in 1 .. Len(q) - 1 : i + 1 \in 1 .. Len(q) /\ Tail(q)[i] = q[i + 1]
    BY <1>3
  <2> QED
    BY <2>1, <2>2 DEF Elems
<1>4. Elems(q) \subseteq Segment /\ Elems(<<>>) = {}
  BY DEF Elems
<1> QED
  BY <1>1, <1>2, <1>3, <1>4, Zenon

\* The initial sequence number s is in use on the 4-tuple k.
Uses(k, s) ==
  \/ \E h \in Handle : sockets[h].tuple = k /\ sockets[h].s = s
  \/ \E p \in Carried : p.k = k /\ p.s = s
  \/ \E p \in Elems(toApp[k]) : p.s = s
  \/ client[k].s = s

\* Sockets without a peer have no 4-tuple, and an entry that is given up has a
\* closed socket.
Idle ==
  \A h \in Handle : /\ sockets[h].state \in {"Free", "Listen"} => sockets[h].tuple = NoKey
                    /\ states[h] = "Closing" => sockets[h].state = "Closed"

\* A sequence number belongs to one 4-tuple, wherever it turns up, and a task
\* connects to the destination of the 4-tuple whose number it carries.
Numbered ==
  /\ \A h \in Handle : sockets[h].tuple # NoKey => sockets[h].s # 0
  /\ \A k \in Key, s \in Nat \ {0} : Uses(k, s) => s <= isn
  /\ \A j, k \in Key, s \in Nat \ {0} : Uses(j, s) /\ Uses(k, s) => j = k
  /\ \A t \in tasks : t.s \in 1 .. isn /\ \A k \in Key : Uses(k, t.s) => t.target = Target(k)

\* Nothing is in flight for an attempt that the client has not made yet.
Attempts ==
  /\ \A h \in Handle : sockets[h].tuple # NoKey => sockets[h].c <= client[sockets[h].tuple].c
  /\ \A p \in Carried : p.c <= client[p.k].c
  /\ \A k \in Key : \A p \in Elems(toApp[k]) : p.c <= client[k].c

\* A client that has sent a RST is gone.
ResetsGone ==
  \A p \in Carried : p.f = "RST" /\ client[p.k].c = p.c => client[p.k].st = "closed"

Serving(k, c, s) == \E h \in Handle : sockets[h].tuple = k /\ sockets[h].c = c /\ sockets[h].s = s
ResetBehind(k, c, s, i) ==
  \E j \in 1 .. Len(toApp[k]) : j > i /\ toApp[k][j].f = "RST" /\ toApp[k][j].c = c /\ toApp[k][j].s = s

\* Who is connected, or is about to be by a SYN|ACK on its way, has a socket, or
\* hears of its end afterwards.
Told ==
  pc # "stopped" => \A k \in Key : \A c, s : client[k].c = c =>
    /\ client[k].st \in {"estab", "finwait"} /\ client[k].s = s =>
         Serving(k, c, s) \/ ResetBehind(k, c, s, 0)
    /\ client[k].st = "synsent" => \A i \in 1 .. Len(toApp[k]) :
         toApp[k][i].f = "SYNACK" /\ toApp[k][i].c = c /\ toApp[k][i].s = s =>
           Serving(k, c, s) \/ ResetBehind(k, c, s, i)

Wire == Idle /\ Numbered /\ Attempts /\ ResetsGone /\ Told

LEMMA InitWire == Init => Wire
<1> SUFFICES ASSUME Init PROVE Wire
  OBVIOUS
<1>1. Carried = {} /\ \A k \in Key : Elems(toApp[k]) = {} /\ Len(toApp[k]) = 0
  BY DEF Init, Carried, Elems
<1>2. \A h \in Handle : sockets[h].tuple = NoKey /\ states[h] = "Absent"
  BY Zenon DEF Init, FreeSlot
<1>3. \A k \in Key : client[k].s = 0 /\ client[k].st = "closed" /\ k # NoKey
  BY KeyAssumption, Zenon DEF Init
<1>4. tasks = {}
  BY Zenon DEF Init
<1>5. \A k \in Key, s \in Nat \ {0} : ~Uses(k, s)
  BY <1>1, <1>2, <1>3 DEF Uses
<1> QED
  BY <1>1, <1>2, <1>3, <1>4, <1>5, Zenon DEF Wire, Idle, Numbered, Attempts, ResetsGone, Told

\* A step that only passes numbers on along their own 4-tuple, or takes the next
\* one for the 4-tuple j, keeps them apart.
LEMMA NumberedStep ==
  ASSUME isn \in Nat, Numbered, NEW j \in Key, isn' \in {isn, isn + 1},
         \A h \in Handle : sockets'[h].tuple # NoKey => sockets'[h].s # 0,
         \A k \in Key, s \in Nat \ {0} :
           Uses(k, s)' => Uses(k, s) \/ (k = j /\ s = isn + 1 /\ isn' = isn + 1),
         \A t \in tasks' :
           \/ \E u \in tasks : t.s = u.s /\ t.target = u.target
           \/ t.s \in Nat \ {0} /\ \E k \in Key : Uses(k, t.s) /\ t.target = Target(k)
  PROVE  Numbered'
<1>1. \A k \in Key : ~Uses(k, isn + 1)
  BY DEF Numbered
<1>2. \A k \in Key, s \in Nat \ {0} : Uses(k, s)' => s <= isn'
  BY DEF Numbered
<1>3. \A i, k \in Key, s \in Nat \ {0} : Uses(i, s)' /\ Uses(k, s)' => i = k
  BY <1>1 DEF Numbered
<1>4. ASSUME NEW t \in tasks'
      PROVE  t.s \in 1 .. isn' /\ \A k \in Key : Uses(k, t.s)' => t.target = Target(k)
  <2>1. t.s \in 1 .. isn /\ \A k \in Key : Uses(k, t.s) => t.target = Target(k)
    BY DEF Numbered
  <2>2. t.s \in Nat \ {0} /\ t.s # isn + 1 /\ t.s \in 1 .. isn'
    BY <2>1
  <2> QED
    BY <2>1, <2>2, Zenon
<1> QED
  BY <1>2, <1>3, <1>4, Zenon DEF Numbered

\* A socket keeps its connection, or loses it.
Keeps(h) ==
  /\ sockets'[h].tuple = sockets[h].tuple
  /\ sockets[h].tuple # NoKey => sockets'[h].c = sockets[h].c /\ sockets'[h].s = sockets[h].s
Loses(h) == sockets'[h].tuple = NoKey

\* Steps of the event loop that write nothing to the TUN and give no socket a
\* connection.
LEMMA QuietStep ==
  ASSUME TypeOK, Wire, UNCHANGED <<client, toApp, isn>>, Carried' \subseteq Carried,
         \A h \in Handle : Keeps(h) \/ Loses(h),
         \A t \in tasks' :
           \/ \E u \in tasks : t.s = u.s /\ t.target = u.target
           \/ t.s \in Nat \ {0} /\ \E k \in Key : Uses(k, t.s) /\ t.target = Target(k)
  PROVE  Numbered' /\ Attempts' /\ ResetsGone'
<1>1. \A h \in Handle : sockets'[h].tuple # NoKey =>
        /\ sockets'[h].tuple = sockets[h].tuple /\ sockets'[h].c = sockets[h].c
        /\ sockets'[h].s = sockets[h].s /\ sockets[h].s # 0 /\ sockets[h].tuple \in Key
        /\ sockets[h].c <= client[sockets[h].tuple].c
  BY DEF Keeps, Loses, Wire, Numbered, Attempts, TypeOK, Socket
<1>2. \A k \in Key, s \in Nat \ {0} : Uses(k, s)' => Uses(k, s)
  BY <1>1, KeyAssumption DEF Uses
<1>3. Numbered'
  <2>1. \A h \in Handle : sockets'[h].tuple # NoKey => sockets'[h].s # 0
    BY <1>1, Zenon
  <2>2. isn \in Nat
    BY Zenon DEF TypeOK
  <2>3. CASE Key = {}
    BY <2>1, <2>3, Zenon DEF Numbered, Wire
  <2>4. ASSUME NEW j \in Key PROVE Numbered'
    BY <1>2, <2>1, <2>2, NumberedStep, Zenon DEF Wire
  <2> QED
    BY <2>3, <2>4
<1>4. Attempts'
  BY <1>1, Zenon DEF Wire, Attempts
<1>5. ResetsGone'
  BY Zenon DEF Wire, ResetsGone
<1> QED
  BY <1>3, <1>4, <1>5

\* Where nobody hears anything, sockets may only leave clients that are gone.
LEMMA ToldKept ==
  ASSUME Told, UNCHANGED <<client, toApp>>, pc' # "stopped" => pc # "stopped",
         \A k \in Key : \A c, s :
           client[k].c = c /\ client[k].st # "closed" /\ Serving(k, c, s) => Serving(k, c, s)'
  PROVE  Told'
<1>1. \A k, c, s, i : ResetBehind(k, c, s, i) => ResetBehind(k, c, s, i)'
  BY DEF ResetBehind
<1>2. SUFFICES ASSUME pc # "stopped", NEW k \in Key, NEW c, NEW s, client[k].c = c
               PROVE  /\ client[k].st \in {"estab", "finwait"} /\ client[k].s = s =>
                           Serving(k, c, s)' \/ ResetBehind(k, c, s, 0)'
                      /\ client[k].st = "synsent" => \A i \in 1 .. Len(toApp[k]) :
                           toApp[k][i].f = "SYNACK" /\ toApp[k][i].c = c /\ toApp[k][i].s = s =>
                             Serving(k, c, s)' \/ ResetBehind(k, c, s, i)'
  BY ZenonT(40) DEF Told
<1> QED
  BY <1>1, <1>2, Zenon DEF Told

LEMMA QuietTold ==
  ASSUME Wire, UNCHANGED <<client, toApp>>, pc' # "stopped" => pc # "stopped",
         \A h \in Handle : Keeps(h)
  PROVE  Told'
<1>1. \A k \in Key : \A c, s : Serving(k, c, s) => Serving(k, c, s)'
  BY KeyAssumption DEF Serving, Keeps
<1> QED
  BY <1>1, ToldKept, Zenon DEF Wire

LEMMA ElsewhereWire ==
  ASSUME TypeOK, Wire, UNCHANGED <<client, toApp, tun, rx_queue, sockets, isn, states>>,
         pc' # "stopped" => pc # "stopped",
         \A t \in tasks' : \E u \in tasks : t.s = u.s /\ t.target = u.target
  PROVE  Wire'
<1>1. \A h \in Handle : Keeps(h)
  BY Zenon DEF Keeps
<1>2. Carried' = Carried
  BY DEF Carried
<1>3. Idle'
  BY Zenon DEF Wire, Idle
<1> QED
  BY <1>1, <1>2, <1>3, QuietStep, QuietTold, Zenon DEF Wire

LEMMA ConnectReturnsWire ==
  ASSUME TypeOK, Wire, ConnectReturns
  PROVE  Wire'
<1>1. PICK t \in tasks, r \in {"ok", "err"} :
        tasks' = (tasks \ {t}) \cup {[t EXCEPT !.result = r]}
  BY DEF ConnectReturns
<1> DEFINE w == [t EXCEPT !.result = r]
<1>2. w.s = t.s /\ w.target = t.target /\ tasks' = (tasks \ {t}) \cup {w}
  BY <1>1 DEF TypeOK, Task
<1> HIDE DEF w
<1>3. \A v \in tasks' : \E u \in tasks : v.s = u.s /\ v.target = u.target
  BY <1>2
<1> QED
  BY <1>3, ElsewhereWire DEF ConnectReturns, clientVars

LEMMA AbortedSocket ==
  ASSUME NEW sock \in Socket
  PROVE  /\ Abort(sock).tuple = sock.tuple /\ Abort(sock).c = sock.c
         /\ Abort(sock).s = sock.s /\ Abort(sock).state = "Closed"
BY DEF Abort, Socket

LEMMA WaitForWorkWire ==
  ASSUME TypeOK, Wire, WaitForWork
  PROVE  Wire'
<1>1. \A h \in Handle :
        /\ sockets'[h] = IF ConnectFails(h) THEN Abort(sockets[h]) ELSE sockets[h]
        /\ states'[h] = IF ConnectFails(h) THEN "Closing"
                        ELSE IF ConnectDone(h) THEN "Established" ELSE states[h]
  BY Zenon DEF WaitForWork
<1>2. \A h \in Handle : sockets[h] \in Socket
  BY Zenon DEF TypeOK
<1>3. \A h \in Handle : /\ Keeps(h)
                        /\ ConnectFails(h) => sockets'[h].state = "Closed"
  BY <1>1, <1>2, AbortedSocket DEF Keeps
<1>4. Idle'
  BY <1>1, <1>3 DEF Wire, Idle, Keeps
<1>5. Carried' \subseteq Carried
  <2>1. tun \in Seq(Segment) /\ rx_queue \in Seq(Segment) /\ tun' = <<>> /\ rx_queue' = rx_queue \o tun
    BY Zenon DEF TypeOK, WaitForWork
  <2> QED
    BY <2>1, QueueElems DEF Carried
<1>6. tasks' \subseteq tasks /\ UNCHANGED <<client, toApp, isn>> /\ pc # "stopped"
  BY Zenon DEF WaitForWork, clientVars
<1> QED
  BY <1>3, <1>4, <1>5, <1>6, QuietStep, QuietTold, Zenon DEF Wire

LEMMA ShutdownWire ==
  ASSUME TypeOK, Wire, Shutdown
  PROVE  Wire'
<1>1. \A h \in Handle : Loses(h) /\ states'[h] = "Absent"
  BY Zenon DEF Shutdown, Loses, FreeSlot
<1>2. tasks' \subseteq tasks /\ UNCHANGED <<client, toApp, isn>> /\ Carried' = Carried /\ pc' = "stopped"
  BY Zenon DEF Shutdown, clientVars, Carried
<1> QED
  BY <1>1, <1>2, QuietStep, Zenon DEF Wire, Idle, Told, Loses

LEMMA ObserveSynWire ==
  ASSUME TypeOK, Wire, ObserveSyn
  PROVE  Wire'
<1>1. UNCHANGED <<client, toApp, tun, pc, rx_queue, isn, tasks>> /\ Carried' = Carried
  BY Zenon DEF ObserveSyn, clientVars, Carried
<1>2. CASE UNCHANGED <<sockets, states>>
  BY <1>1, <1>2, ElsewhereWire
<1>3. ASSUME NEW h \in Handle, NEW k, IsFirst(h, FreeSlots), Track(h, k) PROVE Wire'
  <2>1. \A g \in Handle : /\ sockets'[g] = IF g = h THEN ListenOn(k.port) ELSE sockets[g]
                          /\ states'[g] = IF g = h THEN "Listening" ELSE states[g]
    BY <1>3, Zenon DEF Track, TypeOK
  <2>2. ListenOn(k.port).tuple = NoKey /\ sockets[h].tuple = NoKey
    BY <1>3, Zenon DEF ListenOn, FreeSlot, IsFirst, FreeSlots, Wire, Idle
  <2>3. \A g \in Handle : Keeps(g)
    BY <2>1, <2>2, Zenon DEF Keeps
  <2>4. Idle'
    BY <2>1, <2>2 DEF Wire, Idle
  <2> QED
    BY <1>1, <2>3, <2>4, QuietStep, QuietTold, Zenon DEF Wire
<1> QED
  BY <1>2, <1>3, Zenon DEF ObserveSyn

LEMMA CleanupWire ==
  ASSUME TypeOK, Tables, Wire, Cleanup
  PROVE  Wire'
<1>1. \A h \in Handle : /\ states'[h] = IF states[h] = "Closing" THEN "Absent" ELSE states[h]
                        /\ sockets'[h] = IF states[h] = "Closing" THEN FreeSlot ELSE sockets[h]
  BY Zenon DEF Cleanup, ClosingHandles
<1>2. \A h \in Handle : states[h] = "Closing" => sockets[h].tuple = NoKey
  BY Zenon DEF Wire, Idle, Tables, Flushed, HasEgress, OwesReset, Cleanup
<1>3. \A h \in Handle : Keeps(h)
  BY <1>1, <1>2 DEF Keeps, FreeSlot
<1>4. Idle'
  BY <1>1 DEF Wire, Idle, FreeSlot
<1>5. UNCHANGED <<client, toApp, isn, tasks>> /\ Carried' = Carried /\ pc # "stopped"
  BY Zenon DEF Cleanup, clientVars, Carried
<1> QED
  BY <1>3, <1>4, <1>5, QuietStep, QuietTold, Zenon DEF Wire

LEMMA ProcessWire ==
  ASSUME TypeOK, Tables, Wire, Process
  PROVE  Wire'
<1>1. PICK drained \in SUBSET {h \in Handle : states[h] = "Established" /\ sockets[h].rx} :
        \A h \in Handle :
          /\ states'[h] = IF HandshakeDone(h) THEN "Connecting"
                          ELSE IF \/ ListenerClosed(h) \/ HandshakeTimesOut(h)
                                  \/ ForwardEnds(h, drained) THEN "Closing"
                          ELSE states[h]
          /\ sockets'[h] = IF AbortedByProcess(h, drained)
                           THEN Abort(AfterForward(h, drained)) ELSE AfterForward(h, drained)
  BY Zenon DEF Process
<1>2. /\ pc # "stopped" /\ UNCHANGED <<client, toApp, isn>> /\ Carried' = Carried
      /\ tasks' = tasks \cup {NewTask(h) : h \in {g \in Handle : HandshakeDone(g)}}
  BY Zenon DEF Process, clientVars, Carried
<1>3. \A h \in Handle : /\ AfterForward(h, drained) \in Socket
                        /\ AfterForward(h, drained).tuple = sockets[h].tuple
                        /\ AfterForward(h, drained).c = sockets[h].c
                        /\ AfterForward(h, drained).s = sockets[h].s
                        /\ AfterForward(h, drained).state = sockets[h].state
  <2>1. \A sock \in Socket : LET read == [sock EXCEPT !.rx = FALSE]
                             IN  /\ read \in Socket /\ read.tuple = sock.tuple /\ read.c = sock.c
                                 /\ read.s = sock.s /\ read.state = sock.state
    BY Zenon DEF Socket
  <2>2. \A h \in Handle : sockets[h] \in Socket
    BY Zenon DEF TypeOK
  <2> QED
    BY <2>1, <2>2 DEF AfterForward
<1>4. \A sock \in Socket : /\ Abort(sock).tuple = sock.tuple /\ Abort(sock).c = sock.c
                           /\ Abort(sock).s = sock.s /\ Abort(sock).state = "Closed"
  BY AbortedSocket, Zenon
<1>5. \A h \in Handle : Keeps(h)
  BY <1>1, <1>3, <1>4 DEF Keeps
<1>6. \A h \in Handle :
        sockets'[h].state = IF AbortedByProcess(h, drained) THEN "Closed" ELSE sockets[h].state
  BY <1>1, <1>3, <1>4
<1>7. Idle'
  <2> SUFFICES ASSUME NEW h \in Handle
               PROVE  /\ sockets'[h].state \in {"Free", "Listen"} => sockets'[h].tuple = NoKey
                      /\ states'[h] = "Closing" => sockets'[h].state = "Closed"
    BY Zenon DEF Idle
  <2>1. states'[h] = "Closing" => \/ AbortedByProcess(h, drained) \/ ListenerClosed(h)
                                  \/ states[h] = "Closing"
    BY <1>1, Zenon DEF AbortedByProcess
  <2> QED
    BY <1>5, <1>6, <2>1 DEF Wire, Idle, Keeps, ListenerClosed
<1>8. ASSUME NEW h \in Handle, HandshakeDone(h)
      PROVE  /\ NewTask(h).s \in Nat \ {0}
             /\ \E k \in Key : Uses(k, NewTask(h).s) /\ NewTask(h).target = Target(k)
  <2>1. sockets[h].tuple \in Key
    BY <1>8, Zenon DEF HandshakeDone, MaySend, Tables, Shapes, Shape, HasPeer
  <2>2. sockets[h].s \in Nat \ {0}
    BY <2>1, KeyAssumption, Zenon DEF Wire, Numbered, TypeOK, Socket
  <2>3. Uses(sockets[h].tuple, sockets[h].s)
    BY Zenon DEF Uses
  <2> QED
    BY <2>1, <2>2, <2>3, Zenon DEF NewTask
<1>9. Numbered' /\ Attempts' /\ ResetsGone'
  BY <1>2, <1>5, <1>8, QuietStep, Zenon
<1>10. Told'
  BY <1>2, <1>5, QuietTold
<1> QED
  BY <1>7, <1>9, <1>10 DEF Wire

\* The event loop writes the segment x to the TUN, for the client of j.
Writes(j, x) == toApp' = [toApp EXCEPT ![j] = Append(@, x)]

LEMMA WrittenQueues ==
  ASSUME TypeOK, NEW j \in Key, NEW x \in Segment, Writes(j, x)
  PROVE  /\ \A k \in Key : k # j => toApp'[k] = toApp[k]
         /\ Elems(toApp'[j]) = Elems(toApp[j]) \cup {x}
         /\ Len(toApp'[j]) = Len(toApp[j]) + 1 /\ Len(toApp[j]) \in Nat
         /\ toApp'[j][Len(toApp[j]) + 1] = x
         /\ \A i \in 1 .. Len(toApp[j]) : i \in 1 .. Len(toApp'[j]) /\ toApp'[j][i] = toApp[j][i]
<1>1. toApp[j] \in Seq(Segment) /\ toApp'[j] = Append(toApp[j], x)
  BY Zenon DEF TypeOK, Writes
<1>2. \A k \in Key : k # j => toApp'[k] = toApp[k]
  BY Zenon DEF TypeOK, Writes
<1>3. Elems(toApp'[j]) = Elems(toApp[j]) \cup {x}
  BY <1>1, QueueElems
<1> QED
  BY <1>1, <1>2, <1>3

\* What is written behind the rest keeps every promise, if the socket of a new
\* SYN|ACK stays and the peer of a socket that goes gets a RST.
LEMMA WrittenTold ==
  ASSUME TypeOK, Wire, NEW j \in Key, NEW x \in Segment, Writes(j, x), UNCHANGED <<client, pc>>,
         \A k \in Key : \A c, s : Serving(k, c, s) =>
           Serving(k, c, s)' \/ (k = j /\ x.f = "RST" /\ x.c = c /\ x.s = s),
         x.f = "SYNACK" => Serving(j, x.c, x.s)'
  PROVE  Told'
<1> DEFINE n == Len(toApp[j])
<1>1. /\ Len(toApp'[j]) = n + 1 /\ n \in Nat /\ toApp'[j][n + 1] = x
      /\ \A i \in 1 .. n : i \in 1 .. Len(toApp'[j]) /\ toApp'[j][i] = toApp[j][i]
      /\ \A k \in Key : k # j => toApp'[k] = toApp[k]
  BY WrittenQueues, Zenon
<1> HIDE DEF n
<1>2. \A i \in 1 .. Len(toApp'[j]) : i \in 1 .. n \/ i = n + 1
  BY <1>1
<1>3. ASSUME NEW k \in Key, NEW c, NEW s, NEW i, ResetBehind(k, c, s, i)
      PROVE  ResetBehind(k, c, s, i)'
  <2>1. PICK m \in 1 .. Len(toApp[k]) : /\ m > i /\ toApp[k][m].f = "RST"
                                        /\ toApp[k][m].c = c /\ toApp[k][m].s = s
    BY <1>3, Zenon DEF ResetBehind
  <2>2. m \in 1 .. Len(toApp'[k]) /\ toApp'[k][m] = toApp[k][m]
    BY <1>1, <2>1, Zenon DEF n
  <2> QED
    BY <2>1, <2>2, Zenon DEF ResetBehind
<1>4. ASSUME NEW k \in Key, NEW c, NEW s, NEW i \in 0 .. Len(toApp[k]), Serving(k, c, s)
      PROVE  Serving(k, c, s)' \/ ResetBehind(k, c, s, i)'
  <2>1. CASE k = j /\ x.f = "RST" /\ x.c = c /\ x.s = s
    <3>1. n + 1 \in 1 .. Len(toApp'[j]) /\ n + 1 > i
      BY <1>1, <1>4, <2>1 DEF n
    <3> QED
      BY <1>1, <2>1, <3>1, Zenon DEF ResetBehind
  <2> QED
    BY <1>4, <2>1
<1>5. SUFFICES ASSUME pc # "stopped", NEW k \in Key, NEW c, NEW s, client[k].c = c
               PROVE  /\ client[k].st \in {"estab", "finwait"} /\ client[k].s = s =>
                           Serving(k, c, s)' \/ ResetBehind(k, c, s, 0)'
                      /\ client[k].st = "synsent" => \A i \in 1 .. Len(toApp'[k]) :
                           toApp'[k][i].f = "SYNACK" /\ toApp'[k][i].c = c /\ toApp'[k][i].s = s =>
                             Serving(k, c, s)' \/ ResetBehind(k, c, s, i)'
  BY Zenon DEF Told
<1>6. Len(toApp[k]) \in Nat
  BY DEF TypeOK
<1>7. CASE client[k].st \in {"estab", "finwait"} /\ client[k].s = s
  <2>1. Serving(k, c, s) \/ ResetBehind(k, c, s, 0)
    BY <1>5, <1>7, Zenon DEF Wire, Told
  <2>2. 0 \in 0 .. Len(toApp[k])
    BY <1>6
  <2> QED
    BY <1>3, <1>4, <1>7, <2>1, <2>2, Zenon
<1>8. ASSUME client[k].st = "synsent", NEW i \in 1 .. Len(toApp'[k]),
             toApp'[k][i].f = "SYNACK", toApp'[k][i].c = c, toApp'[k][i].s = s
      PROVE  Serving(k, c, s)' \/ ResetBehind(k, c, s, i)'
  <2>1. CASE i \in 1 .. Len(toApp[k]) /\ toApp'[k][i] = toApp[k][i]
    <3>1. Serving(k, c, s) \/ ResetBehind(k, c, s, i)
      BY <1>5, <1>8, <2>1, Zenon DEF Wire, Told
    <3>2. i \in 0 .. Len(toApp[k])
      BY <1>6, <2>1
    <3> QED
      BY <1>3, <1>4, <3>1, <3>2, Zenon
  <2>2. CASE k = j /\ i = n + 1
    BY <1>1, <1>8, <2>2, Zenon
  <2> QED
    BY <1>1, <1>2, <2>1, <2>2, Zenon DEF n
<1> QED
  BY <1>7, <1>8, Zenon

\* What a segment does to the connection of the socket that accepts it.
LEMMA ReceivedConnection ==
  ASSUME NEW sock, Shape(sock), NEW p \in Segment, Accepts(sock, p), NEW i \in Nat
  PROVE  LET after == Received(sock, p, i)
         IN  /\ \/ /\ sock.state = "Listen" /\ after.tuple = p.k /\ after.c = p.c /\ after.s = i
                \/ /\ sock.state # "Listen"
                   /\ after.tuple = sock.tuple /\ after.c = sock.c /\ after.s = sock.s
                \/ /\ sock.state # "Listen" /\ after.tuple = NoKey
                   /\ p.f = "RST" /\ sock.tuple = p.k /\ sock.c = p.c /\ sock.s = p.s
             /\ after.state \in {"Free", "Listen"} => after.tuple = NoKey
             /\ sock.state # "Closed"
<1> DEFINE after == Received(sock, p, i)
<1>0. /\ sock.state \in HasPeer \cup {"Listen"} /\ sock \in Socket
      /\ sock.state \in HasPeer => sock.tuple \in Key /\ sock.tuple = p.k
  BY KeyAssumption, Zenon DEF Accepts, Shape, Socket, SocketState, HasPeer
<1>1. CASE /\ sock.state = "Listen"
           /\ after = [sock EXCEPT !.state = "SynReceived", !.tuple = p.k, !.c = p.c, !.s = i, !.syn = TRUE]
  BY <1>0, <1>1 DEF Socket
<1>2. CASE sock.state # "Listen" /\ after = sock
  BY <1>0, <1>2, Zenon DEF HasPeer
<1>3. CASE sock.state # "Listen" /\ p.f = "RST" /\ p.c = sock.c /\ p.s = sock.s /\ after = ListenOn(sock.port)
  BY <1>0, <1>3 DEF HasPeer, ListenOn, FreeSlot
<1>4. CASE /\ sock.state # "Listen" /\ p.f = "RST" /\ p.c = sock.c /\ p.s = sock.s
           /\ after = [sock EXCEPT !.state = "Closed", !.tuple = NoKey]
  BY <1>0, <1>4 DEF HasPeer, Socket
<1>5. CASE sock.state # "Listen" /\ after = [sock EXCEPT !.state = "Established", !.syn = FALSE]
  BY <1>0, <1>5 DEF HasPeer, Socket
<1>6. CASE /\ sock.state # "Listen"
           /\ after = [sock EXCEPT !.state = "CloseWait", !.syn = FALSE, !.rx = (p.f = "DATAFIN")]
  BY <1>0, <1>6 DEF HasPeer, Socket
<1>7. \/ /\ sock.state = "Listen"
         /\ after = [sock EXCEPT !.state = "SynReceived", !.tuple = p.k, !.c = p.c, !.s = i, !.syn = TRUE]
      \/ sock.state # "Listen" /\ after = sock
      \/ sock.state # "Listen" /\ p.f = "RST" /\ p.c = sock.c /\ p.s = sock.s /\ after = ListenOn(sock.port)
      \/ /\ sock.state # "Listen" /\ p.f = "RST" /\ p.c = sock.c /\ p.s = sock.s
         /\ after = [sock EXCEPT !.state = "Closed", !.tuple = NoKey]
      \/ sock.state # "Listen" /\ after = [sock EXCEPT !.state = "Established", !.syn = FALSE]
      \/ /\ sock.state # "Listen"
         /\ after = [sock EXCEPT !.state = "CloseWait", !.syn = FALSE, !.rx = (p.f = "DATAFIN")]
  BY Zenon DEF Received
<1> QED
  BY <1>1, <1>2, <1>3, <1>4, <1>5, <1>6, <1>7, Zenon

\* A socket takes the segment: a listener gets the connection under a number of
\* its own, and a RST ends a connection whose client is gone.
Takes(h, p) ==
  /\ sockets' = [sockets EXCEPT ![h] = Received(sockets[h], p, isn + 1)]
  /\ isn' = IF sockets[h].state = "Listen" THEN isn + 1 ELSE isn

LEMMA TakenWire ==
  ASSUME TypeOK, Tables, Wire, NEW p \in Segment, p \in Carried, NEW h \in Handle,
         Accepts(sockets[h], p), Takes(h, p), Carried' \subseteq Carried,
         UNCHANGED <<client, toApp, pc, states, tasks>>
  PROVE  Wire'
<1> DEFINE i == isn + 1
           after == sockets'[h]
<1>1. isn \in Nat /\ i \in Nat \ {0} /\ sockets \in [Handle -> Socket] /\ Shape(sockets[h]) /\ p.k \in Key
  BY DEF TypeOK, Tables, Shapes, Segment
<1>2. /\ after = Received(sockets[h], p, i)
      /\ \A g \in Handle : g # h => sockets'[g] = sockets[g]
      /\ isn' = IF sockets[h].state = "Listen" THEN i ELSE isn
  BY <1>1, Zenon DEF Takes
<1> HIDE DEF i
<1>3. /\ \/ /\ sockets[h].state = "Listen" /\ after.tuple = p.k /\ after.c = p.c /\ after.s = i
         \/ /\ sockets[h].state # "Listen" /\ after.tuple = sockets[h].tuple
            /\ after.c = sockets[h].c /\ after.s = sockets[h].s
         \/ /\ sockets[h].state # "Listen" /\ after.tuple = NoKey /\ p.f = "RST"
            /\ sockets[h].tuple = p.k /\ sockets[h].c = p.c /\ sockets[h].s = p.s
      /\ after.state \in {"Free", "Listen"} => after.tuple = NoKey
      /\ sockets[h].state # "Closed"
  BY <1>1, <1>2, ReceivedConnection
<1> HIDE DEF after
<1>4. \A g \in Handle : \/ g # h /\ sockets'[g] = sockets[g]
                        \/ g = h /\ sockets'[g] = after
  BY <1>2, Zenon DEF after
<1>5. \A g \in Handle : sockets'[g].tuple # NoKey =>
        \/ /\ sockets'[g].tuple = sockets[g].tuple /\ sockets'[g].c = sockets[g].c
           /\ sockets'[g].s = sockets[g].s
        \/ /\ sockets'[g].tuple = p.k /\ sockets'[g].c = p.c /\ sockets'[g].s = i /\ isn' = i
  BY <1>2, <1>3, <1>4, Zenon
<1>6. Idle'
  BY <1>3, <1>4, Zenon DEF Wire, Idle
<1>7. Numbered'
  <2>1. \A g \in Handle : sockets'[g].tuple # NoKey => sockets'[g].s # 0
    BY <1>1, <1>5, Zenon DEF Wire, Numbered
  <2>2. \A k \in Key, s \in Nat \ {0} :
          Uses(k, s)' => Uses(k, s) \/ (k = p.k /\ s = i /\ isn' = i)
    BY <1>5, KeyAssumption DEF Uses
  <2>3. isn' \in {isn, isn + 1} /\ Numbered
    BY <1>2, Zenon DEF Wire, i
  <2> QED
    BY <1>1, <2>1, <2>2, <2>3, NumberedStep, Zenon DEF i
<1>8. Attempts'
  <2>1. p.c <= client[p.k].c
    BY Zenon DEF Wire, Attempts
  <2>2. \A g \in Handle : sockets'[g].tuple # NoKey => sockets'[g].c <= client[sockets'[g].tuple].c
    BY <1>5, <2>1, Zenon DEF Wire, Attempts
  <2> QED
    BY <2>2, Zenon DEF Wire, Attempts
<1>9. ResetsGone'
  BY Zenon DEF Wire, ResetsGone
<1>10. Told'
  <2>1. ASSUME NEW k \in Key, NEW c, NEW s, Serving(k, c, s), ~Serving(k, c, s)'
        PROVE  client[k].c = c => client[k].st = "closed"
    <3>1. PICK g \in Handle : sockets[g].tuple = k /\ sockets[g].c = c /\ sockets[g].s = s
      BY <2>1, Zenon DEF Serving
    <3>2. ~(sockets'[g].tuple = k /\ sockets'[g].c = c /\ sockets'[g].s = s)
      BY <2>1, Zenon DEF Serving
    <3>3. k # NoKey
      BY KeyAssumption
    <3>4. p.f = "RST" /\ p.k = k /\ p.c = c
      BY <1>3, <1>4, <3>1, <3>2, <3>3, Zenon DEF Wire, Idle
    <3> QED
      BY <3>4, Zenon DEF Wire, ResetsGone
  <2> QED
    BY <2>1, ToldKept, Zenon DEF Wire
<1> QED
  BY <1>6, <1>7, <1>8, <1>9, <1>10 DEF Wire

\* Nobody accepts the segment: its sender gets a RST.
LEMMA RefusedWire ==
  ASSUME TypeOK, Wire, NEW p \in Segment, p \in Carried, Carried' \subseteq Carried,
         Writes(p.k, ResetReply(p)), UNCHANGED <<client, pc, sockets, isn, states, tasks>>
  PROVE  Wire'
<1>1. /\ p.k \in Key /\ ResetReply(p) \in Segment
      /\ ResetReply(p).f = "RST" /\ ResetReply(p).c = p.c /\ ResetReply(p).s = p.s
  BY Zenon DEF ResetReply, Segment, Flag
<1>2. \A k \in Key : \A q \in Elems(toApp'[k]) :
        q \in Elems(toApp[k]) \/ (k = p.k /\ q = ResetReply(p))
  BY <1>1, WrittenQueues
<1>3. Idle' /\ ResetsGone'
  BY Zenon DEF Wire, Idle, ResetsGone
<1>4. Numbered'
  <2>1. \A k \in Key, s \in Nat \ {0} : Uses(k, s)' => Uses(k, s)
    BY <1>1, <1>2 DEF Uses
  <2>2. isn \in Nat /\ Numbered /\ \A h \in Handle : sockets[h].tuple # NoKey => sockets[h].s # 0
    BY Zenon DEF Wire, Numbered, TypeOK
  <2> QED
    BY <1>1, <2>1, <2>2, NumberedStep, Zenon
<1>5. Attempts'
  BY <1>1, <1>2, Zenon DEF Wire, Attempts
<1>6. Told'
  <2>1. \A k, c, s : Serving(k, c, s)' <=> Serving(k, c, s)
    BY DEF Serving
  <2> QED
    BY <1>1, <2>1, WrittenTold, Zenon
<1> QED
  BY <1>3, <1>4, <1>5, <1>6 DEF Wire

LEMMA IngressWire ==
  ASSUME TypeOK, Tables, Wire, Ingress
  PROVE  Wire'
<1> DEFINE p == Head(rx_queue)
<1>1. /\ rx_queue \in Seq(Segment) /\ rx_queue # <<>> /\ rx_queue' = Tail(rx_queue)
      /\ UNCHANGED <<client, tun, pc, outboundVars>>
  BY Zenon DEF Ingress, TypeOK
<1>2. p \in Segment /\ p \in Carried /\ Carried' \subseteq Carried
  BY <1>1, QueueElems DEF Carried
<1>3. \/ \E h \in Handle : IsFirst(h, Accepting(p)) /\ Takes(h, p) /\ UNCHANGED toApp
      \/ Writes(p.k, ResetReply(p)) /\ UNCHANGED <<sockets, isn>>
      \/ UNCHANGED <<toApp, sockets, isn>>
  BY Zenon DEF Ingress, Writes, Takes
<1> HIDE DEF p
<1>4. ASSUME NEW h \in Handle, IsFirst(h, Accepting(p)), Takes(h, p), UNCHANGED toApp
      PROVE  Wire'
  <2>1. Accepts(sockets[h], p)
    BY <1>4 DEF IsFirst, Accepting
  <2> QED
    BY <1>1, <1>2, <1>4, <2>1, TakenWire DEF outboundVars
<1>5. CASE Writes(p.k, ResetReply(p)) /\ UNCHANGED <<sockets, isn>>
  BY <1>1, <1>2, <1>5, RefusedWire DEF outboundVars
<1>6. CASE UNCHANGED <<toApp, sockets, isn>>
  <2>1. Idle' /\ \A h \in Handle : Keeps(h)
    BY <1>1, <1>6, Zenon DEF Wire, Idle, Keeps, outboundVars
  <2> QED
    BY <1>1, <1>2, <1>6, <2>1, QuietStep, QuietTold, Zenon DEF Wire, outboundVars
<1> QED
  BY <1>3, <1>4, <1>5, <1>6

\* Egress: the SYN|ACK of a socket that stays, or the RST of one that goes.
LEMMA EgressWire ==
  ASSUME TypeOK, Tables, Wire, Egress
  PROVE  Wire'
<1>1. UNCHANGED <<client, tun, pc, rx_queue, isn, states, tasks>> /\ Carried' = Carried
  BY Zenon DEF Egress, outboundVars, Carried
<1>2. PICK h \in Handle :
        /\ HasEgress(sockets[h]) /\ Writes(sockets[h].tuple, Emitted(sockets[h]))
        /\ sockets' = [sockets EXCEPT ![h] = AfterEgress(@)]
  <2>1. PICK h \in Handle :
          /\ IsFirst(h, Sending) /\ sockets' = [sockets EXCEPT ![h] = AfterEgress(@)]
          /\ toApp' = [toApp EXCEPT ![sockets[h].tuple] = Append(@, Emitted(sockets[h]))]
    BY Zenon DEF Egress
  <2>2. HasEgress(sockets[h])
    BY <2>1, Zenon DEF IsFirst, Sending
  <2>3. Writes(sockets[h].tuple, Emitted(sockets[h]))
    BY <2>1, Zenon DEF Writes
  <2> QED
    BY <2>1, <2>2, <2>3, Zenon
<1>3. Shape(sockets[h]) /\ sockets \in [Handle -> Socket]
  BY Zenon DEF Tables, Shapes, TypeOK
<1>4. PICK x \in Segment, k \in Key :
        /\ x = Emitted(sockets[h]) /\ k = sockets[h].tuple
        /\ x.c = sockets[h].c /\ x.s = sockets[h].s /\ x.f \in {"SYNACK", "RST"}
  <2> DEFINE x == Emitted(sockets[h])
  <2>1. x \in Segment
    BY <1>2, <1>3, EgressShape
  <2>2. /\ x.k = sockets[h].tuple /\ x.c = sockets[h].c /\ x.s = sockets[h].s
        /\ x.f \in {"SYNACK", "RST"}
    BY Zenon DEF Emitted
  <2> HIDE DEF x
  <2>3. x.k \in Key
    BY <2>1 DEF Segment
  <2> QED
    BY <2>1, <2>2, <2>3, Zenon DEF x
<1>5. /\ x.f = "SYNACK" => Keeps(h)
      /\ x.f = "RST" => Loses(h)
      /\ sockets'[h].state = sockets[h].state
      /\ \A g \in Handle : g # h => sockets'[g] = sockets[g]
  BY <1>2, <1>3, <1>4, Zenon DEF Emitted, AfterEgress, Keeps, Loses, Shape, Socket
<1>6. Writes(k, x)
  BY <1>2, <1>4, Zenon
<1>7. \A g \in Handle : sockets'[g].tuple # NoKey =>
        /\ sockets'[g].tuple = sockets[g].tuple /\ sockets'[g].c = sockets[g].c
        /\ sockets'[g].s = sockets[g].s
  BY <1>4, <1>5, Zenon DEF Keeps, Loses
<1>8. \A j \in Key : \A q \in Elems(toApp'[j]) : q \in Elems(toApp[j]) \/ (j = k /\ q = x)
  BY <1>4, <1>6, WrittenQueues
<1>9. Idle'
  BY <1>1, <1>4, <1>5 DEF Wire, Idle, Keeps, Loses
<1>10. Numbered'
  <2>1. \A j \in Key, s \in Nat \ {0} : Uses(j, s)' => Uses(j, s)
    BY <1>1, <1>4, <1>7, <1>8, KeyAssumption DEF Uses
  <2>2. Numbered /\ \A g \in Handle : sockets'[g].tuple # NoKey => sockets'[g].s # 0
    BY <1>7, Zenon DEF Wire, Numbered
  <2>3. isn \in Nat
    BY DEF TypeOK
  <2> QED
    BY <1>1, <1>4, <2>1, <2>2, <2>3, NumberedStep, Zenon
<1>11. Attempts' /\ ResetsGone'
  <2>1. Attempts'
    BY <1>1, <1>4, <1>7, <1>8, KeyAssumption DEF Wire, Attempts
  <2>2. ResetsGone'
    BY <1>1, <1>4, <1>8, KeyAssumption DEF Wire, ResetsGone
  <2> QED
    BY <2>1, <2>2
<1>12. Told'
  <2>1. \A j \in Key : \A c, s : Serving(j, c, s) =>
          Serving(j, c, s)' \/ (j = k /\ x.f = "RST" /\ x.c = c /\ x.s = s)
    BY <1>4, <1>5, KeyAssumption DEF Serving, Keeps
  <2>2. x.f = "SYNACK" => Serving(k, x.c, x.s)'
    BY <1>4, <1>5, KeyAssumption, Zenon DEF Serving, Keeps
  <2> QED
    BY <1>1, <1>4, <1>6, <2>1, <2>2, WrittenTold
<1> QED
  BY <1>9, <1>10, <1>11, <1>12 DEF Wire

-----------------------------------------------------------------------------
(* The clients.                                                            *)

\* The client of k acts: what it sends belongs to its own attempts, it uses the
\* numbers it has heard, and it forgets no attempt.
Acts(k) ==
  /\ UNCHANGED <<pc, rx_queue, sockets, isn, states, tasks>>
  /\ \A j \in Key : j # k => client'[j] = client[j] /\ toApp'[j] = toApp[j]
  /\ client'[k].c \in Nat /\ client[k].c <= client'[k].c
  /\ client'[k].c = client[k].c /\ client[k].st = "closed" => client'[k].st = "closed"
  /\ client'[k].s # 0 => Uses(k, client'[k].s)
  /\ Elems(toApp'[k]) \subseteq Elems(toApp[k])
  /\ \A p \in Carried' : \/ p \in Carried
                         \/ /\ p.k = k /\ p.c <= client'[k].c
                            /\ p.s # 0 => Uses(k, p.s)
                            /\ p.f = "RST" /\ p.c = client'[k].c => client'[k].st = "closed"

LEMMA ActsNumbers ==
  ASSUME TypeOK, Wire, NEW k \in Key, Acts(k)
  PROVE  Idle' /\ Numbered' /\ Attempts' /\ ResetsGone'
<1>1. Idle'
  BY Zenon DEF Wire, Idle, Acts
<1>2. Numbered'
  <2>1. ASSUME NEW j \in Key, NEW s \in Nat \ {0}, Uses(j, s)' PROVE Uses(j, s)
    <3>1. s # 0
      OBVIOUS
    <3>2. ASSUME NEW p \in Carried', p.k = j, p.s = s PROVE Uses(j, s)
      <4>1. CASE p \in Carried
        BY <3>2, <4>1, Zenon DEF Uses
      <4> QED
        BY <3>1, <3>2, <4>1, Zenon DEF Acts
    <3>3. ASSUME NEW p \in Elems(toApp'[j]), p.s = s PROVE Uses(j, s)
      <4>1. p \in Elems(toApp[j])
        BY Zenon DEF Acts
      <4> QED
        BY <3>3, <4>1, Zenon DEF Uses
    <3>4. ASSUME client'[j].s = s PROVE Uses(j, s)
      <4>1. CASE j = k
        BY <3>1, <3>4, <4>1, Zenon DEF Acts
      <4>2. CASE j # k
        <5>1. client'[j] = client[j]
          BY <4>2, Zenon DEF Acts
        <5> QED
          BY <3>4, <5>1, Zenon DEF Uses
      <4> QED
        BY <4>1, <4>2, Zenon
    <3>5. ASSUME NEW h \in Handle, sockets'[h].tuple = j, sockets'[h].s = s PROVE Uses(j, s)
      <4>1. sockets' = sockets
        BY Zenon DEF Acts
      <4> QED
        BY <3>5, <4>1, Zenon DEF Uses
    <3> QED
      BY <2>1, <3>2, <3>3, <3>4, <3>5, Zenon DEF Uses
  <2>2. /\ isn' = isn /\ isn \in Nat /\ Numbered /\ tasks' = tasks
        /\ \A h \in Handle : sockets'[h].tuple # NoKey => sockets'[h].s # 0
    BY Zenon DEF Wire, Numbered, TypeOK, Acts
  <2> QED
    BY <2>1, <2>2, NumberedStep, Zenon
<1>3. /\ \A j \in Key : client[j].c \in Nat /\ client'[j].c \in Nat /\ client[j].c <= client'[j].c
      /\ \A p \in Carried : p \in Segment
      /\ \A j \in Key : \A p \in Elems(toApp[j]) : p \in Segment
  <2>1. \A j \in Key : client[j].c \in Nat /\ toApp[j] \in Seq(Segment)
    BY Zenon DEF TypeOK, ClientType
  <2>2. tun \in Seq(Segment) /\ rx_queue \in Seq(Segment)
    BY DEF TypeOK
  <2>3. \A p \in Carried : p \in Segment
    BY <2>2, QueueElems, Zenon DEF Carried
  <2>4. \A j \in Key : \A p \in Elems(toApp[j]) : p \in Segment
    BY <2>1, QueueElems, Zenon
  <2>5. \A j \in Key : client'[j].c \in Nat /\ client[j].c <= client'[j].c
    <3>1. \A n \in Nat : n <= n
      OBVIOUS
    <3> QED
      BY <2>1, <3>1, Zenon DEF Acts
  <2> QED
    BY <2>1, <2>3, <2>4, <2>5, Zenon
<1>4. Attempts'
  <2>0. \A n \in Nat : \A j \in Key : n <= client[j].c => n <= client'[j].c
    BY <1>3
  <2>1. ASSUME NEW h \in Handle, sockets'[h].tuple # NoKey
        PROVE  sockets'[h].c <= client'[sockets'[h].tuple].c
    <3>1. sockets'[h] = sockets[h] /\ sockets[h].tuple \in Key /\ sockets[h].c \in Nat
      BY <2>1, Zenon DEF Acts, TypeOK, Socket
    <3>2. sockets[h].c <= client[sockets[h].tuple].c
      BY <2>1, <3>1, Zenon DEF Wire, Attempts
    <3> QED
      BY <2>0, <3>1, <3>2, Zenon
  <2>2. ASSUME NEW p \in Carried' PROVE p.c <= client'[p.k].c
    <3>1. CASE p \in Carried
      <4>1. p.c \in Nat /\ p.k \in Key /\ p.c <= client[p.k].c
        BY <1>3, <3>1, Zenon DEF Segment, Wire, Attempts
      <4> QED
        BY <2>0, <4>1, Zenon
    <3> QED
      BY <2>2, <3>1, Zenon DEF Acts
  <2>3. ASSUME NEW j \in Key, NEW p \in Elems(toApp'[j]) PROVE p.c <= client'[j].c
    <3>1. p \in Elems(toApp[j])
      BY Zenon DEF Acts
    <3>2. p.c \in Nat /\ p.c <= client[j].c
      BY <1>3, <3>1, Zenon DEF Segment, Wire, Attempts
    <3> QED
      BY <2>0, <3>2, Zenon
  <2> QED
    BY <2>1, <2>2, <2>3, Zenon DEF Attempts
<1>5. ResetsGone'
  <2> SUFFICES ASSUME NEW p \in Carried', p.f = "RST", client'[p.k].c = p.c
               PROVE  client'[p.k].st = "closed"
    BY Zenon DEF ResetsGone
  <2>1. CASE p \in Carried
    <3>1. p.k \in Key /\ p.c <= client[p.k].c /\ client[p.k].c <= client'[p.k].c
      BY <1>3, <2>1, Zenon DEF Segment, Wire, Attempts
    <3>2. client[p.k].c = p.c /\ client'[p.k].c = client[p.k].c
      <4>1. p.c \in Nat /\ client[p.k].c \in Nat /\ client'[p.k].c \in Nat
        BY <1>3, <2>1, <3>1, Zenon DEF Segment
      <4>2. \A a, b, c \in Nat : a <= b /\ b <= c /\ c = a => b = a /\ c = b
        OBVIOUS
      <4> QED
        BY <3>1, <4>1, <4>2, Zenon
    <3>3. client[p.k].st = "closed"
      BY <2>1, <3>2, Zenon DEF Wire, ResetsGone
    <3> QED
      BY <3>1, <3>2, <3>3, Zenon DEF Acts
  <2> QED
    BY <2>1, Zenon DEF Acts
<1> QED
  BY <1>1, <1>2, <1>4, <1>5

\* A client that sends x, or nothing, reads nothing: it keeps what it has been
\* told, unless it is closed or begins an attempt.
LEMMA ActsTold ==
  ASSUME TypeOK, Wire, NEW k \in Key, Acts(k), toApp' = toApp,
         \/ client'[k].st = "closed"
         \/ client'[k].st = "synsent" /\ client'[k].c = client[k].c + 1
         \/ client'[k].st = "synsent" /\ client[k].st = "synsent" /\ client'[k].c = client[k].c
         \/ /\ client'[k].st = "finwait" /\ client[k].st = "estab"
            /\ client'[k].c = client[k].c /\ client'[k].s = client[k].s
  PROVE  Told'
<1>1. \A j \in Key : \A c, s : Serving(j, c, s)' <=> Serving(j, c, s)
  BY Zenon DEF Serving, Acts
<1>2. \A j, c, s, i : ResetBehind(j, c, s, i)' <=> ResetBehind(j, c, s, i)
  BY DEF ResetBehind
<1>3. \A i \in 1 .. Len(toApp[k]) : toApp[k][i].c # client[k].c + 1
  <2>1. \A i \in 1 .. Len(toApp[k]) : toApp[k][i].c <= client[k].c
    BY Zenon DEF Wire, Attempts, Elems
  <2>2. client[k].c \in Nat /\ toApp[k] \in Seq(Segment)
    BY Zenon DEF TypeOK, ClientType
  <2>3. \A p \in Elems(toApp[k]) : p.c \in Nat
    <3>1. \A p \in Elems(toApp[k]) : p \in Segment
      BY <2>2, QueueElems, Zenon
    <3> QED
      BY <3>1, Zenon DEF Segment
  <2>4. \A i \in 1 .. Len(toApp[k]) : toApp[k][i].c \in Nat
    BY <2>3, Zenon DEF Elems
  <2>5. \A m, n \in Nat : m <= n => m # n + 1
    OBVIOUS
  <2> QED
    BY <2>1, <2>2, <2>4, <2>5, Zenon
<1>4. pc' = pc /\ \A j \in Key : j # k => client'[j] = client[j]
  BY Zenon DEF Acts
<1>5. SUFFICES ASSUME pc # "stopped", NEW j \in Key, NEW c, NEW s, client'[j].c = c
               PROVE  /\ client'[j].st \in {"estab", "finwait"} /\ client'[j].s = s =>
                           Serving(j, c, s)' \/ ResetBehind(j, c, s, 0)'
                      /\ client'[j].st = "synsent" => \A i \in 1 .. Len(toApp'[j]) :
                           toApp'[j][i].f = "SYNACK" /\ toApp'[j][i].c = c /\ toApp'[j][i].s = s =>
                             Serving(j, c, s)' \/ ResetBehind(j, c, s, i)'
  BY <1>4, Zenon DEF Told
<1>6. CASE client'[j].c = client[j].c
  <2>1. \/ client'[j].st = "closed"
        \/ client'[j].st = "synsent" /\ client[j].st = "synsent"
        \/ /\ client[j].st \in {"estab", "finwait"} /\ client'[j].st \in {"estab", "finwait"}
           /\ client'[j].s = client[j].s
        \/ client'[j] = client[j]
    <3>1. client[k].c \in Nat
      BY Zenon DEF TypeOK, ClientType
    <3>2. client[k].c + 1 # client[k].c
      BY <3>1
    <3> QED
      BY <1>4, <1>6, <3>2, Zenon
  <2> QED
    BY <1>1, <1>2, <1>5, <1>6, <2>1, Zenon DEF Wire, Told
<1>7. CASE client'[j].c # client[j].c
  BY <1>3, <1>4, <1>5, <1>7, Zenon
<1> QED
  BY <1>6, <1>7, Zenon

\* The client of k sends x.
LEMMA SentCarried ==
  ASSUME TypeOK, NEW x \in Segment, Send(x), rx_queue' = rx_queue
  PROVE  \A p \in Carried' : p \in Carried \/ p = x
BY QueueElems DEF TypeOK, Send, Carried

LEMMA ClientRecord ==
  ASSUME TypeOK, NEW k \in Key
  PROVE  /\ client \in [Key -> ClientType] /\ client[k] \in ClientType
         /\ client[k].c \in Nat /\ client[k].s \in Nat
         /\ client[k].s # 0 => Uses(k, client[k].s)
         /\ \A f \in Flag : Seg(k, f) \in Segment /\ Seg(k, f).k = k /\ Seg(k, f).f = f
                            /\ Seg(k, f).c = client[k].c /\ Seg(k, f).s = client[k].s
BY Zenon DEF TypeOK, ClientType, Uses, Seg, Segment, Flag

LEMMA ConnectWire ==
  ASSUME TypeOK, Wire, NEW k \in Key, Connect(k)
  PROVE  Wire'
<1> DEFINE x == [k |-> k, f |-> "SYN", c |-> client[k].c + 1, s |-> 0]
<1>1. /\ UNCHANGED <<toApp, pc, rx_queue, sockets, isn, states, tasks>> /\ Send(x)
      /\ client' = [client EXCEPT ![k] = [st |-> "synsent", c |-> client[k].c + 1, s |-> 0, syns |-> 1]]
  BY Zenon DEF Connect, outboundVars
<1>2. /\ x \in Segment /\ x.k = k /\ x.f = "SYN" /\ x.c = client[k].c + 1 /\ x.s = 0
      /\ client[k].c \in Nat
  BY ClientRecord DEF Segment, Flag
<1> HIDE DEF x
<1>3. /\ \A j \in Key : j # k => client'[j] = client[j]
      /\ client'[k].st = "synsent" /\ client'[k].c = client[k].c + 1 /\ client'[k].s = 0
  BY <1>1, ClientRecord
<1>4. \A p \in Carried' : p \in Carried \/ p = x
  BY <1>1, <1>2, SentCarried, Zenon
<1>5. Acts(k)
  BY <1>1, <1>2, <1>3, <1>4 DEF Acts
<1> QED
  BY <1>1, <1>3, <1>5, ActsNumbers, ActsTold, Zenon DEF Wire

LEMMA RetransmitSynWire ==
  ASSUME TypeOK, Wire, NEW k \in Key, RetransmitSyn(k)
  PROVE  Wire'
<1>1. /\ UNCHANGED <<toApp, pc, rx_queue, sockets, isn, states, tasks>> /\ Send(Seg(k, "SYN"))
      /\ client' = [client EXCEPT ![k].syns = @ + 1] /\ client[k].st = "synsent"
  BY DEF RetransmitSyn, outboundVars
<1>2. /\ \A j \in Key : j # k => client'[j] = client[j]
      /\ client'[k].st = client[k].st /\ client'[k].c = client[k].c /\ client'[k].s = client[k].s
  BY <1>1, ClientRecord DEF ClientType
<1>3. PICK x \in Segment : x = Seg(k, "SYN") /\ x.k = k /\ x.f = "SYN" /\ x.c = client[k].c /\ x.s = client[k].s
  BY ClientRecord DEF Flag
<1>4. \A p \in Carried' : p \in Carried \/ p = x
  BY <1>1, <1>3, SentCarried
<1>5. Acts(k)
  BY <1>1, <1>2, <1>3, <1>4, ClientRecord DEF Acts
<1> QED
  BY <1>1, <1>2, <1>5, ActsNumbers, ActsTold, Zenon DEF Wire

LEMMA CancelWire ==
  ASSUME TypeOK, Wire, NEW k \in Key, Cancel(k)
  PROVE  Wire'
<1>1. /\ UNCHANGED <<toApp, tun, pc, rx_queue, sockets, isn, states, tasks>>
      /\ client' = [client EXCEPT ![k].st = "closed"]
  BY DEF Cancel, outboundVars
<1>2. /\ \A j \in Key : j # k => client'[j] = client[j]
      /\ client'[k].st = "closed" /\ client'[k].c = client[k].c /\ client'[k].s = client[k].s
  BY <1>1, ClientRecord DEF ClientType
<1>3. Carried' = Carried
  BY <1>1 DEF Carried
<1>4. Acts(k)
  BY <1>1, <1>2, <1>3, ClientRecord DEF Acts
<1> QED
  BY <1>1, <1>2, <1>4, ActsNumbers, ActsTold, Zenon DEF Wire

LEMMA HalfCloseWire ==
  ASSUME TypeOK, Wire, NEW k \in Key, HalfClose(k)
  PROVE  Wire'
<1>1. PICK f \in {"FIN", "DATAFIN"} :
        /\ UNCHANGED <<toApp, pc, rx_queue, sockets, isn, states, tasks>> /\ Send(Seg(k, f))
        /\ client' = [client EXCEPT ![k].st = "finwait"] /\ client[k].st = "estab"
  BY DEF HalfClose, outboundVars
<1>2. /\ \A j \in Key : j # k => client'[j] = client[j]
      /\ client'[k].st = "finwait" /\ client'[k].c = client[k].c /\ client'[k].s = client[k].s
  BY <1>1, ClientRecord DEF ClientType
<1>3. PICK x \in Segment : x = Seg(k, f) /\ x.k = k /\ x.f # "RST" /\ x.c = client[k].c /\ x.s = client[k].s
  BY ClientRecord DEF Flag
<1>4. \A p \in Carried' : p \in Carried \/ p = x
  BY <1>1, <1>3, SentCarried
<1>5. Acts(k)
  BY <1>1, <1>2, <1>3, <1>4, ClientRecord DEF Acts
<1> QED
  BY <1>1, <1>2, <1>5, ActsNumbers, ActsTold, Zenon DEF Wire

LEMMA ResetWire ==
  ASSUME TypeOK, Wire, NEW k \in Key, Reset(k)
  PROVE  Wire'
<1>1. /\ UNCHANGED <<toApp, pc, rx_queue, sockets, isn, states, tasks>> /\ Send(Seg(k, "RST"))
      /\ client' = [client EXCEPT ![k].st = "closed"]
  BY DEF Reset, outboundVars
<1>2. /\ \A j \in Key : j # k => client'[j] = client[j]
      /\ client'[k].st = "closed" /\ client'[k].c = client[k].c /\ client'[k].s = client[k].s
  BY <1>1, ClientRecord DEF ClientType
<1>3. PICK x \in Segment : x = Seg(k, "RST") /\ x.k = k /\ x.c = client[k].c /\ x.s = client[k].s
  BY ClientRecord DEF Flag
<1>4. \A p \in Carried' : p \in Carried \/ p = x
  BY <1>1, <1>3, SentCarried
<1>5. Acts(k)
  BY <1>1, <1>2, <1>3, <1>4, ClientRecord DEF Acts
<1> QED
  BY <1>1, <1>2, <1>5, ActsNumbers, ActsTold, Zenon DEF Wire

\* Deliver takes p from the queue: the handshake completes, a SYN|ACK nobody
\* asked for is refused, a RST ends the connection, or nothing happens.
Completes(k, p) ==
  /\ p.f = "SYNACK" /\ client[k].c = p.c /\ client[k].st = "synsent"
  /\ client'[k].st = "estab" /\ client'[k].s = p.s
  /\ Send([k |-> k, f |-> "ACK", c |-> p.c, s |-> p.s])
Refuses(k, p) ==
  /\ p.f = "SYNACK" /\ client'[k] = client[k]
  /\ client[k].st = "closed" \/ (client[k].st = "synsent" /\ client[k].c # p.c)
  /\ Send([k |-> k, f |-> "RST", c |-> p.c, s |-> p.s])
Closes(k) == client'[k].st = "closed" /\ client'[k].s = client[k].s /\ UNCHANGED tun
Ignores(k, p) ==
  /\ client'[k] = client[k] /\ UNCHANGED tun
  /\ ~(/\ p.f = "RST" /\ p.c = client[k].c /\ p.s = client[k].s
       /\ client[k].st \in {"estab", "finwait"})
Delivered(k, p) ==
  /\ toApp[k] # <<>> /\ p = toApp[k][1] /\ p \in Elems(toApp[k])
  /\ UNCHANGED <<pc, rx_queue, sockets, isn, states, tasks>>
  /\ \A j \in Key : j # k => client'[j] = client[j] /\ toApp'[j] = toApp[j]
  /\ toApp[k] \in Seq(Segment) /\ toApp'[k] = Tail(toApp[k])
  /\ client'[k].c = client[k].c
  /\ Completes(k, p) \/ Refuses(k, p) \/ Closes(k) \/ Ignores(k, p)

LEMMA DeliverEffect ==
  ASSUME TypeOK, NEW k \in Key, Deliver(k)
  PROVE  \E p \in Segment : Delivered(k, p)
<1> DEFINE p == Head(toApp[k])
<1>1. /\ toApp[k] # <<>> /\ toApp[k] \in Seq(Segment) /\ toApp'[k] = Tail(toApp[k])
      /\ p \in Segment /\ p = toApp[k][1] /\ p \in Elems(toApp[k])
  BY QueueElems DEF Deliver, TypeOK
<1>2. UNCHANGED <<pc, rx_queue, sockets, isn, states, tasks>>
  BY Zenon DEF Deliver, outboundVars
<1>3. \A j \in Key : j # k => toApp'[j] = toApp[j]
  BY Zenon DEF Deliver, TypeOK
<1>4. \/ /\ p.f = "SYNACK" /\ client[k].c = p.c /\ client[k].st = "synsent"
         /\ client' = [client EXCEPT ![k].st = "estab", ![k].s = p.s]
         /\ Send([k |-> k, f |-> "ACK", c |-> p.c, s |-> p.s])
      \/ /\ p.f = "SYNACK" /\ (client[k].st = "closed" \/ (client[k].st = "synsent" /\ client[k].c # p.c))
         /\ Send([k |-> k, f |-> "RST", c |-> p.c, s |-> p.s])
         /\ UNCHANGED client
      \/ client' = [client EXCEPT ![k].st = "closed"] /\ UNCHANGED tun
      \/ /\ \/ p.f = "SYNACK"
            \/ /\ p.f = "RST"
               /\ \/ client[k].st = "closed" \/ client[k].c # p.c
                  \/ client[k].st # "synsent" /\ p.s # client[k].s
         /\ UNCHANGED <<client, tun>>
  BY Zenon DEF Deliver
<1> HIDE DEF p
<1>5. client \in [Key -> ClientType] /\ client[k] \in ClientType
  BY ClientRecord, Zenon
<1>6. /\ \A j \in Key : j # k => client'[j] = client[j]
      /\ client'[k].c = client[k].c
      /\ Completes(k, p) \/ Refuses(k, p) \/ Closes(k) \/ Ignores(k, p)
  <2>1. CASE /\ p.f = "SYNACK" /\ client[k].c = p.c /\ client[k].st = "synsent"
             /\ client' = [client EXCEPT ![k].st = "estab", ![k].s = p.s]
             /\ Send([k |-> k, f |-> "ACK", c |-> p.c, s |-> p.s])
    <3>1. /\ \A j \in Key : j # k => client'[j] = client[j]
          /\ client'[k].c = client[k].c /\ client'[k].st = "estab" /\ client'[k].s = p.s
      BY <1>5, <2>1 DEF ClientType
    <3> QED
      BY <2>1, <3>1, Zenon DEF Completes
  <2>2. CASE /\ p.f = "SYNACK" /\ (client[k].st = "closed" \/ (client[k].st = "synsent" /\ client[k].c # p.c))
             /\ Send([k |-> k, f |-> "RST", c |-> p.c, s |-> p.s])
             /\ UNCHANGED client
    BY <2>2, Zenon DEF Refuses
  <2>3. CASE client' = [client EXCEPT ![k].st = "closed"] /\ UNCHANGED tun
    BY <1>5, <2>3 DEF ClientType, Closes
  <2>4. CASE /\ \/ p.f = "SYNACK"
                \/ /\ p.f = "RST"
                   /\ \/ client[k].st = "closed" \/ client[k].c # p.c
                      \/ client[k].st # "synsent" /\ p.s # client[k].s
             /\ UNCHANGED <<client, tun>>
    BY <2>4 DEF Ignores
  <2> QED
    BY <1>4, <2>1, <2>2, <2>3, <2>4, Zenon
<1> QED
  BY <1>1, <1>2, <1>3, <1>6, Zenon DEF Delivered

LEMMA DeliverActs ==
  ASSUME TypeOK, Wire, NEW k \in Key, NEW p \in Segment, Delivered(k, p)
  PROVE  Acts(k)
<1>1. /\ p.c \in Nat /\ p.s \in Nat /\ (p.s # 0 => Uses(k, p.s)) /\ p.c <= client[k].c
      /\ client[k].c \in Nat /\ (client[k].s # 0 => Uses(k, client[k].s))
  <2>1. p \in Elems(toApp[k]) /\ p.c \in Nat /\ p.s \in Nat
    BY Zenon DEF Delivered, Segment
  <2> QED
    BY <2>1, ClientRecord, Zenon DEF Uses, Wire, Attempts
<1>2. Elems(toApp'[k]) \subseteq Elems(toApp[k])
  BY QueueElems, Zenon DEF Delivered
<1>3. /\ UNCHANGED <<pc, rx_queue, sockets, isn, states, tasks>>
      /\ \A j \in Key : j # k => client'[j] = client[j] /\ toApp'[j] = toApp[j]
      /\ client'[k].c = client[k].c
      /\ client[k].st = "closed" => client'[k].st = "closed"
      /\ client'[k].s # 0 => Uses(k, client'[k].s)
  BY <1>1, Zenon DEF Delivered, Completes, Refuses, Closes, Ignores
<1>4. ASSUME NEW q \in Carried'
      PROVE  \/ q \in Carried
             \/ /\ q.k = k /\ q.c <= client[k].c
                /\ q.s # 0 => Uses(k, q.s)
                /\ q.f = "RST" /\ q.c = client[k].c => client'[k].st = "closed"
  <2>1. CASE UNCHANGED tun
    BY <1>3, <2>1, Zenon DEF Carried
  <2>2. ASSUME NEW f \in {"ACK", "RST"}, Send([k |-> k, f |-> f, c |-> p.c, s |-> p.s]),
               f = "RST" /\ p.c = client[k].c => client'[k].st = "closed"
        PROVE  \/ q \in Carried
               \/ /\ q.k = k /\ q.c <= client[k].c
                  /\ q.s # 0 => Uses(k, q.s)
                  /\ q.f = "RST" /\ q.c = client[k].c => client'[k].st = "closed"
    <3> DEFINE x == [k |-> k, f |-> f, c |-> p.c, s |-> p.s]
    <3>1. x \in Segment /\ x.k = k /\ x.f = f /\ x.c = p.c /\ x.s = p.s /\ Send(x)
      <4>1. f \in Flag
        BY <2>2 DEF Flag
      <4>2. x.k = k /\ x.f = f /\ x.c = p.c /\ x.s = p.s
        OBVIOUS
      <4>3. x \in Segment
        BY <1>1, <4>1, Zenon DEF Segment
      <4> QED
        BY <2>2, <4>2, <4>3
    <3> HIDE DEF x
    <3>2. q \in Carried \/ q = x
      BY <1>3, <1>4, <3>1, SentCarried
    <3> QED
      BY <1>1, <2>2, <3>1, <3>2, Zenon
  <2>3. \/ UNCHANGED tun
        \/ Send([k |-> k, f |-> "ACK", c |-> p.c, s |-> p.s])
        \/ /\ Send([k |-> k, f |-> "RST", c |-> p.c, s |-> p.s])
           /\ p.c = client[k].c => client'[k].st = "closed"
    BY Zenon DEF Delivered, Completes, Refuses, Closes, Ignores
  <2> QED
    BY <2>1, <2>2, <2>3, Zenon
<1> QED
  BY <1>1, <1>2, <1>3, <1>4 DEF Acts

LEMMA DeliverTold ==
  ASSUME TypeOK, Wire, NEW k \in Key, NEW p \in Segment, Delivered(k, p)
  PROVE  Told'
<1>1. /\ pc' = pc /\ sockets' = sockets /\ client'[k].c = client[k].c
      /\ \A j \in Key : j # k => client'[j] = client[j] /\ toApp'[j] = toApp[j]
      /\ toApp[k] \in Seq(Segment) /\ toApp[k] # <<>> /\ toApp'[k] = Tail(toApp[k])
      /\ p = toApp[k][1]
  BY Zenon DEF Delivered
<1>2. /\ Len(toApp[k]) \in Nat /\ Len(toApp'[k]) = Len(toApp[k]) - 1 /\ 1 \in 1 .. Len(toApp[k])
      /\ \A i \in 1 .. Len(toApp'[k]) : i + 1 \in 1 .. Len(toApp[k]) /\ toApp'[k][i] = toApp[k][i + 1]
  BY <1>1
<1>3. \A j, c, s : Serving(j, c, s)' <=> Serving(j, c, s)
  BY <1>1, Zenon DEF Serving
<1>4. ASSUME NEW c, NEW s, NEW i \in Nat, ResetBehind(k, c, s, i + 1)
      PROVE  ResetBehind(k, c, s, i)'
  <2>1. PICK m \in 1 .. Len(toApp[k]) : /\ m > i + 1 /\ toApp[k][m].f = "RST"
                                        /\ toApp[k][m].c = c /\ toApp[k][m].s = s
    BY <1>4, Zenon DEF ResetBehind
  <2>2. m - 1 \in 1 .. Len(toApp'[k]) /\ m - 1 > i /\ (m - 1) + 1 = m
    BY <1>2, <2>1
  <2> QED
    BY <1>2, <2>1, <2>2, Zenon DEF ResetBehind
<1>5. SUFFICES ASSUME pc # "stopped", NEW j \in Key, NEW c, NEW s, client'[j].c = c
               PROVE  /\ client'[j].st \in {"estab", "finwait"} /\ client'[j].s = s =>
                           Serving(j, c, s)' \/ ResetBehind(j, c, s, 0)'
                      /\ client'[j].st = "synsent" => \A i \in 1 .. Len(toApp'[j]) :
                           toApp'[j][i].f = "SYNACK" /\ toApp'[j][i].c = c /\ toApp'[j][i].s = s =>
                             Serving(j, c, s)' \/ ResetBehind(j, c, s, i)'
  BY <1>1, Zenon DEF Told
<1>6. CASE j # k
  <2>1. client'[j] = client[j] /\ toApp'[j] = toApp[j]
    BY <1>1, <1>6
  <2>2. \A i : ResetBehind(j, c, s, i)' <=> ResetBehind(j, c, s, i)
    BY <2>1 DEF ResetBehind
  <2> QED
    BY <1>3, <1>5, <2>1, <2>2, Zenon DEF Wire, Told
<1>7. CASE j = k /\ client'[k].st \in {"estab", "finwait"} /\ client'[k].s = s
  <2>1. CASE Completes(k, p)
    <3>1. client[k].c = c /\ client[k].st = "synsent" /\ p.f = "SYNACK" /\ p.c = c /\ p.s = s
      BY <1>1, <1>5, <1>7, <2>1, Zenon DEF Completes
    <3>2. Serving(k, c, s) \/ ResetBehind(k, c, s, 1)
      BY <1>1, <1>2, <1>5, <3>1, Zenon DEF Wire, Told
    <3> QED
      BY <1>3, <1>4, <1>7, <3>2
  <2>2. CASE Ignores(k, p)
    <3>1. /\ client[k].c = c /\ client[k].s = s /\ client[k].st \in {"estab", "finwait"}
          /\ ~(p.f = "RST" /\ p.c = c /\ p.s = s)
      BY <1>5, <1>7, <2>2 DEF Ignores
    <3>2. Serving(k, c, s) \/ ResetBehind(k, c, s, 0)
      BY <1>5, <3>1, Zenon DEF Wire, Told
    <3>3. ResetBehind(k, c, s, 0) => ResetBehind(k, c, s, 0 + 1)
      BY <1>1, <3>1 DEF ResetBehind
    <3> QED
      BY <1>3, <1>4, <1>7, <3>2, <3>3, Zenon
  <2> QED
    BY <1>7, <2>1, <2>2, Zenon DEF Delivered, Refuses, Closes
<1>8. ASSUME j = k, client'[k].st = "synsent", NEW i \in 1 .. Len(toApp'[k]),
             toApp'[k][i].f = "SYNACK", toApp'[k][i].c = c, toApp'[k][i].s = s
      PROVE  Serving(k, c, s)' \/ ResetBehind(k, c, s, i)'
  <2>1. client[k].st = "synsent"
    BY <1>8, Zenon DEF Delivered, Completes, Refuses, Closes, Ignores
  <2>2. i \in Nat /\ i + 1 \in 1 .. Len(toApp[k]) /\ toApp'[k][i] = toApp[k][i + 1]
    BY <1>2
  <2>3. Serving(k, c, s) \/ ResetBehind(k, c, s, i + 1)
    BY <1>1, <1>5, <1>8, <2>1, <2>2, Zenon DEF Wire, Told
  <2> QED
    BY <1>3, <1>4, <2>2, <2>3
<1> QED
  BY <1>6, <1>7, <1>8, Zenon

LEMMA DeliverWire ==
  ASSUME TypeOK, Wire, NEW k \in Key, Deliver(k)
  PROVE  Wire'
<1>1. PICK p \in Segment : Delivered(k, p)
  BY DeliverEffect
<1> QED
  BY <1>1, DeliverActs, DeliverTold, ActsNumbers DEF Wire

-----------------------------------------------------------------------------
(* The theorems.                                                           *)

LEMMA NextWire ==
  ASSUME IInv, Wire, [Next]_vars
  PROVE  Wire'
<1> USE DEF IInv
<1>1. CASE ClientStep
  BY <1>1, ConnectWire, RetransmitSynWire, CancelWire, HalfCloseWire, ResetWire, DeliverWire
  DEF ClientStep
<1>2. CASE ConnectReturns
  BY <1>2, ConnectReturnsWire
<1>3. ASSUME NEW h \in Handle, UpstreamEnds(h) \/ HandshakeExpires(h) PROVE Wire'
  BY <1>3, ElsewhereWire, Zenon DEF UpstreamEnds, HandshakeExpires, clientVars
<1>4. CASE WaitForWork
  BY <1>4, WaitForWorkWire
<1>5. CASE Shutdown
  BY <1>5, ShutdownWire
<1>6. CASE ObserveSyn
  BY <1>6, ObserveSynWire
<1>7. CASE Observed \/ IngressDone \/ EgressDone
  BY <1>7, ElsewhereWire, Zenon DEF Observed, IngressDone, EgressDone, clientVars, outboundVars
<1>8. CASE Ingress
  BY <1>8, IngressWire
<1>9. CASE Egress
  BY <1>9, EgressWire
<1>10. CASE Process
  BY <1>10, ProcessWire
<1>11. CASE Cleanup
  BY <1>11, CleanupWire
<1>12. CASE UNCHANGED vars
  BY <1>12, ElsewhereWire DEF vars, clientVars, outboundVars
<1> QED
  BY <1>1, <1>2, <1>3, <1>4, <1>5, <1>6, <1>7, <1>8, <1>9, <1>10, <1>11, <1>12 DEF Next, Tick

LEMMA WireInvariant == Spec => [](IInv /\ Wire)
<1>1. Init => IInv /\ Wire
  BY InitIInv, InitWire
<1>2. IInv /\ Wire /\ [Next]_vars => (IInv /\ Wire)'
  BY NextIInv, NextWire
<1> QED
  BY <1>1, <1>2, PTL DEF Spec

\* A client that is connected is proxied to the destination it dialled: no task
\* that update_listeners starts for its connection has another target, for any
\* number of clients, sockets that accept each other's SYNs included.
THEOREM ClientsRoutedAsDialled == Spec => []RoutedAsDialled
<1>1. IInv /\ Wire => RoutedAsDialled
  <2> SUFFICES ASSUME Wire, NEW t \in tasks, NEW k \in Key, client[k].s = t.s
               PROVE  t.target = Target(k)
    BY DEF RoutedAsDialled
  <2> QED
    BY Zenon DEF Wire, Numbered, Uses
<1> QED
  BY <1>1, WireInvariant, PTL

\* No connection is forgotten silently: until the loop is stopped, a client that
\* believes to be connected has its socket, or the RST that ends it is on its way.
THEOREM NeverHalfOpen == Spec => []NoHalfOpen
<1>1. IInv /\ Wire => NoHalfOpen
  <2> SUFFICES ASSUME Wire, NEW k \in Key, client[k].st \in {"estab", "finwait"}, pc # "stopped"
               PROVE  \/ Serving(k, client[k].c, client[k].s)
                      \/ ResetBehind(k, client[k].c, client[k].s, 0)
    BY Zenon DEF NoHalfOpen, Serving, Serves, ResetBehind
  <2> QED
    BY Zenon DEF Wire, Told
<1> QED
  BY <1>1, WireInvariant, PTL

=============================================================================
