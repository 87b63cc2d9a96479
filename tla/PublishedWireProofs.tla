------------------------ MODULE PublishedWireProofs ------------------------
(***************************************************************************)
(* Proofs about PublishedTcp: the segments between the program and the     *)
(* namespace's kernel, and what the two believe of each other.  The        *)
(* invariant of the tables is PublishedTcpProofs'.                         *)
(***************************************************************************)
EXTENDS PublishedTcpProofs

\* How long a prover may take over one step, in seconds.
USE SMTT(20), ZenonT(20)

\* The connection has had its chance to be attached.
Past(c) == states[c] # "Absent" \/ stream[c] \in {"refused", "dropped"}

\* The i-th segment of a queue is this one.
At(q, i, flag, c) == i \in 1 .. Len(q) /\ q[i].f = flag /\ q[i].c = c
Has(q, flag, c) == \E i \in 1 .. Len(q) : At(q, i, flag, c)

\* The SYN of the connection has been handled, and it will send no other.
Handled(c) == /\ Past(c) /\ sockets[c].owes # "SYN"
              /\ \A p \in Port : ~Has(toNs[p], "SYN", c)

\* A connection sends one SYN.
SynOnce ==
  \A c \in Conn, p \in Port : \A i \in 1 .. Len(toNs[p]) : At(toNs[p], i, "SYN", c) =>
    /\ Past(c) /\ sockets[c].owes # "SYN"
    /\ \A q \in Port : \A j \in 1 .. Len(toNs[q]) : At(toNs[q], j, "SYN", c) => p = q /\ i = j

\* Whatever the kernel knows or says of a connection, and whatever is an answer
\* to it, comes after the SYN.
Answered(c) ==
  \/ sockets[c].owes = "ACK"
  \/ \E p \in Port : \/ peer[p].c = c
                     \/ \E i \in 1 .. Len(tun[p]) : tun[p][i].c = c
                     \/ \E i \in 1 .. Len(rx_queue[p]) : rx_queue[p][i].c = c
                     \/ Has(toNs[p], "ACK", c)
AfterSyn == \A c \in Conn : Answered(c) => Handled(c)

\* When the kernel says RST it has forgotten the connection.
ForgottenOnReset ==
  \A c \in Conn, p \in Port :
    Has(tun[p], "RST", c) \/ Has(rx_queue[p], "RST", c) => peer[p].c # c

\* A socket serves the connection, or will say RST; or a RST is on its way,
\* behind the i-th segment.
Serving(p, c) ==
  handle_to_port[c] = p /\ (sockets[c].state # "Closed" \/ sockets[c].owes = "RST")
ResetBehind(p, c, i) == \E k \in 1 .. Len(toNs[p]) : k > i /\ At(toNs[p], k, "RST", c)

\* What the kernel holds, or will hold, is served or will be reset.
Answerable ==
  pc # "stopped" => \A c \in Conn, p \in Port :
    /\ peer[p].c = c => Serving(p, c) \/ ResetBehind(p, c, 0)
    /\ \A i \in 1 .. Len(toNs[p]) :
         At(toNs[p], i, "SYN", c) => Serving(p, c) \/ ResetBehind(p, c, i)

\* Between a connection and the next SYN of its port there is a RST.
ResetBetween(p, c, i, j) ==
  \E k \in 1 .. Len(toNs[p]) : i < k /\ k < j /\ At(toNs[p], k, "RST", c)
Separated ==
  \A p \in Port : \A j \in 1 .. Len(toNs[p]) : toNs[p][j].f = "SYN" => \A c \in Conn :
    /\ peer[p].c = c => ResetBetween(p, c, 0, j)
    /\ \A i \in 1 .. j - 1 : At(toNs[p], i, "SYN", c) => ResetBetween(p, c, i, j)

Wire == SynOnce /\ AfterSyn /\ ForgottenOnReset /\ Answerable /\ Separated

-----------------------------------------------------------------------------
(* Segments.                                                               *)

\* Every segment in a queue is about a host connection.
LEMMA SegmentConn ==
  ASSUME TypeOK, NEW p \in Port
  PROVE  /\ \A i \in 1 .. Len(toNs[p]) : toNs[p][i] \in Segment /\ toNs[p][i].c \in Conn
         /\ \A i \in 1 .. Len(tun[p]) : tun[p][i] \in Segment /\ tun[p][i].c \in Conn
         /\ \A i \in 1 .. Len(rx_queue[p]) : rx_queue[p][i] \in Segment /\ rx_queue[p][i].c \in Conn
         /\ peer[p].c # NoConn => peer[p].c \in Conn
<1>1. \A x \in Segment : x.c \in Conn
  BY DEF Segment
<1>2. \A q \in Seq(Segment) : \A i \in 1 .. Len(q) : q[i] \in Segment
  OBVIOUS
<1>3. peer[p].c # NoConn => peer[p].c \in Conn
  BY Zenon DEF TypeOK
<1> QED
  BY <1>1, <1>2, <1>3, Queues, Zenon

\* Steps that keep what was handled, and after which nothing is answered that
\* was not, or is not handled.
LEMMA AfterSynStep ==
  ASSUME AfterSyn, \A c \in Conn : Handled(c) => Handled(c)',
         \A c \in Conn : Answered(c)' => Answered(c) \/ Handled(c)'
  PROVE  AfterSyn'
BY Zenon DEF AfterSyn

\* Steps of the program that write and read no segment: they may change which
\* connections have had their chance, what sockets owe and which of them serve,
\* in one direction only.
LEMMA WireKept ==
  ASSUME TypeOK, Wire, UNCHANGED netVars,
         \A c \in Conn : Past(c) => Past(c)',
         \A c \in Conn : (sockets[c].owes = "SYN")' => sockets[c].owes = "SYN" \/ ~Past(c),
         \A c \in Conn : (sockets[c].owes = "ACK")' => sockets[c].owes = "ACK",
         (pc # "stopped")' => /\ pc # "stopped"
                              /\ \A p \in Port, c \in Conn : Serving(p, c) => Serving(p, c)'
  PROVE  Wire'
<1>1. UNCHANGED <<rx_queue, tun, toNs, peer>>
  BY Zenon DEF netVars
<1>2. SynOnce'
  BY <1>1 DEF Wire, SynOnce, At
<1>3. AfterSyn'
  <2>1. \A c \in Conn : Handled(c) => Handled(c)'
    BY <1>1, Zenon DEF Handled, Has, At
  <2>2. \A c \in Conn : Answered(c)' => Answered(c)
    BY <1>1 DEF Answered, Has, At
  <2> QED
    BY <2>1, <2>2, AfterSynStep, Zenon DEF Wire
<1>4. ForgottenOnReset'
  BY <1>1, Zenon DEF Wire, ForgottenOnReset, Has, At
<1>5. Answerable'
  BY <1>1 DEF Wire, Answerable, ResetBehind, At
<1>6. Separated'
  BY <1>1 DEF Wire, Separated, ResetBetween, At
<1> QED
  BY <1>2, <1>3, <1>4, <1>5, <1>6, Zenon DEF Wire

LEMMA AttachNextWire ==
  ASSUME TypeOK, Tables, Wire, AttachNext
  PROVE  Wire'
<1> PICK c : c = Head(pending)
  OBVIOUS
<1>1. /\ c \in Conn /\ states[c] = "Absent" /\ stream[c] = "open" /\ pc' = pc /\ pc = "attach"
  BY AttachNextFacts, Zenon
<1>2. UNCHANGED netVars /\ ~Past(c)
  BY <1>1, Zenon DEF AttachNext, Past
<1>3. ASSUME NEW p \in Port, ConnectStarts(c, p) PROVE Wire'
  <2>1. handle_to_port[c] = NoPort /\ \A q \in Port : q # NoPort
    BY <1>1, PublishedAssumption DEF Tables, PortsBalanced, Port, NoPort
  <2>2. /\ sockets'[c] = [state |-> "SynSent", owes |-> "SYN"] /\ states'[c] = "Connecting"
        /\ \A d \in Conn : d # c => /\ states'[d] = states[d] /\ sockets'[d] = sockets[d]
                                    /\ handle_to_port'[d] = handle_to_port[d]
        /\ stream' = stream
    BY <1>1, <1>3, Zenon DEF ConnectStarts, TypeOK
  <2>3. \A d \in Conn : Past(d) => Past(d)'
    BY <1>2, <2>2, Zenon DEF Past
  <2>4. \A q \in Port, d \in Conn : Serving(q, d) => Serving(q, d)'
    BY <2>1, <2>2 DEF Serving
  <2> QED
    BY <1>1, <1>2, <2>2, <2>3, <2>4, WireKept
<1>4. ASSUME UNCHANGED <<states, handle_to_port, sockets>>,
             \E x \in {"dropped", "refused"} : stream' = [stream EXCEPT ![c] = x]
      PROVE  Wire'
  <2>1. \A d \in Conn : Past(d) => Past(d)'
    BY <1>1, <1>4, Zenon DEF Past, TypeOK
  <2>2. \A q \in Port, d \in Conn : Serving(q, d) => Serving(q, d)'
    BY <1>4, Zenon DEF Serving
  <2> QED
    BY <1>1, <1>2, <1>4, <2>1, <2>2, WireKept, Zenon
<1> QED
  BY <1>3, <1>4, Zenon DEF AttachNext, ConnectFails, PortsExhausted

LEMMA ProcessWire ==
  ASSUME TypeOK, Tables, Wire, Process
  PROVE  Wire'
<1>1. /\ pc = "process" /\ pc' = "egress2" /\ UNCHANGED <<handle_to_port, netVars>>
      /\ \A c \in Conn :
           \/ /\ stream'[c] = stream[c] /\ sockets'[c] = sockets[c]
              /\ states'[c] = states[c] \/ (states[c] = "Connecting" /\ states'[c] = "Established")
           \/ /\ states[c] \in Forwarded /\ states'[c] = "Closing" /\ stream'[c] = "dropped"
              /\ \/ sockets'[c] = sockets[c] /\ sockets[c].state = "Closed"
                 \/ sockets'[c] = [state |-> "Closed", owes |-> "RST"]
  BY ProcessEffect, Zenon
<1>2. \A c \in Conn : Past(c) => Past(c)'
  BY <1>1, Zenon DEF Past
<1>3. \A p \in Port, c \in Conn : Serving(p, c) => Serving(p, c)'
  BY <1>1 DEF Serving
<1>4. \A c \in Conn : /\ (sockets[c].owes = "SYN")' => sockets[c].owes = "SYN"
                      /\ (sockets[c].owes = "ACK")' => sockets[c].owes = "ACK"
  BY <1>1
<1> QED
  BY <1>1, <1>2, <1>3, <1>4, WireKept, Zenon

\* cleanup() drops no socket that serves: what it removes is closed and has
\* said its RST, in the second egress.
LEMMA CleanupWire ==
  ASSUME TypeOK, Tables, Wire, Cleanup
  PROVE  Wire'
<1>1. /\ pc = "cleanup" /\ pc' = "wait" /\ UNCHANGED <<stream, netVars>>
      /\ \A c \in Conn : states[c] = "Closing" =>
           states'[c] = "Absent" /\ sockets'[c] = FreeSlot /\ handle_to_port'[c] = NoPort
      /\ \A c \in Conn : states[c] # "Closing" =>
           states'[c] = states[c] /\ sockets'[c] = sockets[c] /\ handle_to_port'[c] = handle_to_port[c]
  BY Zenon DEF Cleanup, ClosingHandles, hostVars
<1>2. \A c \in Conn : states[c] = "Closing" =>
        stream[c] = "dropped" /\ sockets[c].state = "Closed" /\ sockets[c].owes = "nothing"
  BY <1>1, Zenon DEF Tables, Entries
<1>3. \A c \in Conn : Past(c) => Past(c)'
  BY <1>1, <1>2, Zenon DEF Past
<1>4. \A p \in Port, c \in Conn : Serving(p, c) => Serving(p, c)'
  BY <1>1, <1>2 DEF Serving
<1>5. \A c \in Conn : /\ (sockets[c].owes = "SYN")' => sockets[c].owes = "SYN"
                      /\ (sockets[c].owes = "ACK")' => sockets[c].owes = "ACK"
  BY <1>1 DEF FreeSlot
<1> QED
  BY <1>1, <1>3, <1>4, <1>5, WireKept, Zenon

LEMMA ShutdownWire ==
  ASSUME TypeOK, Tables, Wire, Shutdown
  PROVE  Wire'
<1>1. /\ pc' = "stopped" /\ UNCHANGED netVars
      /\ \A c \in Conn : /\ states'[c] = "Absent" /\ sockets'[c] = FreeSlot
                         /\ stream'[c] = IF stream[c] = "open" THEN "dropped" ELSE stream[c]
  BY Zenon DEF Shutdown
<1>2. \A c \in Conn : Past(c) => Past(c)'
  BY <1>1 DEF Past, TypeOK, Tables, Held, Entries, Forwarded, Tag
<1>3. \A c \in Conn : sockets'[c].owes \notin {"SYN", "ACK"}
  BY <1>1 DEF FreeSlot
<1> QED
  BY <1>1, <1>2, <1>3, WireKept, Zenon

\* The TUN is read: what was queued there joins what is not processed.
Joins(m, q, r) == m = q \o r

LEMMA JoinedAt ==
  ASSUME NEW q \in Seq(Segment), NEW r \in Seq(Segment), NEW m, Joins(m, q, r),
         NEW i \in 1 .. Len(m)
  PROVE  (i \in 1 .. Len(q) /\ m[i] = q[i]) \/ \E j \in 1 .. Len(r) : m[i] = r[j]
<1>1. CASE i \in 1 .. Len(q)
  BY <1>1 DEF Joins
<1>2. CASE i \notin 1 .. Len(q)
  <2>1. i - Len(q) \in 1 .. Len(r) /\ m[i] = r[i - Len(q)]
    BY <1>2 DEF Joins
  <2> QED
    BY <2>1, Zenon
<1> QED
  BY <1>1, <1>2, Zenon

LEMMA WaitForWorkWire ==
  ASSUME TypeOK, Wire, WaitForWork
  PROVE  Wire'
<1>1. /\ UNCHANGED <<stream, states, handle_to_port, sockets, toNs, peer>>
      /\ pc = "wait" /\ pc' = "receive"
  BY Zenon DEF WaitForWork, tableVars
<1>2. ASSUME NEW p \in Port
      PROVE  /\ Len(tun'[p]) = 0
             /\ \A i \in 1 .. Len(rx_queue'[p]) :
                  \/ i \in 1 .. Len(rx_queue[p]) /\ rx_queue'[p][i] = rx_queue[p][i]
                  \/ \E j \in 1 .. Len(tun[p]) : rx_queue'[p][i] = tun[p][j]
  <2>1. rx_queue[p] \in Seq(Segment) /\ tun[p] \in Seq(Segment)
    BY Queues
  <2>2. tun'[p] = <<>> /\ Joins(rx_queue'[p], rx_queue[p], tun[p])
    BY Zenon DEF WaitForWork, Joins
  <2> QED
    BY <2>1, <2>2, JoinedAt
<1>3. SynOnce'
  BY <1>1 DEF Wire, SynOnce, At, Past
<1>4. AfterSyn'
  <2>1. \A c \in Conn : Handled(c) => Handled(c)'
    BY <1>1, Zenon DEF Handled, Past, Has, At
  <2>2. ASSUME NEW c \in Conn, Answered(c)' PROVE Answered(c)
    <3>1. ASSUME NEW p \in Port, \E i \in 1 .. Len(rx_queue'[p]) : rx_queue'[p][i].c = c
          PROVE  \/ \E i \in 1 .. Len(tun[p]) : tun[p][i].c = c
                 \/ \E i \in 1 .. Len(rx_queue[p]) : rx_queue[p][i].c = c
      BY <1>2, <3>1
    <3>2. \A p \in Port : \A i \in 1 .. Len(tun'[p]) : FALSE
      BY <1>2
    <3> QED
      BY <1>1, <2>2, <3>1, <3>2, Zenon DEF Answered
  <2> QED
    BY <2>1, <2>2, AfterSynStep DEF Wire
<1>5. ForgottenOnReset'
  BY <1>1, <1>2 DEF Wire, ForgottenOnReset, Has, At
<1>6. Answerable'
  BY <1>1 DEF Wire, Answerable, ResetBehind, At, Serving
<1>7. Separated'
  BY <1>1 DEF Wire, Separated, ResetBetween, At
<1> QED
  BY <1>3, <1>4, <1>5, <1>6, <1>7 DEF Wire

\* The kernel ends or forgets a connection.
LEMMA PeerEndsWire ==
  ASSUME TypeOK, KnownPeers, Wire, NEW p \in Port, ServiceEnds(p) \/ KernelForgets(p)
  PROVE  Wire'
<1> PICK d : d = peer[p].c
  OBVIOUS
<1>1. /\ UNCHANGED <<stream, states, handle_to_port, sockets, toNs, rx_queue, pc>>
  BY Zenon DEF ServiceEnds, KernelForgets, hostVars, tableVars
<1>2. /\ \A q \in Port : q # p => peer'[q] = peer[q] /\ tun'[q] = tun[q]
      /\ peer'[p].c \in {d, NoConn}
      /\ \/ tun'[p] = tun[p]
         \/ tun'[p] = Append(tun[p], [f |-> "FIN", c |-> d])
         \/ tun'[p] = Append(tun[p], [f |-> "RST", c |-> d]) /\ peer'[p].c = NoConn
  BY DEF ServiceEnds, KernelForgets, Reply, TypeOK, NoPeer
<1>3. d \in Conn
  BY Zenon DEF ServiceEnds, KernelForgets, KnownPeers, TypeOK
<1>4. \A i \in 1 .. Len(tun'[p]) :
        \/ i \in 1 .. Len(tun[p]) /\ tun'[p][i] = tun[p][i]
        \/ tun'[p][i].c = d /\ (tun'[p][i].f = "RST" => peer'[p].c = NoConn)
  <2>1. CASE tun'[p] = tun[p]
    BY <2>1, Zenon
  <2>2. ASSUME NEW flag \in {"FIN", "RST"}, tun'[p] = Append(tun[p], [f |-> flag, c |-> d]),
               flag = "RST" => peer'[p].c = NoConn, NEW i \in 1 .. Len(tun'[p])
        PROVE  \/ i \in 1 .. Len(tun[p]) /\ tun'[p][i] = tun[p][i]
               \/ tun'[p][i].c = d /\ (tun'[p][i].f = "RST" => peer'[p].c = NoConn)
    <3> DEFINE x == [f |-> flag, c |-> d]
    <3>1. x.f = flag /\ x.c = d /\ x \in Segment
      BY <1>3, Zenon DEF Segment
    <3>2. tun'[p] = Append(tun[p], x)
      BY <2>2, Zenon
    <3> HIDE DEF x
    <3>3. (i \in 1 .. Len(tun[p]) /\ tun'[p][i] = tun[p][i]) \/ tun'[p][i] = x
      BY <3>1, <3>2, Queues
    <3> QED
      BY <2>2, <3>1, <3>3, Zenon
  <2> QED
    BY <1>2, <2>1, <2>2, Zenon
<1>5. \A q \in Port, c \in Conn : peer'[q].c = c => peer[q].c = c
  BY <1>2, PublishedAssumption, Zenon
<1>6. SynOnce'
  BY <1>1 DEF Wire, SynOnce, At, Past
<1>7. AfterSyn'
  <2>1. \A c \in Conn : Handled(c) => Handled(c)'
    BY <1>1, Zenon DEF Handled, Past, Has, At
  <2>2. ASSUME NEW c \in Conn, Answered(c)' PROVE Answered(c)
    <3>1. ASSUME NEW q \in Port, NEW i \in 1 .. Len(tun'[q]), tun'[q][i].c = c
          PROVE  \E r \in Port : peer[r].c = c \/ \E m \in 1 .. Len(tun[r]) : tun[r][m].c = c
      BY <1>2, <1>4, <3>1, Zenon
    <3> QED
      BY <1>1, <1>5, <2>2, <3>1 DEF Answered
  <2> QED
    BY <2>1, <2>2, AfterSynStep DEF Wire
<1>8. ForgottenOnReset'
  <2> SUFFICES ASSUME NEW c \in Conn, NEW q \in Port,
                      Has(tun'[q], "RST", c) \/ Has(rx_queue[q], "RST", c), peer'[q].c = c
               PROVE  FALSE
    BY <1>1, Zenon DEF ForgottenOnReset
  <2>1. ~Has(tun[q], "RST", c) /\ ~Has(rx_queue[q], "RST", c)
    BY <1>5, Zenon DEF Wire, ForgottenOnReset
  <2>2. PICK i \in 1 .. Len(tun'[q]) : tun'[q][i].f = "RST" /\ tun'[q][i].c = c
    BY <2>1, Zenon DEF Has, At
  <2>3. ~(i \in 1 .. Len(tun[q]) /\ tun'[q][i] = tun[q][i])
    BY <2>1, <2>2, Zenon DEF Has, At
  <2>4. q = p /\ peer'[p].c = NoConn
    BY <1>2, <1>4, <2>2, <2>3, Zenon
  <2> QED
    BY <2>4, PublishedAssumption
<1>9. Answerable'
  BY <1>1, <1>5 DEF Wire, Answerable, ResetBehind, At, Serving
<1>10. Separated'
  BY <1>1, <1>5 DEF Wire, Separated, ResetBetween, At
<1> QED
  BY <1>6, <1>7, <1>8, <1>9, <1>10 DEF Wire

\* The kernel takes the segment s off the queue of port p: how the queue moves
\* up, what becomes of the connection there, and what the kernel answers.
Popped(p, s) ==
  /\ s \in Segment /\ s.c \in Conn /\ toNs[p][1] = s /\ 1 \in 1 .. Len(toNs[p])
  /\ Len(toNs[p]) \in Nat /\ Len(toNs'[p]) = Len(toNs[p]) - 1
  /\ \A i \in 1 .. Len(toNs[p]) - 1 : toNs'[p][i] = toNs[p][i + 1]
  /\ \A q \in Port : q # p => toNs'[q] = toNs[q] /\ peer'[q] = peer[q] /\ tun'[q] = tun[q]
  /\ \/ peer'[p].c \in {peer[p].c, NoConn}
     \/ peer[p].c = NoConn /\ s.f = "SYN" /\ peer'[p].c = s.c
  /\ s.f = "RST" /\ peer[p].c = s.c => peer'[p].c = NoConn
  /\ \A i \in 1 .. Len(tun'[p]) :
       \/ i \in 1 .. Len(tun[p]) /\ tun'[p][i] = tun[p][i]
       \/ /\ tun'[p][i].c = s.c /\ s.f \in {"SYN", "ACK"}
          /\ tun'[p][i].f = "RST" => peer'[p].c # s.c
  /\ UNCHANGED <<stream, states, handle_to_port, sockets, rx_queue, pc>>

LEMMA KernelEffect ==
  ASSUME TypeOK, KnownPeers, NEW p \in Port, KernelReceives(p), NEW s, s = Head(toNs[p])
  PROVE  Popped(p, s)
<1>1. toNs[p] \in Seq(Segment) /\ toNs[p] # <<>> /\ toNs'[p] = Tail(toNs[p])
  BY Queues, Zenon DEF KernelReceives
<1>2. /\ s \in Segment /\ toNs[p][1] = s /\ 1 \in 1 .. Len(toNs[p])
      /\ Len(toNs[p]) \in Nat /\ Len(toNs'[p]) = Len(toNs[p]) - 1
      /\ \A i \in 1 .. Len(toNs[p]) - 1 : toNs'[p][i] = toNs[p][i + 1]
  BY <1>1
<1>3. s.c \in Conn /\ s.c # NoConn
  BY <1>2, PublishedAssumption, Zenon DEF Segment
<1>4. \A q \in Port : q # p => toNs'[q] = toNs[q] /\ peer'[q] = peer[q] /\ tun'[q] = tun[q]
  BY Zenon DEF KernelReceives, Reply, TypeOK
<1>5. \A q \in Seq(Segment), x \in Segment : \A i \in 1 .. Len(Append(q, x)) :
        (i \in 1 .. Len(q) /\ Append(q, x)[i] = q[i]) \/ Append(q, x)[i] = x
  OBVIOUS
<1>6. ASSUME NEW flag \in {"SYNACK", "RST"}, Reply(p, flag, s.c), NEW i \in 1 .. Len(tun'[p])
      PROVE  \/ i \in 1 .. Len(tun[p]) /\ tun'[p][i] = tun[p][i]
             \/ tun'[p][i].c = s.c /\ tun'[p][i].f = flag
  <2>1. tun[p] \in Seq(Segment)
    BY Queues
  <2>3. [f |-> flag, c |-> s.c] \in Segment
    BY <1>3, Zenon DEF Segment
  <2>2. tun'[p] = Append(tun[p], [f |-> flag, c |-> s.c])
    BY <1>6, Queues, Zenon DEF Reply
  <2> QED
    BY <1>5, <2>1, <2>2, <2>3
<1>7. peer \in [Port -> PeerRecord]
  BY Zenon DEF TypeOK, PeerRecord
<1>8. /\ \/ peer'[p].c \in {peer[p].c, NoConn}
         \/ peer[p].c = NoConn /\ s.f = "SYN" /\ peer'[p].c = s.c
      /\ s.f = "RST" /\ peer[p].c = s.c => peer'[p].c = NoConn
  BY <1>7 DEF KernelReceives, NoPeer, PeerRecord
<1>9. \/ tun' = tun
      \/ s.f = "SYN" /\ Reply(p, "SYNACK", s.c)
      \/ s.f = "SYN" /\ Reply(p, "RST", s.c) /\ peer'[p].c = NoConn
      \/ s.f = "ACK" /\ Reply(p, "RST", s.c) /\ peer'[p].c # s.c
  BY DEF KernelReceives, NoPeer
<1>10. \A i \in 1 .. Len(tun'[p]) :
         \/ i \in 1 .. Len(tun[p]) /\ tun'[p][i] = tun[p][i]
         \/ /\ tun'[p][i].c = s.c /\ s.f \in {"SYN", "ACK"}
            /\ tun'[p][i].f = "RST" => peer'[p].c # s.c
  BY <1>3, <1>6, <1>9, Zenon
<1>11. UNCHANGED <<stream, states, handle_to_port, sockets, rx_queue, pc>>
  BY Zenon DEF KernelReceives, hostVars, tableVars
<1> QED
  BY <1>2, <1>3, <1>4, <1>8, <1>10, <1>11, Zenon DEF Popped

\* Every segment moves up by one place, and what was handled stays handled.
LEMMA PoppedPlaces ==
  ASSUME NEW p \in Port, NEW s, Popped(p, s)
  PROVE  /\ \A i \in 1 .. Len(toNs[p]) - 1 : i + 1 \in 1 .. Len(toNs[p])
         /\ \A i \in 1 .. Len(toNs[p]) : i > 1 => /\ i - 1 \in 1 .. Len(toNs[p]) - 1
                                                  /\ toNs'[p][i - 1] = toNs[p][i]
<1>1. Len(toNs[p]) \in Nat /\ \A i \in 1 .. Len(toNs[p]) - 1 : toNs'[p][i] = toNs[p][i + 1]
  BY Zenon DEF Popped
<1> QED
  BY <1>1

LEMMA PoppedHandled ==
  ASSUME NEW p \in Port, NEW s, Popped(p, s)
  PROVE  /\ \A q \in Port : \A flag, c : Has(toNs'[q], flag, c) => Has(toNs[q], flag, c)
         /\ \A c \in Conn : (Past(c)' <=> Past(c)) /\ (Handled(c) => Handled(c)')
<1>1. /\ Len(toNs'[p]) = Len(toNs[p]) - 1 /\ \A i \in 1 .. Len(toNs[p]) - 1 : toNs'[p][i] = toNs[p][i + 1]
      /\ \A q \in Port : q # p => toNs'[q] = toNs[q]
      /\ UNCHANGED <<stream, states, sockets>>
  BY Zenon DEF Popped
<1>2. ASSUME NEW q \in Port, NEW flag, NEW c, Has(toNs'[q], flag, c)
      PROVE  Has(toNs[q], flag, c)
  <2>1. CASE q # p
    BY <1>1, <1>2, <2>1
  <2>2. CASE q = p
    <3>1. PICK i \in 1 .. Len(toNs[p]) - 1 : At(toNs'[p], i, flag, c)
      BY <1>1, <1>2, <2>2 DEF Has
    <3>2. i + 1 \in 1 .. Len(toNs[p]) /\ toNs[p][i + 1] = toNs'[p][i]
      BY <1>1, PoppedPlaces, Zenon
    <3> QED
      BY <2>2, <3>1, <3>2, Zenon DEF Has, At
  <2> QED
    BY <2>1, <2>2
<1>3. \A c \in Conn : Past(c)' <=> Past(c)
  BY <1>1 DEF Past
<1> QED
  BY <1>1, <1>2, <1>3, Zenon DEF Handled

LEMMA KernelSynOnce ==
  ASSUME Wire, NEW p \in Port, NEW s, Popped(p, s)
  PROVE  SynOnce'
<1> DEFINE n == Len(toNs[p])
<1>1. /\ s \in Segment /\ s.c \in Conn /\ toNs[p][1] = s /\ 1 \in 1 .. n
      /\ Len(toNs'[p]) = n - 1 /\ \A i \in 1 .. n - 1 : toNs'[p][i] = toNs[p][i + 1]
      /\ \A q \in Port : q # p => toNs'[q] = toNs[q] /\ peer'[q] = peer[q] /\ tun'[q] = tun[q]
  BY Zenon DEF Popped
<1>2. UNCHANGED <<stream, states, handle_to_port, sockets, rx_queue, pc>>
  BY Zenon DEF Popped
<1>3. /\ \A i \in 1 .. n - 1 : i + 1 \in 1 .. n
      /\ \A i \in 1 .. n : i > 1 => i - 1 \in 1 .. n - 1 /\ toNs'[p][i - 1] = toNs[p][i]
  BY PoppedPlaces, Zenon
<1> HIDE DEF n
<1>4. \A c \in Conn : Past(c)' <=> Past(c)
  BY PoppedHandled
<1>5. SynOnce'
  <2> SUFFICES ASSUME NEW c \in Conn, NEW q \in Port, NEW i \in 1 .. Len(toNs'[q]),
                      At(toNs'[q], i, "SYN", c)
               PROVE  /\ Past(c) /\ sockets[c].owes # "SYN"
                      /\ \A r \in Port : \A j \in 1 .. Len(toNs'[r]) :
                           At(toNs'[r], j, "SYN", c) => q = r /\ i = j
    BY <1>2, <1>4, Zenon DEF SynOnce
  <2>1. /\ q = p => At(toNs[p], i + 1, "SYN", c) /\ i + 1 \in 1 .. Len(toNs[p])
        /\ q # p => At(toNs[q], i, "SYN", c) /\ i \in 1 .. Len(toNs[q])
    BY <1>1, <1>3 DEF At, n
  <2>2. ASSUME NEW r \in Port, NEW j \in 1 .. Len(toNs'[r]), At(toNs'[r], j, "SYN", c)
        PROVE  q = r /\ i = j
    <3>1. /\ r = p => At(toNs[p], j + 1, "SYN", c) /\ j + 1 \in 1 .. Len(toNs[p])
          /\ r # p => At(toNs[r], j, "SYN", c) /\ j \in 1 .. Len(toNs[r])
      BY <1>1, <1>3, <2>2 DEF At, n
    <3>2. q = r
      BY <2>1, <3>1, Zenon DEF Wire, SynOnce
    <3>3. i \in Nat /\ j \in Nat
      BY <2>2 DEF At
    <3>4. CASE q = p
      <4>1. i + 1 = j + 1
        BY <2>1, <3>1, <3>2, <3>4, Zenon DEF Wire, SynOnce
      <4> QED
        BY <3>2, <3>3, <4>1
    <3>5. CASE q # p
      BY <2>1, <3>1, <3>2, <3>5, Zenon DEF Wire, SynOnce
    <3> QED
      BY <3>4, <3>5
  <2> QED
    BY <2>1, <2>2, Zenon DEF Wire, SynOnce
<1> QED
  BY <1>5

\* The SYN of a connection that is answered is handled.
LEMMA KernelHandles ==
  ASSUME Wire, NEW p \in Port, NEW s, Popped(p, s)
  PROVE  s.f \in {"SYN", "ACK"} => Handled(s.c)'
<1> DEFINE n == Len(toNs[p])
<1>1. /\ s \in Segment /\ s.c \in Conn /\ toNs[p][1] = s /\ 1 \in 1 .. n
      /\ Len(toNs'[p]) = n - 1 /\ \A i \in 1 .. n - 1 : toNs'[p][i] = toNs[p][i + 1]
      /\ \A q \in Port : q # p => toNs'[q] = toNs[q] /\ peer'[q] = peer[q] /\ tun'[q] = tun[q]
  BY Zenon DEF Popped
<1>2. UNCHANGED <<stream, states, handle_to_port, sockets, rx_queue, pc>>
  BY Zenon DEF Popped
<1>3. /\ \A i \in 1 .. n - 1 : i + 1 \in 1 .. n
      /\ \A i \in 1 .. n : i > 1 => i - 1 \in 1 .. n - 1 /\ toNs'[p][i - 1] = toNs[p][i]
  BY PoppedPlaces, Zenon
<1> HIDE DEF n
<1>4. \A c \in Conn : Past(c)' <=> Past(c)
  BY PoppedHandled
<1>5. \A c \in Conn : Handled(c) => Handled(c)'
  BY PoppedHandled
<1>6. s.f \in {"SYN", "ACK"} => Handled(s.c)'
  <2>1. CASE s.f = "ACK"
    <3>1. Answered(s.c)
      BY <1>1, <2>1, Zenon DEF Answered, Has, At, n
    <3> QED
      BY <1>1, <1>5, <3>1, Zenon DEF Wire, AfterSyn
  <2>2. CASE s.f = "SYN"
    <3>1. At(toNs[p], 1, "SYN", s.c)
      BY <1>1, <2>2, Zenon DEF At, n
    <3>2. ASSUME NEW q \in Port, Has(toNs'[q], "SYN", s.c) PROVE FALSE
      <4>1. PICK i \in 1 .. Len(toNs'[q]) : At(toNs'[q], i, "SYN", s.c)
        BY <3>2 DEF Has
      <4>2. CASE q = p
        <5>1. At(toNs[p], i + 1, "SYN", s.c) /\ i + 1 \in 1 .. Len(toNs[p])
          BY <1>1, <1>3, <4>1, <4>2, Zenon DEF At, n
        <5>2. i + 1 = 1
          BY <1>1, <3>1, <5>1 DEF Wire, SynOnce, n
        <5> QED
          BY <1>1, <4>1, <4>2, <5>2
      <4>3. CASE q # p
        <5>1. At(toNs[q], i, "SYN", s.c) /\ i \in 1 .. Len(toNs[q])
          BY <1>1, <4>1, <4>3, Zenon DEF At
        <5> QED
          BY <1>1, <3>1, <4>3, <5>1, Zenon DEF Wire, SynOnce, n
      <4> QED
        BY <4>2, <4>3
    <3>3. Past(s.c) /\ sockets[s.c].owes # "SYN"
      BY <1>1, <3>1, Zenon DEF Wire, SynOnce, n
    <3> QED
      BY <1>1, <1>2, <1>4, <3>2, <3>3, Zenon DEF Handled
  <2> QED
    BY <2>1, <2>2
<1> QED
  BY <1>6

LEMMA KernelAfterSyn ==
  ASSUME Wire, NEW p \in Port, NEW s, Popped(p, s)
  PROVE  AfterSyn'
<1> DEFINE n == Len(toNs[p])
<1>1. /\ s \in Segment /\ s.c \in Conn /\ toNs[p][1] = s /\ 1 \in 1 .. n
      /\ Len(toNs'[p]) = n - 1 /\ \A i \in 1 .. n - 1 : toNs'[p][i] = toNs[p][i + 1]
      /\ \A q \in Port : q # p => toNs'[q] = toNs[q] /\ peer'[q] = peer[q] /\ tun'[q] = tun[q]
  BY Zenon DEF Popped
<1>2. /\ \/ peer'[p].c \in {peer[p].c, NoConn}
         \/ peer[p].c = NoConn /\ s.f = "SYN" /\ peer'[p].c = s.c
      /\ s.f = "RST" /\ peer[p].c = s.c => peer'[p].c = NoConn
      /\ \A i \in 1 .. Len(tun'[p]) :
           \/ i \in 1 .. Len(tun[p]) /\ tun'[p][i] = tun[p][i]
           \/ /\ tun'[p][i].c = s.c /\ s.f \in {"SYN", "ACK"}
              /\ tun'[p][i].f = "RST" => peer'[p].c # s.c
  BY Zenon DEF Popped
<1>3. UNCHANGED <<stream, states, handle_to_port, sockets, rx_queue, pc>>
  BY Zenon DEF Popped
<1>4. \A q \in Port : \A flag, c : Has(toNs'[q], flag, c) => Has(toNs[q], flag, c)
  BY PoppedHandled
<1>5. \A c \in Conn : Handled(c) => Handled(c)'
  BY PoppedHandled
<1>6. s.f \in {"SYN", "ACK"} => Handled(s.c)'
  BY KernelHandles
<1>7. AfterSyn'
  <2> SUFFICES ASSUME NEW c \in Conn, Answered(c)' PROVE Answered(c) \/ Handled(c)'
    BY <1>5, AfterSynStep DEF Wire
  <2>1. CASE (sockets[c].owes = "ACK")'
    BY <1>3, <2>1 DEF Answered
  <2>2. CASE \E q \in Port : peer'[q].c = c
    <3>1. \/ \E q \in Port : peer[q].c = c
          \/ s.f = "SYN" /\ s.c = c
      BY <1>1, <1>2, <2>2, PublishedAssumption
    <3> QED
      BY <1>6, <3>1, Zenon DEF Answered
  <2>3. CASE \E q \in Port : \E i \in 1 .. Len(tun'[q]) : tun'[q][i].c = c
    <3>1. \/ \E q \in Port : \E i \in 1 .. Len(tun[q]) : tun[q][i].c = c
          \/ s.f \in {"SYN", "ACK"} /\ s.c = c
      BY <1>1, <1>2, <2>3
    <3> QED
      BY <1>6, <3>1, Zenon DEF Answered
  <2>4. CASE \E q \in Port : \/ \E i \in 1 .. Len(rx_queue'[q]) : rx_queue'[q][i].c = c
                             \/ Has(toNs'[q], "ACK", c)
    <3>1. \E q \in Port : \/ \E i \in 1 .. Len(rx_queue[q]) : rx_queue[q][i].c = c
                          \/ Has(toNs[q], "ACK", c)
      BY <1>3, <1>4, <2>4, Zenon
    <3> QED
      BY <3>1, Zenon DEF Answered
  <2> QED
    BY <2>1, <2>2, <2>3, <2>4, Zenon DEF Answered
<1> QED
  BY <1>7

LEMMA KernelForgotten ==
  ASSUME Wire, NEW p \in Port, NEW s, Popped(p, s)
  PROVE  ForgottenOnReset'
<1> DEFINE n == Len(toNs[p])
<1>1. /\ s \in Segment /\ s.c \in Conn /\ toNs[p][1] = s /\ 1 \in 1 .. n
      /\ Len(toNs'[p]) = n - 1 /\ \A i \in 1 .. n - 1 : toNs'[p][i] = toNs[p][i + 1]
      /\ \A q \in Port : q # p => toNs'[q] = toNs[q] /\ peer'[q] = peer[q] /\ tun'[q] = tun[q]
  BY Zenon DEF Popped
<1>2. /\ \/ peer'[p].c \in {peer[p].c, NoConn}
         \/ peer[p].c = NoConn /\ s.f = "SYN" /\ peer'[p].c = s.c
      /\ s.f = "RST" /\ peer[p].c = s.c => peer'[p].c = NoConn
      /\ \A i \in 1 .. Len(tun'[p]) :
           \/ i \in 1 .. Len(tun[p]) /\ tun'[p][i] = tun[p][i]
           \/ /\ tun'[p][i].c = s.c /\ s.f \in {"SYN", "ACK"}
              /\ tun'[p][i].f = "RST" => peer'[p].c # s.c
  BY Zenon DEF Popped
<1>3. UNCHANGED <<stream, states, handle_to_port, sockets, rx_queue, pc>>
  BY Zenon DEF Popped
<1>4. ForgottenOnReset'
  <2> SUFFICES ASSUME NEW c \in Conn, NEW q \in Port,
                      Has(tun'[q], "RST", c) \/ Has(rx_queue'[q], "RST", c), peer'[q].c = c
               PROVE  FALSE
    BY Zenon DEF ForgottenOnReset
  <2>1. CASE Has(tun[q], "RST", c) \/ Has(rx_queue[q], "RST", c)
    <3>1. Answered(c) /\ peer[q].c # c
      BY <2>1, Zenon DEF Wire, ForgottenOnReset, Answered, Has, At
    <3>2. q = p /\ s.f = "SYN" /\ s.c = c
      BY <1>1, <1>2, <3>1, PublishedAssumption
    <3>3. Has(toNs[p], "SYN", c)
      BY <1>1, <3>2, Zenon DEF Has, At, n
    <3> QED
      BY <3>1, <3>3, Zenon DEF Wire, AfterSyn, Handled
  <2>2. CASE ~Has(tun[q], "RST", c) /\ Has(tun'[q], "RST", c)
    <3>2. PICK i \in 1 .. Len(tun'[q]) : At(tun'[q], i, "RST", c)
      BY <2>2, Zenon DEF Has
    <3>3. ~(i \in 1 .. Len(tun[q]) /\ tun'[q][i] = tun[q][i])
      BY <2>2, <3>2, Zenon DEF Has, At
    <3>1. q = p /\ s.c = c /\ peer'[p].c # s.c
      BY <1>1, <1>2, <3>2, <3>3 DEF At
    <3> QED
      BY <3>1
  <2> QED
    BY <1>3, <2>1, <2>2
<1> QED
  BY <1>4

\* What the kernel holds, it held before or takes from the SYN; and the RSTs
\* behind the head stay.
LEMMA PoppedPeers ==
  ASSUME NEW p \in Port, NEW s, Popped(p, s), NEW c \in Conn
  PROVE  /\ peer'[p].c = c => \/ peer[p].c = c /\ ~(s.f = "RST" /\ s.c = c)
                              \/ At(toNs[p], 1, "SYN", c)
         /\ \A q \in Port : q # p => (peer'[q].c = c <=> peer[q].c = c)
         /\ \A k \in 1 .. Len(toNs[p]) : At(toNs[p], k, "RST", c) /\ k > 1 =>
              k - 1 \in 1 .. Len(toNs'[p]) /\ At(toNs'[p], k - 1, "RST", c)
<1>1. /\ peer'[p].c = c => \/ peer[p].c = c /\ ~(s.f = "RST" /\ s.c = c)
                           \/ At(toNs[p], 1, "SYN", c)
      /\ \A q \in Port : q # p => (peer'[q].c = c <=> peer[q].c = c)
  BY PublishedAssumption, Zenon DEF Popped, At
<1>2. Len(toNs'[p]) = Len(toNs[p]) - 1
  BY Zenon DEF Popped
<1>3. \A k \in 1 .. Len(toNs[p]) : At(toNs[p], k, "RST", c) /\ k > 1 =>
        k - 1 \in 1 .. Len(toNs'[p]) /\ At(toNs'[p], k - 1, "RST", c)
  BY <1>2, PoppedPlaces, Zenon DEF At
<1> QED
  BY <1>1, <1>3, Zenon

LEMMA KernelAnswerable ==
  ASSUME Wire, NEW p \in Port, NEW s, Popped(p, s)
  PROVE  Answerable'
<1> DEFINE n == Len(toNs[p])
<1>1. /\ s \in Segment /\ s.c \in Conn /\ toNs[p][1] = s /\ 1 \in 1 .. n
      /\ Len(toNs'[p]) = n - 1 /\ \A i \in 1 .. n - 1 : toNs'[p][i] = toNs[p][i + 1]
      /\ \A q \in Port : q # p => toNs'[q] = toNs[q] /\ peer'[q] = peer[q] /\ tun'[q] = tun[q]
  BY Zenon DEF Popped
<1>2. UNCHANGED <<stream, states, handle_to_port, sockets, rx_queue, pc>>
  BY Zenon DEF Popped
<1>3. n \in Nat
  BY Zenon DEF Popped
<1>4. /\ \A i \in 1 .. n - 1 : i + 1 \in 1 .. n
      /\ \A i \in 1 .. n : i > 1 => i - 1 \in 1 .. n - 1 /\ toNs'[p][i - 1] = toNs[p][i]
  BY PoppedPlaces, Zenon
<1>5. \A c \in Conn :
        /\ peer'[p].c = c => \/ peer[p].c = c /\ ~(s.f = "RST" /\ s.c = c)
                             \/ At(toNs[p], 1, "SYN", c)
        /\ \A q \in Port : q # p => (peer'[q].c = c <=> peer[q].c = c)
  BY PoppedPeers
<1>6. \A c \in Conn : \A k \in 1 .. n : At(toNs[p], k, "RST", c) /\ k > 1 =>
         k - 1 \in 1 .. Len(toNs'[p]) /\ At(toNs'[p], k - 1, "RST", c)
  BY PoppedPeers, Zenon
<1> HIDE DEF n
<1>7. Answerable'
  <2> SUFFICES ASSUME pc # "stopped", NEW c \in Conn, NEW q \in Port
               PROVE  /\ peer'[q].c = c => Serving(q, c)' \/ ResetBehind(q, c, 0)'
                      /\ \A i \in 1 .. Len(toNs'[q]) :
                           At(toNs'[q], i, "SYN", c) => Serving(q, c)' \/ ResetBehind(q, c, i)'
    BY <1>2, Zenon DEF Answerable
  <2>1. Serving(q, c)' <=> Serving(q, c)
    BY <1>2 DEF Serving
  <2>2. CASE q # p
    <3>1. toNs'[q] = toNs[q] /\ (peer'[q].c = c <=> peer[q].c = c)
      BY <1>1, <1>5, <2>2, Zenon
    <3>2. \A i : ResetBehind(q, c, i)' <=> ResetBehind(q, c, i)
      BY <3>1 DEF ResetBehind, At
    <3> QED
      BY <2>1, <3>1, <3>2, Zenon DEF Wire, Answerable
  <2>3. ASSUME q = p, NEW i \in 1 .. n, ResetBehind(p, c, i) PROVE ResetBehind(p, c, i - 1)'
    <3>1. PICK k \in 1 .. n : k > i /\ At(toNs[p], k, "RST", c)
      BY <2>3 DEF ResetBehind, n
    <3>2. k > 1 /\ k - 1 > i - 1
      BY <1>3, <3>1
    <3> QED
      BY <1>6, <3>1, <3>2 DEF ResetBehind
  <2>4. ASSUME q = p, peer'[p].c = c PROVE Serving(p, c) \/ ResetBehind(p, c, 0)'
    <3>1. CASE peer[p].c = c /\ ~(s.f = "RST" /\ s.c = c)
      <4>1. CASE ResetBehind(p, c, 0)
        <5>1. PICK k \in 1 .. n : At(toNs[p], k, "RST", c)
          BY <4>1 DEF ResetBehind, n
        <5>2. k > 1 /\ k - 1 > 0
          BY <1>1, <1>3, <3>1, <5>1 DEF At
        <5> QED
          BY <1>6, <5>1, <5>2 DEF ResetBehind
      <4> QED
        BY <3>1, <4>1, Zenon DEF Wire, Answerable
    <3>2. CASE At(toNs[p], 1, "SYN", c)
      <4>1. Serving(p, c) \/ ResetBehind(p, c, 1)
        BY <1>1, <3>2, Zenon DEF Wire, Answerable, n
      <4> QED
        BY <1>1, <2>3, <2>4, <4>1
    <3> QED
      BY <1>5, <2>4, <3>1, <3>2
  <2>5. ASSUME q = p, NEW i \in 1 .. Len(toNs'[p]), At(toNs'[p], i, "SYN", c)
        PROVE  Serving(p, c) \/ ResetBehind(p, c, i)'
    <3>3. i \in 1 .. n - 1 /\ toNs'[p][i].f = "SYN" /\ toNs'[p][i].c = c
      BY <1>1, <2>5, Zenon DEF At
    <3>4. i + 1 \in 1 .. n /\ (i + 1) - 1 = i /\ toNs[p][i + 1] = toNs'[p][i]
      BY <1>1, <1>4, <3>3
    <3>1. i + 1 \in 1 .. n /\ At(toNs[p], i + 1, "SYN", c) /\ (i + 1) - 1 = i
      BY <3>3, <3>4, Zenon DEF At, n
    <3>2. Serving(p, c) \/ ResetBehind(p, c, i + 1)
      BY <3>1, Zenon DEF Wire, Answerable, n
    <3> QED
      BY <2>3, <2>5, <3>1, <3>2
  <2> QED
    BY <2>1, <2>2, <2>4, <2>5, Zenon
<1> QED
  BY <1>7

LEMMA KernelSeparated ==
  ASSUME Wire, NEW p \in Port, NEW s, Popped(p, s)
  PROVE  Separated'
<1> DEFINE n == Len(toNs[p])
<1>1. /\ s \in Segment /\ s.c \in Conn /\ toNs[p][1] = s /\ 1 \in 1 .. n
      /\ Len(toNs'[p]) = n - 1 /\ \A i \in 1 .. n - 1 : toNs'[p][i] = toNs[p][i + 1]
      /\ \A q \in Port : q # p => toNs'[q] = toNs[q] /\ peer'[q] = peer[q] /\ tun'[q] = tun[q]
  BY Zenon DEF Popped
<1>2. n \in Nat
  BY Zenon DEF Popped
<1>3. /\ \A i \in 1 .. n - 1 : i + 1 \in 1 .. n
      /\ \A i \in 1 .. n : i > 1 => i - 1 \in 1 .. n - 1 /\ toNs'[p][i - 1] = toNs[p][i]
  BY PoppedPlaces, Zenon
<1>4. \A c \in Conn :
        /\ peer'[p].c = c => \/ peer[p].c = c /\ ~(s.f = "RST" /\ s.c = c)
                             \/ At(toNs[p], 1, "SYN", c)
        /\ \A q \in Port : q # p => (peer'[q].c = c <=> peer[q].c = c)
  BY PoppedPeers
<1>5. \A c \in Conn : \A k \in 1 .. n : At(toNs[p], k, "RST", c) /\ k > 1 =>
         k - 1 \in 1 .. Len(toNs'[p]) /\ At(toNs'[p], k - 1, "RST", c)
  BY PoppedPeers, Zenon
<1> HIDE DEF n
<1>6. Separated'
  <2> SUFFICES ASSUME NEW q \in Port, NEW j \in 1 .. Len(toNs'[q]), toNs'[q][j].f = "SYN",
                      NEW c \in Conn
               PROVE  /\ peer'[q].c = c => ResetBetween(q, c, 0, j)'
                      /\ \A i \in 1 .. j - 1 :
                           At(toNs'[q], i, "SYN", c) => ResetBetween(q, c, i, j)'
    BY Zenon DEF Separated
  <2>1. CASE q # p
    <3>1. toNs'[q] = toNs[q] /\ (peer'[q].c = c <=> peer[q].c = c)
      BY <1>1, <1>4, <2>1, Zenon
    <3>2. \A i : ResetBetween(q, c, i, j)' <=> ResetBetween(q, c, i, j)
      BY <3>1 DEF ResetBetween, At
    <3> QED
      BY <3>1, <3>2, Zenon DEF Wire, Separated
  <2>2. ASSUME q = p PROVE /\ j + 1 \in 1 .. n /\ toNs[p][j + 1].f = "SYN"
                           /\ j \in Nat /\ j \in 1 .. n - 1
    <3>1. j \in 1 .. n - 1 /\ toNs'[p][j].f = "SYN"
      BY <1>1, <2>2, Zenon
    <3> QED
      BY <1>1, <1>3, <3>1
  <2>3. ASSUME q = p, NEW i \in 1 .. j, ResetBetween(p, c, i, j + 1)
        PROVE  ResetBetween(p, c, i - 1, j)'
    <3>1. PICK k \in 1 .. n : i < k /\ k < j + 1 /\ At(toNs[p], k, "RST", c)
      BY <2>3 DEF ResetBetween, n
    <3>2. k > 1 /\ i - 1 < k - 1 /\ k - 1 < j
      BY <1>2, <2>2, <2>3, <3>1
    <3> QED
      BY <1>5, <3>1, <3>2, Zenon DEF ResetBetween
  <2>4. ASSUME q = p, peer'[p].c = c PROVE ResetBetween(p, c, 0, j)'
    <3>1. CASE peer[p].c = c /\ ~(s.f = "RST" /\ s.c = c)
      <4>1. ResetBetween(p, c, 0, j + 1)
        BY <2>2, <2>4, <3>1, Zenon DEF Wire, Separated, n
      <4>2. PICK k \in 1 .. n : k < j + 1 /\ At(toNs[p], k, "RST", c)
        BY <4>1 DEF ResetBetween, n
      <4>3. k > 1 /\ 0 < k - 1 /\ k - 1 < j
        BY <1>1, <1>2, <2>2, <2>4, <3>1, <4>2 DEF At
      <4> QED
        BY <1>5, <4>2, <4>3 DEF ResetBetween
    <3>2. CASE At(toNs[p], 1, "SYN", c)
      <4>1. 1 \in 1 .. (j + 1) - 1 /\ 1 \in 1 .. j
        BY <2>2, <2>4
      <4>2. ResetBetween(p, c, 1, j + 1)
        BY <2>2, <2>4, <3>2, <4>1, Zenon DEF Wire, Separated, n
      <4> QED
        BY <2>3, <2>4, <4>1, <4>2
    <3> QED
      BY <1>4, <2>4, <3>1, <3>2, Zenon
  <2>5. ASSUME q = p, NEW i \in 1 .. j - 1, At(toNs'[p], i, "SYN", c)
        PROVE  ResetBetween(p, c, i, j)'
    <3>1. /\ (i + 1) - 1 = i /\ i + 1 \in 1 .. (j + 1) - 1 /\ i + 1 \in 1 .. j
      BY <2>2, <2>5
    <3>4. toNs'[p][i].f = "SYN" /\ toNs'[p][i].c = c /\ i \in 1 .. n - 1
      BY <1>2, <2>2, <2>5 DEF At
    <3>5. i + 1 \in 1 .. n /\ toNs[p][i + 1] = toNs'[p][i]
      BY <1>1, <1>3, <3>4, Zenon
    <3>3. At(toNs[p], i + 1, "SYN", c)
      BY <3>4, <3>5, Zenon DEF At, n
    <3>2. ResetBetween(p, c, i + 1, j + 1)
      BY <2>2, <2>5, <3>1, <3>3, Zenon DEF Wire, Separated, n
    <3> QED
      BY <2>3, <2>5, <3>1, <3>2
  <2> QED
    BY <2>1, <2>4, <2>5, Zenon
<1> QED
  BY <1>6

LEMMA KernelReceivesWire ==
  ASSUME TypeOK, KnownPeers, Wire, NEW p \in Port, KernelReceives(p)
  PROVE  Wire'
<1> PICK s : s = Head(toNs[p])
  OBVIOUS
<1>1. Popped(p, s)
  BY KernelEffect
<1> QED
  BY <1>1, KernelSynOnce, KernelAfterSyn, KernelForgotten, KernelAnswerable, KernelSeparated DEF Wire

\* The queue of a port after one segment more was written: the RST with which
\* ingress answers, or what egress sends.
LEMMA AppendedAt ==
  ASSUME TypeOK, NEW p \in Port, NEW x \in Segment, toNs'[p] = Append(toNs[p], x)
  PROVE  /\ Len(toNs'[p]) = Len(toNs[p]) + 1 /\ Len(toNs[p]) \in Nat
         /\ toNs'[p][Len(toNs[p]) + 1] = x
         /\ \A i \in 1 .. Len(toNs[p]) : i \in 1 .. Len(toNs'[p]) /\ toNs'[p][i] = toNs[p][i]
         /\ \A i \in 1 .. Len(toNs'[p]) : i \in 1 .. Len(toNs[p]) \/ i = Len(toNs[p]) + 1
<1>1. toNs[p] \in Seq(Segment)
  BY Queues
<1> QED
  BY <1>1

\* Ingress takes the segment s off the receive queue of port p.
Accepted(p, s) ==
  /\ s \in Segment /\ s.c \in Conn /\ 1 \in 1 .. Len(rx_queue[p]) /\ rx_queue[p][1] = s
  /\ \A q \in Port : \A i \in 1 .. Len(rx_queue'[q]) :
       \E j \in 1 .. Len(rx_queue[q]) : rx_queue'[q][i] = rx_queue[q][j]
  /\ UNCHANGED <<stream, states, handle_to_port, pc, tun, peer>>

LEMMA IngressEffect ==
  ASSUME TypeOK, NEW p \in Port, Ingress(p), NEW s, s = Head(rx_queue[p])
  PROVE  Accepted(p, s)
<1>1. rx_queue[p] \in Seq(Segment) /\ rx_queue[p] # <<>> /\ rx_queue'[p] = Tail(rx_queue[p])
  BY Queues, Zenon DEF Ingress
<1>2. /\ s \in Segment /\ rx_queue[p][1] = s /\ 1 \in 1 .. Len(rx_queue[p])
      /\ \A i \in 1 .. Len(rx_queue'[p]) :
           i + 1 \in 1 .. Len(rx_queue[p]) /\ rx_queue'[p][i] = rx_queue[p][i + 1]
  BY <1>1
<1>3. s.c \in Conn
  BY <1>2, Zenon DEF Segment
<1>4. /\ \A q \in Port : q # p => rx_queue'[q] = rx_queue[q]
      /\ UNCHANGED <<stream, states, handle_to_port, pc, tun, peer>>
  BY Queues, Zenon DEF Ingress, hostVars, tableVars
<1>5. \A q \in Port : \A i \in 1 .. Len(rx_queue'[q]) :
        \E j \in 1 .. Len(rx_queue[q]) : rx_queue'[q][i] = rx_queue[q][j]
  BY <1>2, <1>4
<1> QED
  BY <1>2, <1>3, <1>4, <1>5, Zenon DEF Accepted

\* What a segment taken from the receive queue says of the wire: the SYN of its
\* connection was handled, and no RST is new.
LEMMA AcceptedWire ==
  ASSUME Wire, NEW p \in Port, NEW s, Accepted(p, s)
  PROVE  /\ Handled(s.c) /\ ForgottenOnReset'
         /\ \A c \in Conn : Past(c)' <=> Past(c)
         /\ \A c \in Conn : Answered(c)' => \/ Answered(c) \/ sockets'[c].owes = "ACK"
                                            \/ \E q \in Port : Has(toNs'[q], "ACK", c)
<1>1. Answered(s.c) /\ s.c \in Conn
  BY Zenon DEF Answered, Accepted
<1>2. Handled(s.c)
  BY <1>1 DEF Wire, AfterSyn
<1>3. \A c \in Conn : Past(c)' <=> Past(c)
  BY Zenon DEF Past, Accepted
<1>4. \A q \in Port : \A c : Has(rx_queue'[q], "RST", c) => Has(rx_queue[q], "RST", c)
  BY DEF Has, At, Accepted
<1>7. UNCHANGED <<tun, peer>>
  BY Zenon DEF Accepted
<1>5. ForgottenOnReset'
  BY <1>4, <1>7 DEF Wire, ForgottenOnReset
<1>6. \A c \in Conn : Answered(c)' => \/ Answered(c) \/ sockets'[c].owes = "ACK"
                                      \/ \E q \in Port : Has(toNs'[q], "ACK", c)
  <2> SUFFICES ASSUME NEW c \in Conn, Answered(c)', ~Answered(c)
               PROVE  sockets'[c].owes = "ACK" \/ \E q \in Port : Has(toNs'[q], "ACK", c)
    BY Zenon
  <2>1. \A q \in Port : \A i \in 1 .. Len(rx_queue[q]) : rx_queue[q][i].c # c
    BY Zenon DEF Answered
  <2>2. \A q \in Port : \A i \in 1 .. Len(rx_queue'[q]) : rx_queue'[q][i].c # c
    BY <2>1 DEF Accepted
  <2> QED
    BY <1>7, <2>2, Zenon DEF Answered
<1> QED
  BY <1>2, <1>3, <1>5, <1>6

\* What a segment does to the socket it is for: a RST closes it, nothing else
\* does, and it owes no new SYN.
LEMMA SegmentOnSocket ==
  ASSUME NEW sock \in Socket, NEW flag, sock.state # "Closed"
  PROVE  /\ flag = "RST" => /\ AfterSegment(sock, flag).state = "Closed"
                            /\ AfterSegment(sock, flag).owes = "nothing"
         /\ flag # "RST" => /\ AfterSegment(sock, flag).state # "Closed"
                            /\ AfterSegment(sock, flag).owes \in {"ACK", sock.owes}
<1> DEFINE after == AfterSegment(sock, flag)
<1>1. \/ flag = "RST" /\ after = [state |-> "Closed", owes |-> "nothing"]
      \/ flag # "RST" /\ after = [state |-> "Established", owes |-> "ACK"]
      \/ flag # "RST" /\ after = [sock EXCEPT !.state = "CloseWait"]
      \/ flag # "RST" /\ after = sock
  BY Zenon DEF AfterSegment
<1> HIDE DEF after
<1>2. /\ flag = "RST" => after.state = "Closed" /\ after.owes = "nothing"
      /\ flag # "RST" => after.state # "Closed" /\ after.owes \in {"ACK", sock.owes}
  BY <1>1 DEF Socket
<1> QED
  BY <1>2, Zenon DEF after

\* The segment is the socket's, and changes it.
LEMMA SegmentWire ==
  ASSUME TypeOK, Wire, NEW p \in Port, NEW s, Accepted(p, s), s.c \in OnPort(p),
         sockets' = [sockets EXCEPT ![s.c] = AfterSegment(@, s.f)], toNs' = toNs
  PROVE  Wire'
<1> DEFINE d == s.c
<1>1. /\ handle_to_port[d] = p /\ sockets[d].state \notin {"Free", "Closed"}
      /\ sockets'[d] = AfterSegment(sockets[d], s.f)
      /\ \A c \in Conn : c # d => sockets'[c] = sockets[c]
      /\ d \in Conn /\ sockets[d] \in Socket
  BY Zenon DEF OnPort, TypeOK, Accepted
<1>2. /\ s.f = "RST" => sockets'[d].state = "Closed" /\ sockets'[d].owes = "nothing"
      /\ s.f # "RST" => /\ sockets'[d].state # "Closed"
                        /\ sockets'[d].owes \in {"ACK", sockets[d].owes}
  BY <1>1, SegmentOnSocket
<1>3. \A c \in Conn : /\ sockets'[c].owes = "SYN" => sockets[c].owes = "SYN"
                      /\ sockets'[c].owes = "ACK" => sockets[c].owes = "ACK" \/ c = d
  BY <1>1, <1>2, Zenon
<1> HIDE DEF d
<1>4. \A c \in Conn : Past(c)' <=> Past(c)
  BY AcceptedWire, Zenon
<1>5. SynOnce'
  BY <1>3, <1>4 DEF Wire, SynOnce
<1>6. AfterSyn'
  <2>1. \A c \in Conn : Handled(c) => Handled(c)'
    BY <1>3, <1>4, Zenon DEF Handled
  <2>2. \A c \in Conn : Answered(c)' => Answered(c) \/ c = d
    BY <1>3, AcceptedWire, Zenon DEF Answered
  <2>3. Handled(d)
    BY AcceptedWire, Zenon DEF d
  <2> QED
    BY <2>1, <2>2, <2>3, AfterSynStep DEF Wire
<1>7. \A q \in Port, c \in Conn : Serving(q, c) =>
        Serving(q, c)' \/ (q = p /\ c = d /\ s.f = "RST")
  BY <1>1, <1>2, Zenon DEF Serving, Accepted
<1>8. s.f = "RST" => peer[p].c # d /\ ~Has(toNs[p], "SYN", d)
  <2>1. s.f = "RST" => Has(rx_queue[p], "RST", d)
    BY Zenon DEF Has, At, Accepted, d
  <2>2. Handled(d)
    BY AcceptedWire, Zenon DEF d
  <2> QED
    BY <1>1, <2>1, <2>2, Zenon DEF Wire, ForgottenOnReset, Handled
<1>9. UNCHANGED <<pc, peer>>
  BY Zenon DEF Accepted
<1>10. Answerable'
  BY <1>7, <1>8, <1>9 DEF Wire, Answerable, ResetBehind, Has
<1>11. Separated'
  BY <1>9 DEF Wire, Separated, ResetBetween
<1> QED
  BY <1>5, <1>6, <1>10, <1>11, AcceptedWire, Zenon DEF Wire

\* Nothing but RSTs is added to the queues towards the kernel.
ResetsAdded ==
  \A q \in Port :
    /\ \A i \in 1 .. Len(toNs[q]) : i \in 1 .. Len(toNs'[q]) /\ toNs'[q][i] = toNs[q][i]
    /\ \A i \in 1 .. Len(toNs'[q]) : i \in 1 .. Len(toNs[q]) \/ toNs'[q][i].f = "RST"

LEMMA ResetAppended ==
  ASSUME TypeOK, NEW p \in Port, NEW d \in Conn,
         \/ toNs' = toNs
         \/ toNs' = [toNs EXCEPT ![p] = Append(@, [f |-> "RST", c |-> d])]
  PROVE  ResetsAdded
<1> SUFFICES ASSUME NEW q \in Port
             PROVE  /\ \A i \in 1 .. Len(toNs[q]) : i \in 1 .. Len(toNs'[q]) /\ toNs'[q][i] = toNs[q][i]
                    /\ \A i \in 1 .. Len(toNs'[q]) : i \in 1 .. Len(toNs[q]) \/ toNs'[q][i].f = "RST"
  BY Zenon DEF ResetsAdded
<1>1. CASE toNs'[q] = toNs[q]
  BY <1>1, Zenon
<1>2. CASE toNs'[q] = Append(toNs[q], [f |-> "RST", c |-> d])
  <2>1. [f |-> "RST", c |-> d] \in Segment
    BY Zenon DEF Segment
  <2> QED
    BY <1>2, <2>1, AppendedAt
<1> QED
  BY <1>1, <1>2, Queues, Zenon

\* Then the SYNs and ACKs there were there before, and every RST stays.
LEMMA ResetsAddedPlaces ==
  ASSUME ResetsAdded, NEW q \in Port
  PROVE  /\ \A c : \A flag \in {"SYN", "ACK"} : \A i \in 1 .. Len(toNs'[q]) :
              At(toNs'[q], i, flag, c) => i \in 1 .. Len(toNs[q]) /\ At(toNs[q], i, flag, c)
         /\ \A c : \A flag \in {"SYN", "ACK"} : Has(toNs'[q], flag, c) => Has(toNs[q], flag, c)
         /\ \A c, i : ResetBehind(q, c, i) => ResetBehind(q, c, i)'
         /\ \A c, i, j : ResetBetween(q, c, i, j) => ResetBetween(q, c, i, j)'
<1>1. /\ \A i \in 1 .. Len(toNs[q]) : i \in 1 .. Len(toNs'[q]) /\ toNs'[q][i] = toNs[q][i]
      /\ \A i \in 1 .. Len(toNs'[q]) : i \in 1 .. Len(toNs[q]) \/ toNs'[q][i].f = "RST"
  BY Zenon DEF ResetsAdded
<1>2. \A c : \A flag \in {"SYN", "ACK"} : \A i \in 1 .. Len(toNs'[q]) :
        At(toNs'[q], i, flag, c) => i \in 1 .. Len(toNs[q]) /\ At(toNs[q], i, flag, c)
  BY <1>1, Zenon DEF At
<1>3. \A c : \A flag \in {"SYN", "ACK"} : Has(toNs'[q], flag, c) => Has(toNs[q], flag, c)
  BY <1>2, Zenon DEF Has
<1>4. \A c : \A k \in 1 .. Len(toNs[q]) :
        At(toNs[q], k, "RST", c) => k \in 1 .. Len(toNs'[q]) /\ At(toNs'[q], k, "RST", c)
  BY <1>1, Zenon DEF At
<1>5. \A c, i : ResetBehind(q, c, i) => ResetBehind(q, c, i)'
  BY <1>4, Zenon DEF ResetBehind
<1>6. \A c, i, j : ResetBetween(q, c, i, j) => ResetBetween(q, c, i, j)'
  BY <1>4, Zenon DEF ResetBetween
<1> QED
  BY <1>2, <1>3, <1>5, <1>6, Zenon

\* Nothing happens, or a RST is the answer.
LEMMA RefusedWire ==
  ASSUME Wire, NEW p \in Port, NEW s, Accepted(p, s), sockets' = sockets, ResetsAdded
  PROVE  Wire'
<1>1. UNCHANGED <<handle_to_port, pc, peer>>
  BY Zenon DEF Accepted
<1>2. \A q \in Port, c \in Conn : \A i \in 1 .. Len(toNs'[q]) :
        At(toNs'[q], i, "SYN", c) => i \in 1 .. Len(toNs[q]) /\ At(toNs[q], i, "SYN", c)
  BY ResetsAddedPlaces, Zenon
<1>3. \A q \in Port : \A c : \A flag \in {"SYN", "ACK"} : Has(toNs'[q], flag, c) => Has(toNs[q], flag, c)
  BY ResetsAddedPlaces, Zenon
<1>4. \A c \in Conn : Past(c)' <=> Past(c)
  BY AcceptedWire
<1>5. SynOnce'
  BY <1>2, <1>4 DEF Wire, SynOnce
<1>6. AfterSyn'
  <2>1. \A c \in Conn : Handled(c) => Handled(c)'
    BY <1>3, <1>4 DEF Handled
  <2>2. \A c \in Conn : Answered(c)' => Answered(c)
    <3>1. \A c \in Conn : Answered(c)' => \/ Answered(c) \/ sockets[c].owes = "ACK"
                                          \/ \E q \in Port : Has(toNs'[q], "ACK", c)
      BY AcceptedWire
    <3>2. \A c \in Conn : \A q \in Port : Has(toNs'[q], "ACK", c) => Has(toNs[q], "ACK", c)
      BY <1>3
    <3>3. \A c \in Conn : sockets[c].owes = "ACK" \/ (\E q \in Port : Has(toNs[q], "ACK", c)) => Answered(c)
      BY Zenon DEF Answered
    <3> QED
      BY <3>1, <3>2, <3>3
  <2> QED
    BY <2>1, <2>2, AfterSynStep DEF Wire
<1>7. Answerable'
  <2>1. \A q \in Port, c \in Conn : \A i : ResetBehind(q, c, i) => ResetBehind(q, c, i)'
    BY ResetsAddedPlaces, Zenon
  <2>2. \A q \in Port, c \in Conn : Serving(q, c) => Serving(q, c)'
    BY <1>1 DEF Serving
  <2> QED
    BY <1>1, <1>2, <2>1, <2>2, Zenon DEF Wire, Answerable
<1>8. Separated'
  <2> SUFFICES ASSUME NEW q \in Port, NEW j \in 1 .. Len(toNs'[q]), toNs'[q][j].f = "SYN",
                      NEW c \in Conn
               PROVE  /\ peer'[q].c = c => ResetBetween(q, c, 0, j)'
                      /\ \A i \in 1 .. j - 1 :
                           At(toNs'[q], i, "SYN", c) => ResetBetween(q, c, i, j)'
    BY Zenon DEF Separated
  <2>1. j \in 1 .. Len(toNs[q]) /\ toNs[q][j].f = "SYN"
    BY Zenon DEF ResetsAdded
  <2>2. \A i : At(toNs'[q], i, "SYN", c) => At(toNs[q], i, "SYN", c)
    BY <1>2, Zenon DEF At
  <2>3. \A i : ResetBetween(q, c, i, j) => ResetBetween(q, c, i, j)'
    BY ResetsAddedPlaces, Zenon
  <2> QED
    BY <1>1, <2>1, <2>2, <2>3, Zenon DEF Wire, Separated
<1> QED
  BY <1>5, <1>6, <1>7, <1>8, AcceptedWire DEF Wire

LEMMA IngressWire ==
  ASSUME TypeOK, Wire, NEW p \in Port, Ingress(p)
  PROVE  Wire'
<1> PICK s : s = Head(rx_queue[p])
  OBVIOUS
<1>1. Accepted(p, s) /\ s.c \in Conn
  BY IngressEffect, Zenon DEF Accepted
<1>2. \/ /\ s.c \in OnPort(p) /\ sockets' = [sockets EXCEPT ![s.c] = AfterSegment(@, s.f)]
         /\ toNs' = toNs
      \/ sockets' = sockets /\ toNs' = toNs
      \/ sockets' = sockets /\ toNs' = [toNs EXCEPT ![p] = Append(@, [f |-> "RST", c |-> s.c])]
  BY Zenon DEF Ingress
<1>3. CASE sockets' = sockets /\ \/ toNs' = toNs
                                 \/ toNs' = [toNs EXCEPT ![p] = Append(@, [f |-> "RST", c |-> s.c])]
  BY <1>1, <1>3, ResetAppended, RefusedWire, Zenon
<1>4. ASSUME s.c \in OnPort(p), sockets' = [sockets EXCEPT ![s.c] = AfterSegment(@, s.f)], toNs' = toNs
      PROVE  Wire'
  BY <1>1, <1>4, SegmentWire, Zenon
<1> QED
  BY <1>2, <1>3, <1>4, Zenon

\* Egress appends to the queue of each port what the connection there owes, and
\* every connection that owes something is the only one on its port.
LEMMA EgressEffect ==
  ASSUME TypeOK, Tables, Egress, NEW p \in Port
  PROVE  /\ Len(toNs[p]) \in Nat /\ Len(toNs'[p]) \in Nat
         /\ \A i \in 1 .. Len(toNs[p]) : i \in 1 .. Len(toNs'[p]) /\ toNs'[p][i] = toNs[p][i]
         /\ \A i \in 1 .. Len(toNs'[p]) : i \notin 1 .. Len(toNs[p]) =>
              /\ i = Len(toNs[p]) + 1
              /\ \E c \in Conn : /\ toNs'[p][i] = [f |-> sockets[c].owes, c |-> c]
                                 /\ handle_to_port[c] = p /\ sockets[c].owes # "nothing"
         /\ \A c \in Conn : handle_to_port[c] = p /\ sockets[c].owes # "nothing" =>
              At(toNs'[p], Len(toNs[p]) + 1, sockets[c].owes, c)
<1>1. toNs[p] \in Seq(Segment) /\ toNs'[p] = toNs[p] \o Owed(p)
  BY Queues, Zenon DEF Egress
<1>2. CASE /\ Owed(p) = <<>>
           /\ \A c \in Conn : handle_to_port[c] = p => sockets[c].owes = "nothing"
  <2>1. toNs'[p] = toNs[p]
    BY <1>1, <1>2
  <2> QED
    BY <1>1, <1>2, <2>1
<1>3. ASSUME NEW d \in Conn, handle_to_port[d] = p, sockets[d].owes # "nothing",
             Owed(p) = <<[f |-> sockets[d].owes, c |-> d]>>,
             [f |-> sockets[d].owes, c |-> d] \in Segment
      PROVE  /\ Len(toNs[p]) \in Nat /\ Len(toNs'[p]) \in Nat
             /\ \A i \in 1 .. Len(toNs[p]) : i \in 1 .. Len(toNs'[p]) /\ toNs'[p][i] = toNs[p][i]
             /\ \A i \in 1 .. Len(toNs'[p]) : i \notin 1 .. Len(toNs[p]) =>
                  /\ i = Len(toNs[p]) + 1
                  /\ \E c \in Conn : /\ toNs'[p][i] = [f |-> sockets[c].owes, c |-> c]
                                     /\ handle_to_port[c] = p /\ sockets[c].owes # "nothing"
             /\ \A c \in Conn : handle_to_port[c] = p /\ sockets[c].owes # "nothing" =>
                  At(toNs'[p], Len(toNs[p]) + 1, sockets[c].owes, c)
  <2> DEFINE x == [f |-> sockets[d].owes, c |-> d]
  <2>1. x.f = sockets[d].owes /\ x.c = d
    OBVIOUS
  <2>2. x \in Segment /\ toNs'[p] = toNs[p] \o <<x>>
    BY <1>1, <1>3, Zenon
  <2> HIDE DEF x
  <2>3. toNs'[p] = Append(toNs[p], x)
    BY <1>1, <2>2
  <2>4. /\ Len(toNs'[p]) = Len(toNs[p]) + 1 /\ Len(toNs[p]) \in Nat
        /\ toNs'[p][Len(toNs[p]) + 1] = x
        /\ \A i \in 1 .. Len(toNs[p]) : i \in 1 .. Len(toNs'[p]) /\ toNs'[p][i] = toNs[p][i]
        /\ \A i \in 1 .. Len(toNs'[p]) : i \in 1 .. Len(toNs[p]) \/ i = Len(toNs[p]) + 1
    BY <2>2, <2>3, AppendedAt, Zenon
  <2>5. \A c \in Conn : handle_to_port[c] = p /\ sockets[c].owes # "nothing" => c = d
    <3>1. FreeSlot.owes = "nothing"
      BY DEF FreeSlot
    <3>2. \A c \in Conn : sockets[c].owes # "nothing" => states[c] # "Absent"
      BY <3>1, Zenon DEF Tables, Entries
    <3> QED
      BY <1>3, <3>2, Zenon DEF Tables, PortsBalanced
  <2>6. Len(toNs[p]) + 1 \in 1 .. Len(toNs'[p])
    BY <2>4
  <2>7. At(toNs'[p], Len(toNs[p]) + 1, sockets[d].owes, d)
    BY <2>1, <2>4, <2>6 DEF At
  <2>8. \A i \in 1 .. Len(toNs'[p]) : i \notin 1 .. Len(toNs[p]) =>
          /\ i = Len(toNs[p]) + 1 /\ toNs'[p][i] = [f |-> sockets[d].owes, c |-> d]
    BY <2>4, Zenon DEF x
  <2> QED
    BY <1>3, <2>4, <2>5, <2>7, <2>8
<1> QED
  BY <1>2, <1>3, OwedProperties, Zenon

\* A segment in a queue was there, or is the last and was owed.
LEMMA EgressPlaces ==
  ASSUME TypeOK, Tables, Egress
  PROVE  /\ UNCHANGED <<stream, states, handle_to_port, rx_queue, tun, peer>>
         /\ pc # "stopped"
         /\ \A c \in Conn : sockets'[c].state = sockets[c].state /\ sockets'[c].owes = "nothing"
         /\ \A c \in Conn : Past(c)' <=> Past(c)
         /\ \A p \in Port, c \in Conn : \A flag : \A i \in 1 .. Len(toNs'[p]) : At(toNs'[p], i, flag, c) =>
              \/ i \in 1 .. Len(toNs[p]) /\ At(toNs[p], i, flag, c)
              \/ /\ i = Len(toNs[p]) + 1 /\ i \notin 1 .. Len(toNs[p])
                 /\ handle_to_port[c] = p /\ sockets[c].owes = flag /\ flag # "nothing"
         /\ \A p \in Port : \A c, flag : \A i \in 1 .. Len(toNs[p]) :
              At(toNs[p], i, flag, c) => i \in 1 .. Len(toNs'[p]) /\ At(toNs'[p], i, flag, c)
         /\ \A p \in Port : Len(toNs[p]) \in Nat /\ Len(toNs'[p]) \in Nat
<1>1. /\ UNCHANGED <<stream, states, handle_to_port, rx_queue, tun, peer>>
      /\ pc # "stopped"
      /\ \A c \in Conn : sockets'[c].state = sockets[c].state /\ sockets'[c].owes = "nothing"
  BY DEF Egress, hostVars, tableVars, TypeOK, Socket
<1>2. \A c \in Conn : Past(c)' <=> Past(c)
  BY <1>1 DEF Past
<1>3. \A p \in Port, c \in Conn : \A flag : \A i \in 1 .. Len(toNs'[p]) : At(toNs'[p], i, flag, c) =>
        \/ i \in 1 .. Len(toNs[p]) /\ At(toNs[p], i, flag, c)
        \/ /\ i = Len(toNs[p]) + 1 /\ i \notin 1 .. Len(toNs[p])
           /\ handle_to_port[c] = p /\ sockets[c].owes = flag /\ flag # "nothing"
  <2> SUFFICES ASSUME NEW p \in Port, NEW c \in Conn, NEW flag, NEW i \in 1 .. Len(toNs'[p]),
                      At(toNs'[p], i, flag, c), i \notin 1 .. Len(toNs[p])
               PROVE  /\ i = Len(toNs[p]) + 1
                      /\ handle_to_port[c] = p /\ sockets[c].owes = flag /\ flag # "nothing"
    BY EgressEffect DEF At
  <2>1. i = Len(toNs[p]) + 1
    BY EgressEffect, Zenon
  <2>2. PICK d \in Conn : /\ toNs'[p][i] = [f |-> sockets[d].owes, c |-> d]
                          /\ handle_to_port[d] = p /\ sockets[d].owes # "nothing"
    BY EgressEffect
  <2>3. d = c /\ sockets[d].owes = flag
    BY <2>2 DEF At
  <2> QED
    BY <2>1, <2>2, <2>3
<1>4. \A p \in Port : \A c, flag : \A i \in 1 .. Len(toNs[p]) :
        At(toNs[p], i, flag, c) => i \in 1 .. Len(toNs'[p]) /\ At(toNs'[p], i, flag, c)
  BY EgressEffect DEF At
<1>5. \A p \in Port : Len(toNs[p]) \in Nat /\ Len(toNs'[p]) \in Nat
  BY EgressEffect, Zenon
<1> QED
  BY <1>1, <1>2, <1>3, <1>4, <1>5, Zenon

LEMMA EgressSynOnce ==
  ASSUME TypeOK, Tables, Wire, Egress
  PROVE  SynOnce'
<1>1. /\ UNCHANGED <<stream, states, handle_to_port, rx_queue, tun, peer>>
      /\ pc # "stopped"
      /\ \A c \in Conn : sockets'[c].state = sockets[c].state /\ sockets'[c].owes = "nothing"
  BY EgressPlaces, Zenon
<1>2. \A c \in Conn : Past(c)' <=> Past(c)
  BY EgressPlaces, Zenon
<1>3. \A p \in Port, c \in Conn : \A flag : \A i \in 1 .. Len(toNs'[p]) : At(toNs'[p], i, flag, c) =>
        \/ i \in 1 .. Len(toNs[p]) /\ At(toNs[p], i, flag, c)
        \/ /\ i = Len(toNs[p]) + 1 /\ i \notin 1 .. Len(toNs[p])
           /\ handle_to_port[c] = p /\ sockets[c].owes = flag /\ flag # "nothing"
  BY EgressPlaces, Zenon
<1>4. SynOnce'
  <2>0. \A p \in Port, c \in Conn : \A i \in 1 .. Len(toNs'[p]) : At(toNs'[p], i, "SYN", c) =>
          \/ i \in 1 .. Len(toNs[p]) /\ At(toNs[p], i, "SYN", c)
          \/ i = Len(toNs[p]) + 1 /\ handle_to_port[c] = p /\ sockets[c].owes = "SYN"
    BY <1>3, Zenon
  <2> SUFFICES ASSUME NEW c \in Conn, NEW p \in Port, NEW i \in 1 .. Len(toNs'[p]),
                      At(toNs'[p], i, "SYN", c)
               PROVE  /\ Past(c)
                      /\ \A q \in Port : \A j \in 1 .. Len(toNs'[q]) :
                           At(toNs'[q], j, "SYN", c) => p = q /\ i = j
    BY <1>1, <1>2, Zenon DEF SynOnce
  <2>1. CASE i \in 1 .. Len(toNs[p]) /\ At(toNs[p], i, "SYN", c)
    BY <2>0, <2>1 DEF Wire, SynOnce
  <2>2. CASE i = Len(toNs[p]) + 1 /\ handle_to_port[c] = p /\ sockets[c].owes = "SYN"
    <3>1. Past(c)
      BY <2>2 DEF Past, Tables, Entries, FreeSlot
    <3>2. ASSUME NEW q \in Port, NEW j \in 1 .. Len(toNs'[q]), At(toNs'[q], j, "SYN", c)
          PROVE  p = q /\ i = j
      BY <2>0, <2>2, <3>2 DEF Wire, SynOnce
    <3> QED
      BY <3>1, <3>2
  <2> QED
    BY <2>0, <2>1, <2>2
<1> QED
  BY <1>4

LEMMA EgressAfterSyn ==
  ASSUME TypeOK, Tables, Wire, Egress
  PROVE  AfterSyn'
<1>1. /\ UNCHANGED <<stream, states, handle_to_port, rx_queue, tun, peer>>
      /\ pc # "stopped"
      /\ \A c \in Conn : sockets'[c].state = sockets[c].state /\ sockets'[c].owes = "nothing"
  BY EgressPlaces, Zenon
<1>2. \A c \in Conn : Past(c)' <=> Past(c)
  BY EgressPlaces, Zenon
<1>3. \A p \in Port, c \in Conn : \A flag : \A i \in 1 .. Len(toNs'[p]) : At(toNs'[p], i, flag, c) =>
        \/ i \in 1 .. Len(toNs[p]) /\ At(toNs[p], i, flag, c)
        \/ /\ i = Len(toNs[p]) + 1 /\ i \notin 1 .. Len(toNs[p])
           /\ handle_to_port[c] = p /\ sockets[c].owes = flag /\ flag # "nothing"
  BY EgressPlaces, Zenon
<1>4. AfterSyn'
  <2>1. ASSUME NEW c \in Conn, Handled(c) PROVE Handled(c)'
    <3>1. \A p \in Port : ~Has(toNs'[p], "SYN", c)
      BY <1>3, <2>1, Zenon DEF Handled, Has
    <3> QED
      BY <1>1, <1>2, <2>1, <3>1 DEF Handled
  <2>2. ASSUME NEW c \in Conn, Answered(c)', ~Answered(c) PROVE FALSE
    <3>1. \A p \in Port : ~Has(toNs'[p], "ACK", c)
      BY <1>3, <2>2, Zenon DEF Answered, Has
    <3> QED
      BY <1>1, <2>2, <3>1, Zenon DEF Answered
  <2> QED
    BY <2>1, <2>2, AfterSynStep DEF Wire
<1> QED
  BY <1>4

LEMMA EgressAnswerable ==
  ASSUME TypeOK, Tables, Wire, Egress
  PROVE  Answerable'
<1>1. /\ UNCHANGED <<stream, states, handle_to_port, rx_queue, tun, peer>>
      /\ pc # "stopped"
      /\ \A c \in Conn : sockets'[c].state = sockets[c].state /\ sockets'[c].owes = "nothing"
  BY EgressPlaces, Zenon
<1>2. \A p \in Port, c \in Conn : \A flag : \A i \in 1 .. Len(toNs'[p]) : At(toNs'[p], i, flag, c) =>
        \/ i \in 1 .. Len(toNs[p]) /\ At(toNs[p], i, flag, c)
        \/ /\ i = Len(toNs[p]) + 1 /\ i \notin 1 .. Len(toNs[p])
           /\ handle_to_port[c] = p /\ sockets[c].owes = flag /\ flag # "nothing"
  BY EgressPlaces, Zenon
<1>3. \A p \in Port : \A c, flag : \A i \in 1 .. Len(toNs[p]) :
        At(toNs[p], i, flag, c) => i \in 1 .. Len(toNs'[p]) /\ At(toNs'[p], i, flag, c)
  BY EgressPlaces, Zenon
<1>4. \A p \in Port : Len(toNs[p]) \in Nat /\ Len(toNs'[p]) \in Nat
  BY EgressPlaces, Zenon
\* Whoever served still does, or has just said RST.
<1>5. ASSUME NEW p \in Port, NEW c \in Conn, Serving(p, c), ~Serving(p, c)'
      PROVE  Len(toNs[p]) + 1 \in 1 .. Len(toNs'[p]) /\ At(toNs'[p], Len(toNs[p]) + 1, "RST", c)
  <2>1. handle_to_port[c] = p /\ sockets[c].owes = "RST"
    BY <1>1, <1>5 DEF Serving
  <2>2. At(toNs'[p], Len(toNs[p]) + 1, "RST", c)
    BY <2>1, EgressEffect
  <2> QED
    BY <2>2, Zenon DEF At
<1>6. \A p \in Port, c \in Conn : \A i : ResetBehind(p, c, i) => ResetBehind(p, c, i)'
  BY <1>3, Zenon DEF ResetBehind
<1>7. Answerable'
  <2> SUFFICES ASSUME NEW c \in Conn, NEW p \in Port
               PROVE  /\ peer[p].c = c => Serving(p, c)' \/ ResetBehind(p, c, 0)'
                      /\ \A i \in 1 .. Len(toNs'[p]) :
                           At(toNs'[p], i, "SYN", c) => Serving(p, c)' \/ ResetBehind(p, c, i)'
    BY <1>1, Zenon DEF Answerable
  <2>1. ASSUME Serving(p, c), NEW i \in 0 .. Len(toNs[p])
        PROVE  Serving(p, c)' \/ ResetBehind(p, c, i)'
    <3>1. Len(toNs[p]) + 1 > i
      BY <1>4, <2>1
    <3> QED
      BY <1>5, <2>1, <3>1 DEF ResetBehind
  <2>2. peer[p].c = c => Serving(p, c)' \/ ResetBehind(p, c, 0)'
    <3>1. 0 \in 0 .. Len(toNs[p])
      BY <1>4
    <3> QED
      BY <1>1, <1>6, <2>1, <3>1, Zenon DEF Wire, Answerable
  <2>3. ASSUME NEW i \in 1 .. Len(toNs'[p]), At(toNs'[p], i, "SYN", c)
        PROVE  Serving(p, c)' \/ ResetBehind(p, c, i)'
    <3>1. CASE i \in 1 .. Len(toNs[p]) /\ At(toNs[p], i, "SYN", c)
      <4>1. i \in 0 .. Len(toNs[p])
        BY <1>4, <3>1
      <4> QED
        BY <1>1, <1>6, <2>1, <3>1, <4>1, Zenon DEF Wire, Answerable
    <3>2. CASE handle_to_port[c] = p /\ sockets[c].owes = "SYN"
      <4>1. sockets[c].state = "SynSent"
        BY <3>2, Zenon DEF Tables, Entries
      <4> QED
        BY <1>1, <3>2, <4>1, Zenon DEF Serving
    <3> QED
      BY <1>2, <2>3, <3>1, <3>2, Zenon
  <2> QED
    BY <2>2, <2>3
<1> QED
  BY <1>7

LEMMA EgressSeparated ==
  ASSUME TypeOK, Tables, Wire, Egress
  PROVE  Separated'
<1>1. /\ UNCHANGED <<stream, states, handle_to_port, rx_queue, tun, peer>>
      /\ pc # "stopped"
      /\ \A c \in Conn : sockets'[c].state = sockets[c].state /\ sockets'[c].owes = "nothing"
  BY EgressPlaces, Zenon
<1>2. \A p \in Port, c \in Conn : \A flag : \A i \in 1 .. Len(toNs'[p]) : At(toNs'[p], i, flag, c) =>
        \/ i \in 1 .. Len(toNs[p]) /\ At(toNs[p], i, flag, c)
        \/ /\ i = Len(toNs[p]) + 1 /\ i \notin 1 .. Len(toNs[p])
           /\ handle_to_port[c] = p /\ sockets[c].owes = flag /\ flag # "nothing"
  BY EgressPlaces, Zenon
<1>3. \A p \in Port : \A c, flag : \A i \in 1 .. Len(toNs[p]) :
        At(toNs[p], i, flag, c) => i \in 1 .. Len(toNs'[p]) /\ At(toNs'[p], i, flag, c)
  BY EgressPlaces, Zenon
<1>4. \A p \in Port : Len(toNs[p]) \in Nat /\ Len(toNs'[p]) \in Nat
  BY EgressPlaces, Zenon
<1>5. \A p \in Port, c \in Conn : \A i, j : ResetBetween(p, c, i, j) => ResetBetween(p, c, i, j)'
  BY <1>3, Zenon DEF ResetBetween
<1>6. Separated'
  <2> SUFFICES ASSUME NEW p \in Port, NEW j \in 1 .. Len(toNs'[p]), toNs'[p][j].f = "SYN",
                      NEW c \in Conn
               PROVE  /\ peer[p].c = c => ResetBetween(p, c, 0, j)'
                      /\ \A i \in 1 .. j - 1 :
                           At(toNs'[p], i, "SYN", c) => ResetBetween(p, c, i, j)'
    BY <1>1 DEF Separated
  <2>1. CASE j \in 1 .. Len(toNs[p])
    <3>1. toNs[p][j].f = "SYN"
      BY <2>1, EgressEffect
    <3>2. \A i \in 1 .. j - 1 : i \in 1 .. Len(toNs[p])
      BY <1>4, <2>1
    <3>3. \A i \in 1 .. j - 1 : At(toNs'[p], i, "SYN", c) => At(toNs[p], i, "SYN", c)
      BY <1>2, <3>2 DEF At
    <3> QED
      BY <1>5, <2>1, <3>1, <3>3, Zenon DEF Wire, Separated
  <2>2. CASE j \notin 1 .. Len(toNs[p])
    \* The new SYN is that of the port's connection; every other has been reset.
    <3>1. PICK d \in Conn : /\ j = Len(toNs[p]) + 1 /\ handle_to_port[d] = p
                            /\ sockets[d].owes = "SYN"
      <4>1. PICK d \in Conn : /\ j = Len(toNs[p]) + 1
                              /\ toNs'[p][j] = [f |-> sockets[d].owes, c |-> d]
                              /\ handle_to_port[d] = p /\ sockets[d].owes # "nothing"
        BY <2>2, EgressEffect
      <4>2. [f |-> sockets[d].owes, c |-> d].f = sockets[d].owes
        OBVIOUS
      <4>3. sockets[d].owes = "SYN"
        BY <4>1, <4>2, Zenon
      <4> QED
        BY <4>1, <4>3
    <3>2. ~Serving(p, c) \/ c = d
      <4>1. states[d] # "Absent"
        BY <3>1 DEF Tables, Entries, FreeSlot
      <4> QED
        BY <3>1, <4>1, Zenon DEF Serving, Tables, PortsBalanced
    <3>3. \A k \in 1 .. Len(toNs[p]) : k < j
      BY <1>4, <3>1
    <3>4. \A i : ResetBehind(p, c, i) => ResetBetween(p, c, i, j)'
      BY <1>3, <3>3 DEF ResetBehind, ResetBetween
    <3>5. peer[p].c = c => ResetBetween(p, c, 0, j)'
      <4>1. peer[p].c = c => c # d
        BY <3>1, Zenon DEF Wire, AfterSyn, Answered, Handled
      <4> QED
        BY <1>1, <3>2, <3>4, <4>1, Zenon DEF Wire, Answerable
    <3>6. ASSUME NEW i \in 1 .. j - 1, At(toNs'[p], i, "SYN", c) PROVE ResetBetween(p, c, i, j)'
      <4>1. i \in 1 .. Len(toNs[p])
        BY <1>4, <3>1, <3>6
      <4>2. At(toNs[p], i, "SYN", c)
        BY <1>2, <3>6, <4>1 DEF At
      <4>3. c # d
        BY <3>1, <4>1, <4>2, Zenon DEF Wire, SynOnce
      <4> QED
        BY <1>1, <3>2, <3>4, <4>1, <4>2, <4>3 DEF Wire, Answerable
    <3> QED
      BY <3>5, <3>6
  <2> QED
    BY <2>1, <2>2, Zenon
<1> QED
  BY <1>6

LEMMA EgressWire ==
  ASSUME TypeOK, Tables, Wire, Egress
  PROVE  Wire'
<1>1. UNCHANGED <<tun, rx_queue, peer>>
  BY EgressPlaces, Zenon
<1>2. ForgottenOnReset'
  BY <1>1 DEF Wire, ForgottenOnReset
<1> QED
  BY <1>2, EgressSynOnce, EgressAfterSyn, EgressAnswerable, EgressSeparated DEF Wire

\* Every step keeps the segments in order.
LEMMA WireStep == TypeOK /\ KnownPeers /\ Tables /\ Wire /\ [Next]_vars => Wire'
<1> SUFFICES ASSUME TypeOK, KnownPeers, Tables, Wire, [Next]_vars PROVE Wire'
  OBVIOUS
<1>1. ASSUME UNCHANGED <<states, handle_to_port, sockets, netVars>>,
             \A c \in Conn : stream[c] \in {"refused", "dropped"} => stream'[c] = stream[c],
             pc' # "stopped" => pc # "stopped"
      PROVE  Wire'
  <2>1. \A c \in Conn : Past(c) => Past(c)'
    BY <1>1 DEF Past
  <2>2. \A p \in Port, c \in Conn : Serving(p, c) => Serving(p, c)'
    BY <1>1 DEF Serving
  <2> QED
    BY <1>1, <2>1, <2>2, WireKept
<1>2. ASSUME NEW l \in Listener, SendAccepted(l) PROVE Wire'
  BY <1>1, <1>2 DEF SendAccepted, tableVars
<1>3. ASSUME NEW l \in Listener, NEW c \in Conn, Accept(l, c) PROVE Wire'
  <2>1. \A d \in Conn : stream[d] \in {"refused", "dropped"} => stream'[d] = stream[d]
    BY <1>3, Zenon DEF Accept, TypeOK
  <2> QED
    BY <1>1, <1>3, <2>1 DEF Accept, tableVars
<1>4. ASSUME NEW c \in Conn, HostEnds(c) \/ HandshakeExpires(c) PROVE Wire'
  BY <1>1, <1>4 DEF HostEnds, HandshakeExpires, hostVars, tableVars
<1>5. CASE KernelStep
  BY <1>5, KernelReceivesWire, PeerEndsWire DEF KernelStep
<1>6. CASE WaitForWork
  BY <1>6, WaitForWorkWire
<1>7. CASE Shutdown
  BY <1>7, ShutdownWire
<1>8. CASE ReceiveAccepted \/ Received \/ Attached \/ IngressDone
  BY <1>1, <1>8, Zenon DEF ReceiveAccepted, Received, Attached, IngressDone, hostVars, tableVars
<1>9. CASE AttachNext
  BY <1>9, AttachNextWire
<1>10. ASSUME NEW p \in Port, Ingress(p) PROVE Wire'
  BY <1>10, IngressWire
<1>11. CASE Egress
  BY <1>11, EgressWire
<1>12. CASE Process
  BY <1>12, ProcessWire
<1>13. CASE Cleanup
  BY <1>13, CleanupWire
<1>14. CASE UNCHANGED vars
  BY <1>1, <1>14 DEF vars, hostVars, tableVars
<1> QED
  BY <1>2, <1>3, <1>4, <1>5, <1>6, <1>7, <1>8, <1>9, <1>10, <1>11, <1>12, <1>13, <1>14
     DEF Next, Tick

LEMMA InitWire == Init => Wire
<1> SUFFICES ASSUME Init PROVE Wire
  OBVIOUS
<1>1. /\ \A p \in Port : toNs[p] = <<>> /\ tun[p] = <<>> /\ rx_queue[p] = <<>> /\ peer[p] = NoPeer
      /\ \A c \in Conn : sockets[c] = FreeSlot
  BY Zenon DEF Init
<1>2. 1 .. Len(<<>>) = {}
  OBVIOUS
<1>3. \A p \in Port : \A i : /\ i \notin 1 .. Len(toNs[p]) /\ i \notin 1 .. Len(tun[p])
                             /\ i \notin 1 .. Len(rx_queue[p])
  BY <1>1, <1>2, Zenon
<1>4. /\ \A p \in Port, c \in Conn : peer[p].c # c
      /\ \A c \in Conn : sockets[c].owes # "ACK"
  <2>1. NoPeer.c = NoConn /\ FreeSlot.owes # "ACK"
    BY DEF FreeSlot, NoPeer
  <2> QED
    BY <1>1, <2>1, PublishedAssumption, Zenon
<1>5. SynOnce
  BY <1>3, Zenon DEF SynOnce
<1>6. AfterSyn
  BY <1>3, <1>4, Zenon DEF AfterSyn, Answered, Has
<1>7. ForgottenOnReset
  BY <1>3, Zenon DEF ForgottenOnReset, Has
<1>8. Answerable
  BY <1>3, <1>4, Zenon DEF Answerable
<1>9. Separated
  BY <1>3, Zenon DEF Separated
<1> QED
  BY <1>5, <1>6, <1>7, <1>8, <1>9, Zenon DEF Wire

\* The RST of the second egress precedes the release of the port.
LEMMA WireFresh == TypeOK /\ KnownPeers /\ Wire => TupleFresh
<1> SUFFICES ASSUME TypeOK, KnownPeers, Wire, NEW p \in Port, NEW i \in 1 .. Len(toNs[p]), toNs[p][i].f = "SYN"
             PROVE  /\ peer[p] = NoPeer \/ ResetAhead(p, peer[p].c, i)
                    /\ \A j \in 1 .. i - 1 : toNs[p][j].f = "SYN" => ResetAhead(p, toNs[p][j].c, i)
  BY Zenon DEF TupleFresh
<1>1. /\ \A j \in 1 .. Len(toNs[p]) : toNs[p][j] \in Segment /\ toNs[p][j].c \in Conn
      /\ peer[p].c # NoConn => peer[p].c \in Conn
      /\ Len(toNs[p]) \in Nat
  BY SegmentConn, Queues
<1>2. ASSUME NEW c \in Conn, NEW j \in Nat, ResetBetween(p, c, j, i) PROVE ResetAhead(p, c, i)
  <2>1. PICK k \in 1 .. Len(toNs[p]) : j < k /\ k < i /\ At(toNs[p], k, "RST", c)
    BY <1>2 DEF ResetBetween
  <2>2. toNs[p][k] = [f |-> "RST", c |-> c]
    BY <1>1, <2>1, Zenon DEF At, Segment
  <2>3. k \in 1 .. i - 1
    BY <1>1, <2>1
  <2> QED
    BY <2>2, <2>3 DEF ResetAhead
<1>3. peer[p] = NoPeer \/ ResetAhead(p, peer[p].c, i)
  <2>1. CASE peer[p].c = NoConn
    <3>1. peer[p].st = "none" /\ peer[p] \in PeerRecord
      BY <2>1 DEF KnownPeers, TypeOK, PeerRecord
    <3> QED
      BY <2>1, <3>1 DEF NoPeer, PeerRecord
  <2>2. CASE peer[p].c # NoConn
    <3>1. ResetBetween(p, peer[p].c, 0, i)
      BY <1>1, <2>2, Zenon DEF Wire, Separated
    <3> QED
      BY <1>1, <1>2, <2>2, <3>1
  <2> QED
    BY <2>1, <2>2
<1>4. ASSUME NEW j \in 1 .. i - 1, toNs[p][j].f = "SYN" PROVE ResetAhead(p, toNs[p][j].c, i)
  <2>1. j \in 1 .. Len(toNs[p]) /\ j \in Nat
    BY <1>1, <1>4
  <2>2. At(toNs[p], j, "SYN", toNs[p][j].c) /\ toNs[p][j].c \in Conn
    BY <1>1, <1>4, <2>1, Zenon DEF At
  <2>3. ResetBetween(p, toNs[p][j].c, j, i)
    BY <1>4, <2>2, Zenon DEF Wire, Separated
  <2> QED
    BY <1>2, <2>1, <2>2, <2>3, Zenon
<1> QED
  BY <1>3, <1>4, Zenon

\* What is answerable is served, or a RST is on its way.
LEMMA WireServed == TypeOK /\ KnownPeers /\ Wire => ServiceNotAbandoned
<1> SUFFICES ASSUME TypeOK, KnownPeers, Wire, NEW p \in Port, peer[p].st \in {"estab", "finwait"}, pc # "stopped"
             PROVE  \/ /\ handle_to_port[peer[p].c] = p
                       /\ sockets[peer[p].c].state # "Closed" \/ sockets[peer[p].c].owes = "RST"
                    \/ ResetAhead(p, peer[p].c, Len(toNs[p]) + 1)
  BY Zenon DEF ServiceNotAbandoned
<1> DEFINE c == peer[p].c
<1>1. c \in Conn
  BY SegmentConn, Zenon DEF KnownPeers
<1>2. Serving(p, c) \/ ResetBehind(p, c, 0)
  BY <1>1 DEF Wire, Answerable
<1>3. ASSUME ResetBehind(p, c, 0) PROVE ResetAhead(p, c, Len(toNs[p]) + 1)
  <2>1. PICK k \in 1 .. Len(toNs[p]) : At(toNs[p], k, "RST", c)
    BY <1>3 DEF ResetBehind
  <2>2. toNs[p][k] \in Segment /\ Len(toNs[p]) \in Nat
    BY SegmentConn, Queues
  <2>3. toNs[p][k] = [f |-> "RST", c |-> c]
    BY <2>1, <2>2, Zenon DEF At, Segment
  <2>4. k \in 1 .. (Len(toNs[p]) + 1) - 1
    BY <2>2
  <2> QED
    BY <2>3, <2>4 DEF ResetAhead
<1> QED
  BY <1>2, <1>3, Zenon DEF Serving

-----------------------------------------------------------------------------
(* The theorems.                                                           *)

\* Both halves of the invariant hold throughout.
LEMMA WireInvariance == Spec => [](IInv /\ Wire)
<1>1. Init => IInv /\ Wire
  BY InitIInv, InitWire
<1>2. IInv /\ Wire /\ [Next]_vars => (IInv /\ Wire)'
  BY TypeStep, PeersStep, TablesStep, WireStep DEF IInv
<1> QED
  BY <1>1, <1>2, PTL DEF Spec

\* A source port that is used again meets nothing of its last connection in the
\* namespace: the RST of the second egress precedes the release of the port.
THEOREM TuplesAlwaysFresh == Spec => []TupleFresh
<1>1. IInv /\ Wire => TupleFresh
  BY WireFresh DEF IInv
<1> QED
  BY <1>1, WireInvariance, PTL

\* A service that believes to be connected is served, or will be told
\* otherwise, as long as the loop runs.
THEOREM ServicesNeverAbandoned == Spec => []ServiceNotAbandoned
<1>1. IInv /\ Wire => ServiceNotAbandoned
  BY WireServed DEF IInv
<1> QED
  BY <1>1, WireInvariance, PTL
=============================================================================
