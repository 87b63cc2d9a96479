--------------------------- MODULE DnsInterceptor ---------------------------
(***************************************************************************)
(* From the question to the route: DnsInterceptor of src/event_loop/dns.rs *)
(* over the fake-IP pool, inside the tick of src/event_loop.rs.  An        *)
(* application asks for a name, keeps the answer, and opens a connection   *)
(* to the fake address later; update_listeners then asks target_for which  *)
(* name the address stands for.  In between, datagrams are dropped by full *)
(* sockets and failing writes, questions are repeated, and the pool wraps. *)
(*                                                                         *)
(* A phase of the tick is a step of its own, because the applications run  *)
(* beside it.  Bounds: MaxPackets packets sent by the applications.        *)
(***************************************************************************)
EXTENDS FakeDns, FiniteSets

CONSTANTS UDP_META_COUNT,  \* packets a buffer of the UDP socket holds
          MaxPackets

ASSUME UdpAssumption == UDP_META_COUNT \in Nat \ {0} /\ MaxPackets \in Nat

VARIABLES
  tun,          \* packets waiting in the TUN device
  rx_queue,     \* packets read by poll_read and not yet taken by smoltcp
  rx, tx,       \* the UDP socket's buffers
  phase,        \* how far the current tick is
  established,  \* connections whose handshake is complete and that have no target yet
  learnt,       \* the address each application has got for its name
  routed,       \* the target its connection was given
  sent,         \* packets sent so far
  named,        \* history: the names resolve() has been called with
  lost          \* history: the names of which a question or an answer was dropped

vars == <<poolVars, tun, rx_queue, rx, tx, phase, established, learnt, routed, sent, named, lost>>

NoIp == POOL_END + 1
Numeric == "numeric address"
ASSUME NumericAssumption == Numeric \notin Domain
NoTarget == "none"
Dialling == "dialling"

\* Questions: for the address, for another record type, a datagram parse_query
\* rejects, and one larger than the 1500 bytes process() reads.
\* The last two name nothing the program could know.
NoName == "no name"
Query == [kind : {"A", "other"}, domain : Domain]
           \cup [kind : {"malformed", "oversized"}, domain : {NoName}]

Init ==
  /\ PoolInit
  /\ tun = <<>> /\ rx_queue = <<>> /\ rx = <<>> /\ tx = <<>>
  /\ phase = "wait" /\ established = {} /\ sent = 0
  /\ learnt = [d \in Domain |-> NoIp] /\ routed = [d \in Domain |-> NoTarget]
  /\ named = {} /\ lost = {}

-----------------------------------------------------------------------------
(* The applications.                                                       *)

Sends(p) == sent < MaxPackets /\ sent' = sent + 1 /\ tun' = Append(tun, p)

\* A question, a repeated one included.
Ask(q) ==
  /\ Sends(q)
  /\ UNCHANGED <<poolVars, rx_queue, rx, tx, phase, established, learnt, routed, named, lost>>

\* The application's connection: the last ACK of a handshake with the address
\* an answer gave.
Dial(d) ==
  /\ learnt[d] # NoIp /\ routed[d] = NoTarget
  /\ Sends([kind |-> "ack", domain |-> d, ip |-> learnt[d]])
  /\ routed' = [routed EXCEPT ![d] = Dialling]
  /\ UNCHANGED <<poolVars, rx_queue, rx, tx, phase, established, learnt, named, lost>>

-----------------------------------------------------------------------------
(* The tick.                                                               *)

\* wait_for_work returns, at the latest when its sleep is over, and the tick
\* begins: poll_read until the device is empty.
PollRead ==
  /\ phase = "wait"
  /\ rx_queue' = rx_queue \o tun /\ tun' = <<>> /\ phase' = "ingress"
  /\ UNCHANGED <<poolVars, rx, tx, established, learnt, routed, sent, named, lost>>

\* Whether a packet buffer takes one more: the bytes of an empty one suffice,
\* those of another may not.
Room(buf) ==
  IF buf = <<>> THEN {TRUE} ELSE IF Len(buf) < UDP_META_COUNT THEN BOOLEAN ELSE {FALSE}

\* Interface::poll takes the packets of the device; a full UDP socket drops them.
Ingress ==
  /\ phase = "ingress" /\ rx_queue # <<>>
  /\ rx_queue' = Tail(rx_queue)
  /\ LET p == Head(rx_queue) IN
       \/ /\ p.kind = "ack"
          /\ established' = established \cup {[domain |-> p.domain, ip |-> p.ip]}
          /\ UNCHANGED <<rx, lost>>
       \/ /\ p.kind # "ack"
          /\ \E room \in Room(rx) :
               /\ rx' = IF room THEN Append(rx, p) ELSE rx
               /\ lost' = IF room THEN lost ELSE lost \cup ({p.domain} \cap Domain)
          /\ UNCHANGED established
  /\ UNCHANGED <<poolVars, tun, tx, phase, learnt, routed, sent, named>>

IngressDone ==
  /\ phase = "ingress" /\ rx_queue = <<>> /\ phase' = "dns"
  /\ UNCHANGED <<poolVars, tun, rx_queue, rx, tx, established, learnt, routed, sent, named, lost>>

\* process(): an answer is sent if the socket can take it and dropped if not.
SendSlice(response) ==
  \E room \in Room(tx) :
    /\ tx' = IF room THEN Append(tx, response) ELSE tx
    /\ lost' = IF room THEN lost ELSE lost \cup {response.domain}

Taken == phase = "dns" /\ rx # <<>> /\ rx' = Tail(rx)

\* A bug that takes the mapping back when the answer cannot be sent.
AnswerA_RollsBack ==
  LET d == Head(rx).domain IN
    /\ Taken /\ Head(rx).kind = "A" /\ named' = named \cup {d}
    /\ \/ /\ Resolve(d)
          /\ tx' = Append(tx, [kind |-> "A", domain |-> d, ip |-> domain_to_ip'[d]])
          /\ UNCHANGED lost
       \/ /\ FALSE \in Room(tx) /\ lost' = lost \cup {d}
          /\ domain_to_ip' = Remove(domain_to_ip, {d})
          /\ UNCHANGED <<ip_to_domain, next_offset, tx>>
    /\ UNCHANGED <<tun, rx_queue, phase, established, learnt, routed, sent>>

\* The mapping is made, or found, before it is known whether the answer fits.
AnswerA ==
  LET d == Head(rx).domain IN
    /\ Taken /\ Head(rx).kind = "A" /\ named' = named \cup {d}
    /\ Resolve(d)
    /\ SendSlice([kind |-> "A", domain |-> d, ip |-> domain_to_ip'[d]])
    /\ UNCHANGED <<tun, rx_queue, phase, established, learnt, routed, sent>>

AnswerEmpty ==
  /\ Taken /\ Head(rx).kind = "other"
  /\ SendSlice([kind |-> "other", domain |-> Head(rx).domain])
  /\ UNCHANGED <<poolVars, tun, rx_queue, phase, established, learnt, routed, sent, named>>

\* A bug that looks at a datagram and takes it only once it is understood.
SkipMalformed_Peeks ==
  /\ phase = "dns" /\ rx # <<>> /\ Head(rx).kind = "malformed"
  /\ UNCHANGED vars

SkipMalformed ==
  /\ Taken /\ Head(rx).kind = "malformed"
  /\ UNCHANGED <<poolVars, tun, rx_queue, tx, phase, established, learnt, routed, sent, named, lost>>

\* recv_slice fails on a datagram larger than its buffer, which is gone; the
\* loop ends and leaves the rest for the next tick.
BreakOversized ==
  /\ Taken /\ Head(rx).kind = "oversized" /\ phase' = "outbound"
  /\ UNCHANGED <<poolVars, tun, rx_queue, tx, established, learnt, routed, sent, named, lost>>

ProcessDone ==
  /\ phase = "dns" /\ rx = <<>> /\ phase' = "outbound"
  /\ UNCHANGED <<poolVars, tun, rx_queue, rx, tx, established, learnt, routed, sent, named, lost>>

\* A bug that leaves the last address out of the pool's range.
target_for_ExclusiveEnd(ip) ==
  IF is_fake_ip(ip) /\ ip # POOL_END /\ lookup(ip) # {}
  THEN CHOOSE d \in Domain : d \in lookup(ip)
  ELSE Numeric

target_for(ip) ==
  IF is_fake_ip(ip) /\ lookup(ip) # {}
  THEN CHOOSE d \in Domain : d \in lookup(ip)
  ELSE Numeric

\* update_listeners gives every established connection its target.
Route ==
  /\ phase = "outbound" /\ phase' = "egress" /\ established' = {}
  /\ routed' = [d \in Domain |->
                  IF \E c \in established : c.domain = d
                  THEN target_for((CHOOSE c \in established : c.domain = d).ip)
                  ELSE routed[d]]
  /\ UNCHANGED <<poolVars, tun, rx_queue, rx, tx, learnt, sent, named, lost>>

\* The second Interface::poll writes the queued answers, first to last; a
\* failing write to the TUN device loses its packet.
Egress ==
  /\ phase = "egress"
  /\ \/ /\ tx = <<>> /\ phase' = "wait" /\ UNCHANGED <<tx, learnt, lost>>
     \/ /\ tx # <<>> /\ tx' = Tail(tx) /\ UNCHANGED phase
        /\ \/ /\ learnt' = [learnt EXCEPT ![Head(tx).domain] =
                              IF Head(tx).kind = "A" THEN Head(tx).ip ELSE @]
              /\ UNCHANGED lost
           \/ lost' = lost \cup {Head(tx).domain} /\ UNCHANGED learnt
  /\ UNCHANGED <<poolVars, tun, rx_queue, rx, established, routed, sent, named>>

Process == AnswerA \/ AnswerEmpty \/ SkipMalformed \/ BreakOversized \/ ProcessDone

Tick == PollRead \/ Ingress \/ IngressDone \/ Process \/ Route \/ Egress

Next == (\E q \in Query : Ask(q)) \/ (\E d \in Domain : Dial(d)) \/ Tick

Spec == Init /\ [][Next]_vars

\* The loop's sleep bounds every wait, so ticks go on.
FairSpec == Spec /\ WF_vars(Tick)

-----------------------------------------------------------------------------
(* Properties.                                                             *)

PoolSuffices == Cardinality(named) <= POOL_SIZE

\* A connection to an address learnt from an answer is routed to the name the
\* application asked for, however many ticks, repeated questions and dropped
\* answers lie between the two, as long as no more names have been asked for
\* than the pool has addresses; and to some name, never to the fake address
\* itself, even after the pool has wrapped around.
RoutedAsAsked ==
  \A d \in Domain :
    routed[d] \notin {NoTarget, Dialling} =>
      routed[d] # Numeric /\ (PoolSuffices => routed[d] = d)

\* The answers to a repeated question agree while the pool suffices, so a
\* question whose answer was dropped can be asked again.
AnswersAgree ==
  PoolSuffices =>
    \A i \in 1 .. Len(tx) : tx[i].kind = "A" =>
      /\ learnt[tx[i].domain] \in {tx[i].ip, NoIp}
      /\ \A j \in 1 .. Len(tx) :
           tx[j].kind = "A" => (tx[i].ip = tx[j].ip <=> tx[i].domain = tx[j].domain)

\* Every question for an address is answered unless a question or an answer
\* for its name was dropped: a malformed datagram is skipped, and one that ends
\* the loop early only delays those behind it to the next tick.
QuestionAnswered ==
  \A d \in Domain :
    (\E i \in 1 .. Len(tun) : tun[i] = [kind |-> "A", domain |-> d])
      ~> (learnt[d] # NoIp \/ d \in lost)
=============================================================================
