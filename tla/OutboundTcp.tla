---------------------------- MODULE OutboundTcp ----------------------------
(***************************************************************************)
(* Outbound TCP connections: src/event_loop/outbound.rs driven by the tick *)
(* of src/event_loop.rs, over smoltcp sockets, against the TCP clients of  *)
(* the namespace's kernel on the other side of the TUN device.             *)
(*                                                                         *)
(* The event loop is one task.  Its program counter pc walks through       *)
(*   wait -> observe -> ingress -> egress1 -> process -> egress2 ->        *)
(*   cleanup -> wait                                                       *)
(* which is the order of the calls in tick(); the clients, the connect     *)
(* tasks, the upstream peers and time take steps at any moment.  The bytes *)
(* that are forwarded are left out here, except that a client may close    *)
(* with bytes still unread.                                                *)
(***************************************************************************)
EXTENDS Smoltcp, Sequences, FiniteSets

CONSTANTS NumSockets,   \* slots of the SocketSet (one per tracked endpoint)
          MaxAttempts,  \* bound: connection attempts per 4-tuple
          MaxSyns       \* bound: SYNs a client sends per attempt

ASSUME SocketsAssumption == NumSockets \in Nat

Handle == 1 .. NumSockets

VARIABLES
  client,    \* the kernel's TCP client of each 4-tuple
  tun,       \* packets the kernel has queued on the TUN device
  toApp,     \* per 4-tuple, segments written to the TUN and not yet handled
  pc,        \* where the event loop is
  rx_queue,  \* TunDevice::rx_queue
  scan,      \* position of observe_syns in rx_queue
  sockets,   \* the SocketSet
  isn,       \* initial sequence numbers used by sockets so far
  states,    \* OutboundTcp::states ("Absent": no entry)
  expired,   \* Listening handles whose created_at is over the timeout
  ended,     \* Established handles whose upstream failed or is drained to EOF
  tasks,     \* running or finished connect tasks that were not consumed
  listening_endpoints,
  handle_to_endpoint

clientVars == <<client, toApp>>
outboundVars == <<states, expired, ended, tasks, listening_endpoints, handle_to_endpoint>>
vars == <<clientVars, tun, pc, rx_queue, scan, sockets, isn, outboundVars>>

Phase == {"wait", "observe", "ingress", "egress1", "process", "egress2", "cleanup", "stopped"}
Tag == {"Absent", "Listening", "Connecting", "Established", "Closing"}
Target(k) == <<k.dst, k.port>>
Task == [h : Handle, s : Nat, target : {Target(k) : k \in Key}, result : {"pending", "ok", "err"}]

Init ==
  /\ client = [k \in Key |-> [st |-> "closed", c |-> 0, s |-> 0, syns |-> 0]]
  /\ tun = <<>> /\ toApp = [k \in Key |-> <<>>]
  /\ pc = "wait" /\ rx_queue = <<>> /\ scan = 1
  /\ sockets = [h \in Handle |-> FreeSlot] /\ isn = 0
  /\ states = [h \in Handle |-> "Absent"]
  /\ expired = {} /\ ended = {} /\ tasks = {}
  /\ listening_endpoints = {}
  /\ handle_to_endpoint = [h \in Handle |-> NoKey]

-----------------------------------------------------------------------------
(* The clients: TCP sockets of the namespace's kernel.                     *)

Seg(k, f) == [k |-> k, f |-> f, c |-> client[k].c, s |-> client[k].s]
Send(p) == tun' = Append(tun, p)

\* A new attempt on a 4-tuple that is not in use.
Connect(k) ==
  /\ client[k].st = "closed" /\ client[k].c < MaxAttempts
  /\ client' = [client EXCEPT ![k] = [st |-> "synsent", c |-> client[k].c + 1, s |-> 0, syns |-> 1]]
  /\ Send([k |-> k, f |-> "SYN", c |-> client[k].c + 1, s |-> 0])
  /\ UNCHANGED <<toApp, pc, rx_queue, scan, sockets, isn, outboundVars>>

RetransmitSyn(k) ==
  /\ client[k].st = "synsent" /\ client[k].syns < MaxSyns
  /\ client' = [client EXCEPT ![k].syns = @ + 1]
  /\ Send(Seg(k, "SYN"))
  /\ UNCHANGED <<toApp, pc, rx_queue, scan, sockets, isn, outboundVars>>

\* The application gives up before the handshake: the kernel sends nothing.
Cancel(k) ==
  /\ client[k].st = "synsent"
  /\ client' = [client EXCEPT ![k].st = "closed"]
  /\ UNCHANGED <<toApp, tun, pc, rx_queue, scan, sockets, isn, outboundVars>>

\* The application half-closes; "finwait" still receives.
HalfClose(k) ==
  /\ client[k].st = "estab"
  /\ client' = [client EXCEPT ![k].st = "finwait"]
  /\ \E f \in {"FIN", "DATAFIN"} : Send(Seg(k, f))
  /\ UNCHANGED <<toApp, pc, rx_queue, scan, sockets, isn, outboundVars>>

\* The application resets the connection.
Reset(k) ==
  /\ client[k].st \in {"estab", "finwait"}
  /\ client' = [client EXCEPT ![k].st = "closed"]
  /\ Send(Seg(k, "RST"))
  /\ UNCHANGED <<toApp, pc, rx_queue, scan, sockets, isn, outboundVars>>

\* The kernel handles the next segment the event loop wrote for k.
Deliver(k) ==
  /\ toApp[k] # <<>>
  /\ toApp' = [toApp EXCEPT ![k] = Tail(@)]
  /\ LET p == Head(toApp[k])
         mine == client[k].c = p.c
         st == client[k].st
     IN  \/ /\ p.f = "SYNACK" /\ mine /\ st = "synsent"
            /\ client' = [client EXCEPT ![k].st = "estab", ![k].s = p.s]
            /\ Send([k |-> k, f |-> "ACK", c |-> p.c, s |-> p.s])
         \/ /\ p.f = "SYNACK" /\ (st = "closed" \/ (st = "synsent" /\ ~mine))
            /\ Send([k |-> k, f |-> "RST", c |-> p.c, s |-> p.s])
            /\ UNCHANGED client
         \/ /\ p.f = "RST" /\ mine /\ st # "closed" /\ (st # "synsent" => p.s = client[k].s)
            /\ client' = [client EXCEPT ![k].st = "closed"]
            /\ UNCHANGED tun
         \/ /\ \/ p.f = "SYNACK" /\ st \in {"estab", "finwait"}
               \/ p.f = "RST" /\ (st = "closed" \/ ~mine \/ (st # "synsent" /\ p.s # client[k].s))
            /\ UNCHANGED <<client, tun>>
  /\ UNCHANGED <<pc, rx_queue, scan, sockets, isn, outboundVars>>

ClientStep ==
  \E k \in Key : \/ Connect(k) \/ RetransmitSyn(k) \/ Cancel(k)
                 \/ HalfClose(k) \/ Reset(k) \/ Deliver(k)

-----------------------------------------------------------------------------
(* Connect tasks, upstream peers and time.                                 *)

\* ProxyConfig::connect returns: a stream, or an error, the 32 s timeout and
\* a panic included.
ConnectReturns ==
  \E t \in tasks, r \in {"ok", "err"} :
    /\ t.result = "pending"
    /\ tasks' = (tasks \ {t}) \cup {[t EXCEPT !.result = r]}
    /\ UNCHANGED <<clientVars, tun, pc, rx_queue, scan, sockets, isn, states, expired, ended,
                   listening_endpoints, handle_to_endpoint>>

\* The upstream stream fails, or has reached EOF with all its bytes delivered.
UpstreamEnds(h) ==
  /\ states[h] = "Established" /\ h \notin ended
  /\ ended' = ended \cup {h}
  /\ UNCHANGED <<clientVars, tun, pc, rx_queue, scan, sockets, isn, states, expired, tasks,
                 listening_endpoints, handle_to_endpoint>>

\* A listener gets older than TCP_HANDSHAKE_TIMEOUT.
HandshakeExpires(h) ==
  /\ states[h] = "Listening" /\ h \notin expired
  /\ expired' = expired \cup {h}
  /\ UNCHANGED <<clientVars, tun, pc, rx_queue, scan, sockets, isn, states, ended, tasks,
                 listening_endpoints, handle_to_endpoint>>

-----------------------------------------------------------------------------
(* wait_for_work: poll_ready polls the connect tasks until there is work.  *)
(* A call that changes nothing leaves the loop waiting, so only the last   *)
(* one matters; the tick then reads the whole TUN queue.                   *)

Connecting == {h \in Handle : states[h] = "Connecting"}

\* The task whose JoinHandle the entry of h holds.
TaskOf(h) == {t \in tasks : t.h = h /\ t.s = sockets[h].s}
Finished(h, r) == \E t \in TaskOf(h) : t.result = r

\* client_gone: CloseWait is not among the states, a half-closed client waits.
ClientGone(h) == sockets[h].state = "Closed"

\* poll_connecting leaves h with an aborted socket.
ConnectFails(h) ==
  /\ states[h] = "Connecting"
  /\ \/ Finished(h, "err")
     \/ Finished(h, "pending") /\ ClientGone(h)
ConnectDone(h) == states[h] = "Connecting" /\ Finished(h, "ok")

\* A bug that lets the task of a client that is gone run on, detached.
ConsumedTasks_Detaches == {t \in UNION {TaskOf(h) : h \in Connecting} : t.result # "pending"}

\* Tasks that poll_connecting takes the result of, or aborts.
ConsumedTasks ==
  UNION {TaskOf(h) : h \in {g \in Handle : ConnectFails(g) \/ ConnectDone(g)}}

WaitForWork ==
  /\ pc = "wait"
  /\ states' = [h \in Handle |-> IF ConnectFails(h) THEN "Closing"
                                 ELSE IF ConnectDone(h) THEN "Established" ELSE states[h]]
  /\ sockets' = [h \in Handle |-> IF ConnectFails(h) THEN Abort(sockets[h]) ELSE sockets[h]]
  /\ tasks' = tasks \ ConsumedTasks
  /\ rx_queue' = rx_queue \o tun /\ tun' = <<>>
  /\ scan' = 1 /\ pc' = "observe"
  /\ UNCHANGED <<clientVars, isn, expired, ended, listening_endpoints, handle_to_endpoint>>

\* The shutdown signal ends the loop: OutboundTcp is dropped, which aborts
\* the connect tasks.
Shutdown ==
  /\ pc = "wait" /\ pc' = "stopped"
  /\ tasks' = tasks \ UNION {TaskOf(h) : h \in Connecting}
  /\ states' = [h \in Handle |-> "Absent"]
  /\ sockets' = [h \in Handle |-> FreeSlot]
  /\ expired' = {} /\ ended' = {}
  /\ listening_endpoints' = {} /\ handle_to_endpoint' = [h \in Handle |-> NoKey]
  /\ UNCHANGED <<clientVars, tun, rx_queue, scan, isn>>

-----------------------------------------------------------------------------
(* tick(), phase by phase.                                                 *)

FreeSlots == {h \in Handle : sockets[h].state = "Free"}
IsFirst(h, S) == h \in S /\ \A g \in S : h <= g

\* observe_syns, one packet of rx_queue: a SYN of a 4-tuple that is not tracked
\* gets a socket listening on its destination port, on any address.  listen() fails
\* for port 0 alone, which no 4-tuple of the model has.
SynUntracked(p) == p.f = "SYN" /\ p.k \notin listening_endpoints

Track(h, k) ==
  /\ sockets' = [sockets EXCEPT ![h] = ListenOn(k.port)]
  /\ states' = [states EXCEPT ![h] = "Listening"]
  /\ listening_endpoints' = listening_endpoints \cup {k}
  /\ handle_to_endpoint' = [handle_to_endpoint EXCEPT ![h] = k]

ObserveSyn ==
  /\ pc = "observe" /\ scan <= Len(rx_queue)
  /\ scan' = scan + 1
  /\ \/ ~SynUntracked(rx_queue[scan])
        /\ UNCHANGED <<sockets, states, listening_endpoints, handle_to_endpoint>>
     \/ SynUntracked(rx_queue[scan])
        /\ \E h \in Handle : IsFirst(h, FreeSlots) /\ Track(h, rx_queue[scan].k)
  /\ UNCHANGED <<clientVars, tun, pc, rx_queue, isn, expired, ended, tasks>>

Observed ==
  /\ pc = "observe" /\ scan > Len(rx_queue) /\ pc' = "ingress"
  /\ UNCHANGED <<clientVars, tun, rx_queue, scan, sockets, isn, outboundVars>>

\* Interface::poll, ingress: every packet goes to the first socket that
\* accepts it, in slot order, or is answered with a RST.
Accepting(p) == {h \in Handle : Accepts(sockets[h], p)}

Ingress ==
  /\ pc = "ingress" /\ rx_queue # <<>>
  /\ rx_queue' = Tail(rx_queue)
  /\ LET p == Head(rx_queue)
     IN  \/ \E h \in Handle :
              /\ IsFirst(h, Accepting(p))
              /\ sockets' = [sockets EXCEPT ![h] = Received(sockets[h], p, isn + 1)]
              /\ isn' = IF sockets[h].state = "Listen" THEN isn + 1 ELSE isn
              /\ UNCHANGED toApp
         \/ /\ Accepting(p) = {} /\ p.f # "RST"
            /\ toApp' = [toApp EXCEPT ![p.k] = Append(@, ResetReply(p))]
            /\ UNCHANGED <<sockets, isn>>
         \/ /\ Accepting(p) = {} /\ p.f = "RST"
            /\ UNCHANGED <<toApp, sockets, isn>>
  /\ UNCHANGED <<client, tun, pc, scan, outboundVars>>

IngressDone ==
  /\ pc = "ingress" /\ rx_queue = <<>> /\ pc' = "egress1"
  /\ UNCHANGED <<clientVars, tun, rx_queue, scan, sockets, isn, outboundVars>>

\* Interface::poll, egress, of the first and of the second call of the tick:
\* every socket sends what it owes, in slot order.
Sending == {h \in Handle : HasEgress(sockets[h])}

Egress ==
  /\ pc \in {"egress1", "egress2"}
  /\ \E h \in Handle :
       /\ IsFirst(h, Sending)
       /\ toApp' = [toApp EXCEPT ![sockets[h].tuple] = Append(@, Emitted(sockets[h]))]
       /\ sockets' = [sockets EXCEPT ![h] = AfterEgress(@)]
  /\ UNCHANGED <<client, tun, pc, rx_queue, scan, isn, outboundVars>>

\* A bug that leaves out the second Interface::poll.
EgressDone_OnePoll ==
  /\ \/ pc = "egress1" /\ Sending = {} /\ pc' = "process"
     \/ pc = "egress2" /\ pc' = "cleanup"
  /\ UNCHANGED <<clientVars, tun, rx_queue, scan, sockets, isn, outboundVars>>

EgressDone ==
  /\ pc \in {"egress1", "egress2"} /\ Sending = {}
  /\ pc' = IF pc = "egress1" THEN "process" ELSE "cleanup"
  /\ UNCHANGED <<clientVars, tun, rx_queue, scan, sockets, isn, outboundVars>>

\* update_listeners, for one Listening entry.
HandshakeDone(h) == states[h] = "Listening" /\ MaySend(sockets[h])
ListenerClosed(h) == states[h] = "Listening" /\ sockets[h].state = "Closed"

\* A bug that only times out sockets that have seen a SYN.
HandshakeTimesOut_SynOnly(h) ==
  states[h] = "Listening" /\ sockets[h].state = "SynReceived" /\ h \in expired

HandshakeTimesOut(h) ==
  /\ states[h] = "Listening" /\ sockets[h].state \in {"Listen", "SynReceived"}
  /\ h \in expired

\* shuttle_established, for one Established entry whose unread bytes have been
\* written upstream iff it is in drained.
AfterForward(h, drained) ==
  IF h \in drained THEN [sockets[h] EXCEPT !.rx = FALSE] ELSE sockets[h]

\* A bug that overlooks the end of the upstream stream.
ForwardEnds_IgnoresUpstream(h, drained) ==
  /\ states[h] = "Established"
  /\ ~MayRecv(AfterForward(h, drained)) \/ ~MaySend(sockets[h])

ForwardEnds(h, drained) ==
  /\ states[h] = "Established"
  /\ \/ h \in ended
     \/ ~MayRecv(AfterForward(h, drained)) \/ ~MaySend(sockets[h])

\* A bug that closes a forwarded connection without a RST.
AbortedByProcess_NotForwarded(h, drained) == HandshakeTimesOut(h)

AbortedByProcess(h, drained) == HandshakeTimesOut(h) \/ ForwardEnds(h, drained)

\* A bug that routes by the tracked 4-tuple.
NewTask_ByEndpoint(h) ==
  [h |-> h, s |-> sockets[h].s, target |-> Target(handle_to_endpoint[h]), result |-> "pending"]

\* The target is that of the socket's own local endpoint, not of the 4-tuple
\* the handle is tracked under.
NewTask(h) == [h |-> h, s |-> sockets[h].s, target |-> Target(sockets[h].tuple),
               result |-> "pending"]

\* process(): update_listeners, then shuttle_established; they work on disjoint
\* sets of handles.
Process ==
  /\ pc = "process" /\ pc' = "egress2"
  /\ \E drained \in SUBSET {h \in Handle : states[h] = "Established" /\ sockets[h].rx} :
       /\ states' = [h \in Handle |->
            IF HandshakeDone(h) THEN "Connecting"
            ELSE IF \/ ListenerClosed(h) \/ HandshakeTimesOut(h)
                    \/ ForwardEnds(h, drained) THEN "Closing"
            ELSE states[h]]
       /\ sockets' = [h \in Handle |->
            IF AbortedByProcess(h, drained)
            THEN Abort(AfterForward(h, drained)) ELSE AfterForward(h, drained)]
  /\ tasks' = tasks \cup {NewTask(h) : h \in {g \in Handle : HandshakeDone(g)}}
  /\ expired' = {h \in expired : states'[h] = "Listening"}
  /\ ended' = {h \in ended : states'[h] = "Established"}
  /\ UNCHANGED <<clientVars, tun, rx_queue, scan, isn, listening_endpoints, handle_to_endpoint>>

\* cleanup(): every Closing entry goes, with its socket and its endpoint.
ClosingHandles == {h \in Handle : states[h] = "Closing"}

\* A bug that forgets to release the endpoints.
ReleasedEndpoints_None == {}

ReleasedEndpoints == {handle_to_endpoint[h] : h \in ClosingHandles}

Cleanup ==
  /\ pc = "cleanup" /\ pc' = "wait"
  /\ listening_endpoints' = listening_endpoints \ ReleasedEndpoints
  /\ handle_to_endpoint' = [h \in Handle |-> IF h \in ClosingHandles THEN NoKey
                                             ELSE handle_to_endpoint[h]]
  /\ states' = [h \in Handle |-> IF h \in ClosingHandles THEN "Absent" ELSE states[h]]
  /\ sockets' = [h \in Handle |-> IF h \in ClosingHandles THEN FreeSlot ELSE sockets[h]]
  /\ UNCHANGED <<clientVars, tun, rx_queue, scan, isn, expired, ended, tasks>>

Tick == \/ ObserveSyn \/ Observed \/ Ingress \/ IngressDone
        \/ Egress \/ EgressDone \/ Process \/ Cleanup

-----------------------------------------------------------------------------
Next ==
  \/ ClientStep \/ ConnectReturns
  \/ \E h \in Handle : UpstreamEnds(h) \/ HandshakeExpires(h)
  \/ WaitForWork \/ Shutdown \/ Tick

Spec == Init /\ [][Next]_vars

\* Fairness.  The loop is one Tokio task that always makes progress:
\* wait_for_work returns after at most MAX_POLL_DELAY and tick() never blocks.
\* Connects return because of their 32 s timeout, the clock advances, and the
\* kernel handles what is written to the TUN.  Clients, upstream peers and the
\* shutdown signal owe nothing.
Fairness ==
  /\ WF_vars(WaitForWork) /\ WF_vars(Tick)
  /\ WF_vars(ConnectReturns)
  /\ \A h \in Handle : WF_vars(HandshakeExpires(h))
  /\ \A k \in Key : WF_vars(Deliver(k))

FairSpec == Spec /\ Fairness

-----------------------------------------------------------------------------
(* Properties.                                                             *)

ClientType == [st : {"closed", "synsent", "estab", "finwait"}, c : Nat, s : Nat, syns : Nat]

\* Every variable has its type.
TypeOK ==
  /\ client \in [Key -> ClientType]
  /\ tun \in Seq(Segment) /\ toApp \in [Key -> Seq(Segment)]
  /\ pc \in Phase /\ rx_queue \in Seq(Segment) /\ scan \in Nat \ {0}
  /\ sockets \in [Handle -> Socket] /\ isn \in Nat
  /\ states \in [Handle -> Tag]
  /\ expired \subseteq Handle /\ ended \subseteq Handle
  /\ tasks \subseteq Task
  /\ listening_endpoints \subseteq Key
  /\ handle_to_endpoint \in [Handle -> Key \cup {NoKey}]

\* The four tables of OutboundTcp agree at every point of the tick: an entry in
\* states is a socket of the set and a tracked endpoint, no two handles track
\* the same endpoint, and listening_endpoints holds exactly the endpoints of
\* the handles.  A leak in any of them would make observe_syns skip the SYNs of
\* an endpoint for ever.
EndpointsTracked ==
  /\ \A h \in Handle :
       /\ states[h] = "Absent" <=> sockets[h].state = "Free"
       /\ states[h] = "Absent" <=> handle_to_endpoint[h] = NoKey
  /\ \A g, h \in Handle :
       (handle_to_endpoint[g] = handle_to_endpoint[h] /\ states[g] # "Absent") => g = h
  /\ listening_endpoints = {handle_to_endpoint[h] : h \in Handle} \ {NoKey}

\* A connect task exists exactly for the Connecting entries: a client that goes
\* away takes its task along, and the end of the loop takes all of them.
NoOrphanTask ==
  /\ \A t \in tasks : states[t.h] = "Connecting" /\ t.s = sockets[t.h].s
  /\ \A h \in Handle : states[h] = "Connecting" => \E t \in tasks : t.h = h
  /\ \A t, u \in tasks : t.h = u.h => t = u

\* A client is proxied to the address it dialled, although listeners accept any
\* destination on their port and a socket may serve another 4-tuple than the
\* one its handle is tracked under.
RoutedAsDialled ==
  \A t \in tasks, k \in Key :
    (client[k].st \in {"estab", "finwait"} /\ client[k].s = t.s) => t.target = Target(k)

\* A client that believes to be connected is: a live socket serves it, or the
\* RST that tells it otherwise is owed or on its way.  No path of the program
\* forgets a connection silently.
Serves(sock, k) == sock.tuple = k /\ sock.c = client[k].c /\ sock.s = client[k].s
NoHalfOpen ==
  \A k \in Key : (client[k].st \in {"estab", "finwait"} /\ pc # "stopped") =>
    \/ \E h \in Handle : Serves(sockets[h], k)
    \/ \E i \in 1 .. Len(toApp[k]) :
         toApp[k][i].f = "RST" /\ toApp[k][i].c = client[k].c /\ toApp[k][i].s = client[k].s

\* cleanup() never removes a socket that still owes a segment: the second
\* Interface::poll of the tick has sent every RST.
ResetBeforeCleanup ==
  [][\A h \in Handle :
       (pc = "cleanup" /\ sockets[h].state # "Free" /\ sockets'[h].state = "Free")
         => ~HasEgress(sockets[h])]_vars

\* Every tracked endpoint is eventually forwarded or given up: handshakes that
\* stall, connects that stall and clients that vanish all come to an end.
TrackedResolves ==
  \A h \in Handle : (states[h] \in {"Listening", "Connecting", "Closing"})
                      ~> (states[h] \in {"Absent", "Established"})

\* When the upstream ends, the client hears of it, unless the loop is stopped.
UpstreamEndReachesClient ==
  \A h \in Handle, k \in Key :
    (h \in ended /\ sockets[h].state = "Established" /\ client[k].st = "estab"
       /\ Serves(sockets[h], k))
      ~> (client[k].st = "closed" \/ pc = "stopped")

\* observe_syns: "Inspect packets before smoltcp consumes them so a matching
\* listen socket exists when the SYN is processed."
SynFindsListener ==
  (pc = "ingress" /\ rx_queue # <<>> /\ Head(rx_queue).f = "SYN")
    => Accepting(Head(rx_queue)) # {}
=============================================================================
