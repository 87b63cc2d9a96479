# A TLA+ model of nsproxy-rs

nsproxy runs a command in a network namespace of its own and forwards its TCP
connections to a proxy. Two processes and a user-space TCP/IP stack take part,
and most of what can go wrong lies between them. This directory models those
parts in TLA+, checks the models with TLC and proves their main invariants with
TLAPS.

    tlc -config Setup.cfg Setup        model-check a run (see "Runs")
    tlapm ProcessProofs.tla            check the proofs of a module

`PROJECT.json` is the machine-readable index: the source lines behind every
definition, the runs, the mutants, the hazards, the findings and the theorems.

## The system

| Part | Source | State | Operations |
|---|---|---|---|
| Setup protocol | `main.rs`, `fd_passing.rs` | two processes, a socket pair, the TUN descriptor | `child_main`, `parent_main`, `read_control_byte`, `send_fd`, `recv_fd` |
| Namespaces and mounts | `namespace.rs` | kernel objects | `create_namespace`, `write_id_maps`, `bringup_loopback`, `create_tun`, `setup_mount_namespace`, `parse_bind_mounts` |
| Command tree reaper | `process.rs` | the tree, the last signal, the deadline | `run_command_tree`, `wait_for_command_tree`, `signal_descendants`, `forward_signal` |
| Event loop | `event_loop.rs` | device, interface, `SocketSet`, three components | `wait_for_work`, `tick` |
| TUN device | `tun.rs` | `rx_queue` | `poll_read`, `receive`, `transmit`, `parse_tcp_syn` |
| Outbound TCP | `event_loop/outbound.rs` | `states`, `listening_endpoints`, `handle_to_endpoint`, connect tasks | `observe_syns`, `poll_ready`, `process`, `cleanup`, `Drop` |
| DNS interceptor | `event_loop/dns.rs` | UDP socket, `FakeDns` | `process`, `target_for` |
| Fake-IP pool | `fake_dns.rs` | `domain_to_ip`, `ip_to_domain`, `next_offset` | `resolve`, `lookup`, `is_fake_ip` |
| DNS wire format | `fake_dns.rs` | none | `parse_query`, `build_a_response`, `build_empty_response` |
| Published ports | `event_loop/published.rs`, `publish.rs` | `states`, `handle_to_port`, `PortAllocator`, `pending` | `attach_accepted`, `process`, `cleanup`, accept tasks |
| Proxy connectors | `proxy/*.rs` | a stream, prefetched bytes | `connect` of SOCKS5, HTTP CONNECT, direct |
| Rules, configuration | `rule.rs`, `config.rs` | `PrefixTrie`, `RegexSet` | `from_specs`, `match_ip`, `match_domain`, `proxy_for` |

How they interact: `main` makes a socket pair and forks. The child enters its
namespaces, asks the parent for id maps, sends it the TUN descriptor, waits to
be released and becomes the reaper of the command tree. The parent binds the
published ports, releases the child and runs the event loop on the TUN until
the child has exited. Each tick of the loop reads packets, lets the outbound
component add listeners for new SYNs, polls smoltcp, lets the components react,
polls smoltcp again so that resets leave, and removes closed sockets. Outbound
connections ask the DNS interceptor for the name behind a fake address and the
rules for a route, and connect in tasks of their own.

The hard behaviours are the failure of either process at any step of the setup,
two control bytes that look the same, a process tree that changes while it is
read, packets that are inspected in batches before any of them is processed,
listeners that accept any address, client, upstream and timeouts ending a
connection at the same time, rings of addresses and of ports that wrap around,
buffers at their limit, and proxies that answer anything, in any pieces.
`PROJECT.json` lists them one by one under "hazards", at the line where they
bite.

## Modules

    FifoPool <--refines-- FakeDns              fake-IP pool
    Smoltcp  <--extends-- OutboundTcp          outbound TCP, tick, TUN, clients
    FakeDns  <--extends-- DnsInterceptor       DNS questions, answers and routes
    PublishedTcp                               published ports, tick, services
    ByteStreams <-extends- OutboundForward     the bytes of one outbound connection
    ByteStreams <-extends- PublishedForward    the bytes of one published connection
    OutboundForward, PublishedForward <-instance- Forward       either of them
    HttpConnect, Socks5 <-instance- ProxyConnect --refines--> ConnectTask
    DnsQuery <--extends-- DnsWire              parse_query, the responses
    Rules, Base64                              rules, base64_encode
    Setup                                      parent, child, socket pair
    Reaper                                     reaper and command tree
    MCSequential, MCOutboundTcp, MCPublishedTcp    instances for TLC
    DnsProofs, OutboundTcpProofs, PublishedTcpProofs, PublishedWireProofs,
    ForwardProofs, ConnectProofs, ProcessProofs, SequentialProofs      proofs

**FakeDns** has the three fields of `FakeDns` as variables; maps are functions
on the keys they hold. `Resolve` is `Hit` (the fast path) or `Allocate` (the
rest of `resolve`: next offset, eviction, both inserts). Addresses are numbers.
In *FakeDns*, *Rules*, *DnsQuery* and *Setup* the initial states and steps are
named for the part (`PoolInit`, `PoolNext`), so that a module can extend several.
**FifoPool** says what the pool promises: a bounded table of pairs in which only
the oldest entry of a full table gives up its address. `ImplementsFifo` maps
the ring to that table by reading it from the next slot onwards.

**Smoltcp** is what the program relies on in the library, as operators on a
socket record: which segments a socket accepts, what it becomes, what it sends.
It is external code, written from how `src/` uses it. Sequence numbers are two
identities, the client's attempt and the socket's initial number; a segment is
in the window iff both match. The program never calls `close()`, so of the
closing states only CloseWait and Closed occur.

**OutboundTcp** is the loop as one task with a program counter that follows
`tick()`: `observe` (`observe_syns`, packet by packet), `ingress` and `egress1`
(the first `Interface::poll`), `process`, `egress2` (the second one), `cleanup`,
`wait` (`wait_for_work` with `poll_connecting`). `states`,
`listening_endpoints` and `handle_to_endpoint` are the tables of the source;
`expired` and `ended` stand for the clock and for the upstream streams. Clients
(the kernel of the namespace), connect tasks and upstream peers step at any
time. `drained` is the choice of which sockets the upstream could take all
bytes from. Left out: the forwarded bytes, which are the subject of
*OutboundForward*, except that a FIN may arrive with bytes unread; `TimeWait`
and the other states that need `close()`; a SYN to port 0, for which `listen`
fails; lost packets, because the TUN is a local queue. A target is the
address and port of the socket's local endpoint: `target_for` on numeric
addresses. The guard of `ObserveSyn` needs a free slot; with one slot per
4-tuple there always is one, because no 4-tuple is tracked twice.

**Setup** has one program counter per process, the holders of each end of the
socket pair and of the TUN descriptor, and the two byte queues. Every step of
`child_main` and `parent_main` is an action; `ChildDies` and `ParentDies` may
strike between any two of them and stand for the errors of the steps as well as
for a kill. Bytes are read one at a time, and an end of file is seen only when
no process holds the other end. The command tree is the single step
`CommandEnds`.

**Reaper** has the tree (`st`, `par`), the reaper's pending signals and the
locals of `wait_for_command_tree` and `signal_descendants`. `/proc` is read one
process per step, with all its threads; forks, exits and adoptions happen in
between. `got` and `members` are history: which signals a process was sent, and
who was in the tree when the termination began. `Protected` holds the processes that may have
changed their user, so that `/proc` and `kill()` may refuse them: the error goes
up through every caller and the reaper exits. The tree then lives on outside nsproxy:
`TreeCollected` speaks of a reaper that returns, `TerminationEndsTree` allows one
that has failed, and `ProxyOutlivesCommand` of *Setup* follows the reaper, not
the processes it lost. Children are listed in any order, as `/proc` gives them.

**PublishedTcp** follows the same `tick()` for host connections. An accept task
holds at most one connection (`sending`) until the channel has room; `pending`
fills in two places, `poll_ready` and `attach_accepted`. `FirstFree` is the
allocator's search: the first free port from `next` on, round the ring. A socket
is named by its connection, so that a port used again shows as the same port
with another connection. The kernel of the namespace has a connection per port;
segments name the connection they belong to, which stands for their sequence
numbers; one of an earlier connection is answered with a RST or ignored. A connection whose peer has ended is drained at any later `process()`.

**OutboundForward** and **PublishedForward** are the two versions of
`shuttle_established`, each for one Established entry, with *ByteStreams* around
it: a smoltcp socket, a Tokio stream and the peers at both ends. A byte is its
position in the stream of its sender. `Shuttle` is one iteration of the loop, in
the order of the code; each read and write may be partial. `PollReady` is the
part of `poll_ready` for the entry. The program ends a connection by an abort,
after which nothing more is received or sent. **Forward** is a connection of
either kind, with the properties they share.

**DnsInterceptor** composes `process`, *FakeDns* and `target_for` in the tick:
applications ask (questions of four kinds, repeated or not), keep the address
and connect later. Packets are dropped by the two bounded buffers and by writes
to the TUN that fail. `named` and `lost` are history, for the properties only.

**ConnectTask** says what a connect promises: it returns once, and a stream it
returns offers exactly the bytes of the tunnel, from the first one on.
**HttpConnect** reads a reply of classes of bytes through a bounded reader that
is filled in any portions; **Socks5** chooses a field's value when it is read,
since only the number of bytes sent matters before that. In both the server
sends anything, ends or resets at any time, or stays silent. **ProxyConnect** is
`ProxyConfig::connect`: the connector of the route, the direct one included,
under the timeout, shown to implement ConnectTask.

**Rules** has the trie as a function from paths to actions, so a node exists iff
its path is in the domain. `Take` is one iteration of `from_specs`. A regular
expression is the set of names it matches, a `domain` rule the names that equal
its own up to case; building the set of them may fail. **DnsQuery** has one step per label of `parse_query`; an
index out of range is the result "panic". **DnsWire** adds the two responses,
the choice between them, and what a reader of them sees: the bytes of the question
and the records of the answer. The class of a question is not read, so a
response is of class IN whatever was asked. **Base64** has one step per chunk. **MCSequential** runs
these three and *FakeDns*, one at a time, as nothing in them is concurrent.

## Runs

| Run | Checks | Distinct states |
|---|---|---|
| `sequential` (`Sequential.cfg`) | fake-IP pool: the maps are inverse, FifoPool is implemented. Rules: longest prefix, first rule among equals, first matching name. DNS messages: no read past the end, exactly the well-formed are accepted, a response repeats name and type and answers them. Base64: whole quartets, bits in order | 739 000 |
| `dns_interceptor` (`DnsInterceptor.cfg`) | routed to the name asked for; answers agree; questions answered | 326 000 |
| `outbound_shared` (`OutboundShared.cfg`) | two clients on one port: routed as dialled, no half-open client, resets before cleanup | 3.4 million |
| `outbound_reuse` (`OutboundReuse.cfg`) | one 4-tuple used twice, SYNs retransmitted: tables agree, no orphan task, no half-open client; every endpoint resolves; an upstream's end reaches the client | 170 000 |
| `forward` (`Forward.cfg`) | outbound and published connections: bytes conserved, none left behind by an end that is no reset; wakes for work and only for work; bytes and ends arrive | 86 000 |
| `published` (`Published.cfg`) | ports balanced, streams held once, a reused 4-tuple is fresh, no service abandoned, refused only when full | 1.8 million |
| `published_live` (`PublishedLive.cfg`) | accepted connections resolve; services hear of the end | 29 000 |
| `proxy_connect` (`ProxyConnect.cfg`) | SOCKS5 messages in order; ConnectTask is implemented; the connect returns | 640 000 |
| `setup` (`Setup.cfg`) | release, id maps, TUN ownership, order of the end; no deadlock; neither process waits for ever; a signal ends both | 372 |
| `reaper` (`Reaper.cfg`) | the reaper returns only with the whole tree collected and the command's status; termination ends the tree; the last exit is noticed | 147 000 |

Two more runs state what a comment or the documentation says and show that the
code does something else:

- `outbound_syn`: "Inspect packets before smoltcp consumes them so a matching
  listen socket exists when the SYN is processed" (`outbound.rs:57`). When an
  ACK, a RST and a new SYN of one 4-tuple are read in one batch, the SYN is
  skipped, as its 4-tuple is still tracked; the RST then closes the socket and
  the SYN is refused. The client sees a refused connection and may retry.
- `reaper_forward`: "SIGTERM, SIGINT, and SIGHUP are forwarded to the managed
  command tree" (`README.md:89`). A process whose parent exits while `/proc` is
  read is adopted by the reaper after the reaper's own children were read; it is
  not told of the signal, and nothing wakes the reaper until the grace period
  is over. SIGKILL then finds it, as `TerminationEndsTree` shows.

Five other differences between words and code can be read off the modules, and
have no run of their own:

- "so every startup operation that can fail has completed first"
  (`main.rs:346`): `EventLoop::new` runs after the release, in a task whose
  error is only logged when the child has exited (`event_loop` of *Setup*).
- `namespace.rs:3` lists `setup_mount_namespace` before `create_tun`;
  `child_main` calls them the other way round. No property depends on it.
- "Data is shuttled bidirectionally" (`README.md:26`): an application that
  closes its sending direction and waits for the response is reset once its own
  bytes are forwarded (`outbound.rs:329`, `Ends` of *OutboundForward*), with
  bytes of the upstream undelivered. What remains true is
  `ClientDelivered`, a part of `DeliveredBeforeEnd`.
- The same words, for published ports: after the EOF of the host's client the
  connection is aborted as soon as the request is drained (`published.rs:306`
  and `370`, `Shuttle` of *PublishedForward*), and a response the service has not
  begun to send is lost. What remains true is `NothingLeftBehind`, a part of
  `DeliveredBeforeEnd`: what had reached the program is passed on.
- "Headers end at the first blank line" (`http.rs:101`): they also end where the
  reply ends (`ReadEof` of *HttpConnect*). The tunnel that is returned then is
  already at its end.

### Bounds

- `sequential`: a pool of three addresses for five domains; the state is the
  ring, so every order of evictions is covered. Addresses of two bits, three
  names of which two differ in case, two routes, every list of three rules. DNS
  names of up to five bytes over the classes the parser tells apart, followed by
  type and class of three questions (A, AAAA, and one of another class), whole or
  cut off. Five bytes of credentials cover every length of the last
  chunk.
- `outbound_shared`: two 4-tuples with the same port, one connection each; this
  is what listeners compete for. `outbound_reuse`: one 4-tuple, two connections,
  two SYNs each (`MaxAttempts`, `MaxSyns`); one connection is followed by
  another on the same 4-tuple, with stale packets of the first. `NumSockets` is
  the number of 4-tuples. `outbound_syn` uses one 4-tuple, two connections
  and one SYN each.
- `published`: three connections, one listener, two ports and a channel of one
  place, so that the channel fills, ports run out and are used again.
  Connections are interchangeable (symmetry). `published_live`: two connections,
  two listeners that compete for the channel, one port, no symmetry.
- `forward`: buffers of two bytes (`TCP_BUF_SIZE`, `KERNEL_BUF`) and up to five
  bytes per direction (`MaxBytes`), so that several buffers are full at once; up to two bytes came
  with the proxy's response (`MaxPrefetch`).
- `dns_interceptor`: three names for two addresses, buffers of two packets, four
  packets of the applications: the pool wraps and a buffer overflows.
- `proxy_connect`: HTTP replies of up to six bytes through a reader of three;
  SOCKS5 replies of 27 bytes, one more than the longest handshake, with names of
  up to three bytes.
- `setup` has no bounds: the protocol is finite.
- `reaper`: three processes, enough for a command, its child and a grandchild
  that is adopted, and one termination signal, which may arrive again and
  again. In `reaper` process 3 may refuse it, in `reaper_forward` none does.
  Processes are never reused.

Deadlock is checked except where the program ends: the outbound and published
runs, whose loop stops at `Shutdown`, the connectors, which return, the
sequential parts, which end with their input, and the forwarding of one
connection, which ends with it.

### Fairness

- *OutboundTcp*: the loop is a Tokio task that waits at most `MAX_POLL_DELAY`
  and never blocks in a tick (`WaitForWork`, `Tick`); connects return because of
  `CONNECT_TIMEOUT`; the clock advances (`HandshakeExpires`); the kernel handles
  packets. Clients, upstream peers and the shutdown signal owe nothing.
- *PublishedTcp*: the same, and Tokio serves the senders that wait for the
  channel in turn (strong fairness of `SendAccepted`). *DnsInterceptor*: ticks
  go on. *Forward*: the shuttle is called in every
  tick, and both peers read what they are sent: bytes only flow to a reader.
  Neither peer has to send or to end anything.
- *ProxyConnect*: only the timer of `CONNECT_TIMEOUT`. Nothing is
  assumed of the server.
- *Setup*: both processes and the event loop's task are scheduled, and only the
  reads of the socket pair block. The command owes nothing before a signal was
  forwarded; afterwards `CommandEnds` is fair, which is what
  `TerminationEndsTree` of *Reaper* shows of the reaper. A reaper that fails
  instead ends too.
- *Reaper*: the reaper is scheduled and the grace period ends. The processes of
  the tree owe nothing: they may ignore every signal but SIGKILL, and fork as
  long as the bound lets them. A tree that forks for ever faster than it is
  killed is outside the bound.

## Proofs

Proved with TLAPS for every value of the constants: any number of 4-tuples,
connections, processes, rules and names, buffers and replies of any size. The
assumptions are named in the modules that declare the constants and evaluated
by TLC: `PoolAssumption` (the pool is not empty), `UdpAssumption` and
`NumericAssumption` (a socket has room for a packet; a numeric target is not a
name), `KeyAssumption` and `SocketsAssumption` (the absent 4-tuple is not one;
the number of sockets is a natural number), `PublishedAssumption` (at least one
source port and one place in the channel), `SizesAssumption` and
`PrefetchAssumption` (buffers are not empty), `ConnectAssumption` (a reader has
room for a byte, the length of a name is one byte), `ReaperAssumption` (there is
a command, and the signals forwarded are neither SIGCHLD nor SIGKILL),
`RulesAssumption` (`fold` maps names to names, "no action" is no route) and
`QueryAssumption` (bytes are bytes).

Each theorem follows from an inductive invariant of its module; the properties
themselves are seldom inductive.

- **DnsProofs**, pool: `TypeCorrect`, `MapsAlwaysInverse`.
  That the maps are inverse is inductive together with the types and the order
  in which the ring fills (`RingFilled`): an allocation takes the slot's old
  domain out of the forward map, and the new domain had no entry because the
  fast path did not apply. `PoolIsFifo` is the refinement of *FifoPool*: read
  from the next slot onwards, the ring is the abstract table, and an allocation
  takes its first entry only when the ring is full.
- **DnsProofs**, interceptor: `AlwaysRoutedAsAsked`, `AnswersAlwaysAgree`. An
  address is carried by answers, applications, packets and connections
  before it is used, so the invariant says of all of them that the address still
  stands for the name it was handed out for (`Standing`), as long as the pool
  has had room for every name (`Roomy`).
- **OutboundTcpProofs**, tables: `OutboundTypeCorrect`, `EndpointsAlwaysTracked`,
  `TasksNeverOrphaned`, `ResetsSentBeforeCleanup`. The
  tables alone are not inductive. The invariant adds the shape of a socket per
  state (`Shapes`: a free slot is blank, a listener has no 4-tuple, one that has
  seen a SYN has), that an entry past Listening is never in a handshake state
  (`PastHandshake`), and that nothing is left to send when the loop reaches
  `cleanup` (`Flushed`).
- **OutboundTcpProofs**, segments: `ClientsRoutedAsDialled`, `NeverHalfOpen`. A
  sequence number belongs to one 4-tuple wherever it turns up, in a socket, a
  packet, a client or a task (`Numbered`); no packet belongs to an attempt that
  has not been made (`Attempts`); a client that sent a RST is gone
  (`ResetsGone`); and a client that is connected, or will be by a SYN|ACK on its
  way, has a socket or a RST behind that SYN|ACK (`Told`).
- **PublishedTcpProofs**: `PublishedTypeCorrect`, `PortsAlwaysBalanced`,
  `StreamsHeldOnce`, `RefusalsOnlyWhenFull`. The invariant says where a stream
  is (`Held`: an open stream is in a task, the channel, `pending` or an entry;
  `Apart`: in one of them) and that entry, stream and socket agree (`Entries`).
  It needs nothing of the namespace's kernel. That a refusal means no free port
  rests on `FirstFree`, the search of the ring, finding one if there is one.
- **PublishedWireProofs**: `TuplesAlwaysFresh`, `ServicesNeverAbandoned`. A
  connection sends one SYN (`SynOnce`), everything else about it comes later
  (`AfterSyn`), what the kernel holds is served or will be reset
  (`Answerable`), and between a connection and the next SYN on its port there is
  a RST (`Separated`): this is why a port may be used again at once.
- **ForwardProofs**: `BytesAlwaysConserved`, `AlwaysDeliveredBeforeEnd`, for both
  forwarders. Conservation is inductive with the types. Delivery is not: it says
  nothing of a connection whose EOF is read and which is not closed yet
  (`EndsInOrder`). `NothingUnnoticed` is the half of `WaitsExactly` that has no
  ENABLED: a pass that finds something in the stream finds `poll_ready` true.
- **ConnectProofs**: `MessagesAlwaysInOrder`, and `ConnectIsTask`, the refinement
  of *ConnectTask* by every connector. For SOCKS5 the invariant has what was
  written (`Spoken`) and how many bytes were read (`Measured`) at each point of
  `connect`; for HTTP that no blank line was consumed while headers are read, so
  that the first one ends where the tunnel starts (`Lined`).
- **ProcessProofs**, setup: `SetupTypeCorrect`, `CommandOnlyReleased`,
  `MapsAlwaysFirst`, `TunStaysWithProxy`, `ProxyLastToEnd`. As acknowledgement
  and ready signal are the same byte, the invariant counts: no more bytes are
  queued for the child than were sent and not yet read (`Counted`), and the
  parent knows of the child's namespace what the first byte says (`Informed`).
  A child that waits for the ready signal has read the acknowledgement, so the
  only byte that can be queued for it is the ready signal. `Held` has the TUN
  descriptor and the order of the end.
- **ProcessProofs**, reaper: `ReaperTypeCorrect`, `TreeAlwaysCollected`, for
  trees of any size and shape. Whoever is left has an older parent that is
  alive, or is the reaper's child (`Rooted`); so the oldest process left is the
  reaper's child, and `waitpid` says ECHILD only when nobody is left.
- **SequentialProofs**, `parse_query`: `QueriesAlwaysRead`, for datagrams of any
  length. The invariant is the set of offsets at which a length byte was read
  (`Walked`): every reading of the datagram begins with them, so a datagram that
  is refused has none, and one that is accepted has the labels returned.
- **SequentialProofs**, rules: `RulesAlwaysDecide`, for any list of rules and
  addresses of any width. A node of the trie with an action has that of the
  first rule entered there (`Entries`), no node lacks one above it (`Rooted`),
  and patterns stand in the order of the rules (`Ordered`).

Only model-checked: liveness, which needs fairness (`QuestionAnswered`,
`TrackedResolves`, `UpstreamEndReachesClient`, `BytesAndEndsArrive`,
`PublishedResolves`, `Returns`, `NobodyWaits`, `SignalEndsAll`,
`TerminationEndsTree`, `EndNoticed`); the other half of `WaitsExactly`, that the
loop wakes only for work, which is about ENABLED; and `EchoesQuestion` and
`EncodesExactly`, whose responses and encodings are built by recursion over the
labels and chunks, and so need induction over data.

## Not modelled

- Command line, `ProxyConfig::parse`, `parse_publish_specs`,
  `parse_bind_mounts`: conversions of strings that decide nothing later.
- The system calls behind `create_tun`, `bringup_loopback` and the mounts: they
  configure kernel objects the model does not look into.
- Failing writes to the TUN (`tun.rs:134`) in the TCP modules: a lost reset
  would leave a client half-open or a service waiting, so `NoHalfOpen` and
  `ServiceNotAbandoned` hold only while writes succeed. For the bytes of a
  connection a lost segment is sent again; DNS answers may be lost.
- One tick with all three components at once: they own disjoint sockets and
  meet only in `target_for`, which *DnsInterceptor* has.
- `AsyncRead` and `AsyncWrite` of `ProxyStream`: the event loop uses `try_read`.
- Recycled pids in *Reaper*. Several published services at once: they differ in
  the destination port and so never share a 4-tuple; the model takes the worst
  case, one service.

## Plan

1. A composition of *Setup* and *Reaper*, so that `CommandEnds` is the reaper's
   own end.
2. Lost resets in the TCP modules.
