-------------------------- MODULE OutboundForward --------------------------
(***************************************************************************)
(* The bytes of one forwarded outbound connection: shuttle_established of  *)
(* src/event_loop/outbound.rs, with the prefetched bytes of ProxyStream    *)
(* (src/proxy/mod.rs).  The ns peer is the application, the far peer the   *)
(* upstream proxy.  OutboundTcp has the connections and the tick around    *)
(* it; there a connection is just drained or not.                          *)
(***************************************************************************)
EXTENDS ByteStreams

CONSTANT MaxPrefetch   \* bound: bytes that arrived with the proxy's response

VARIABLES
  entry,             \* the tag of the entry in OutboundTcp::states
  buffered,          \* unread bytes of ProxyStream::buffered
  proxy_to_app,
  proxy_read_state

contextVars == <<entry, buffered, proxy_to_app, proxy_read_state>>
vars == <<byteVars, contextVars>>

Init ==
  /\ StreamsInit
  /\ farSent \in 0 .. Min({MaxPrefetch, MaxBytes})
  /\ buffered = Bytes(farSent)
  /\ entry = "Established" /\ proxy_to_app = <<>> /\ proxy_read_state = "Open"

-----------------------------------------------------------------------------
\* ProxyStream::try_read: the prefetched bytes come first, and only then
\* the stream, with its EOF and its errors.
Reading == proxy_read_state = "Open" /\ Len(proxy_to_app) < TCP_BUF_SIZE

\* A bug that reads the socket although prefetched bytes are left.
Source_SocketFirst == IF inq # <<>> THEN inq ELSE buffered

Source == IF buffered # <<>> THEN buffered ELSE inq

ReadFails == Reading /\ Source = <<>> /\ farEnd = "failed"
ReadsEof == Reading /\ Source = <<>> /\ farEnd = "eof"

Readable ==
  IF Reading THEN Moves(Min({TCP_BUF_SIZE - Len(proxy_to_app), Len(Source)}))
  ELSE {0}

\* What the abort() calls of one pass leave of the socket's state.
AfterIO == IF WriteFails(rx) \/ ReadFails THEN "Closed" ELSE state

\* A bug that ends the connection with bytes still on their way.
DrainedAfterEof_Early(prs, buf, t) == prs = "Eof" /\ buf = <<>> /\ MaySend(AfterIO)

DrainedAfterEof(prs, buf, t) == prs = "Eof" /\ buf = <<>> /\ t = <<>> /\ MaySend(AfterIO)

Ends(st, r) == ~MayRecv(st, r) \/ ~MaySend(st)

\* One pass of shuttle_established, in which w bytes go upstream and r come.
Shuttle ==
  /\ entry = "Established"
  /\ \E w \in Writable(rx), r \in Readable :
       LET read == proxy_to_app \o SubSeq(Source, 1, r)
           n == IF MaySend(AfterIO) THEN Min({TCP_BUF_SIZE - Len(tx), Len(read)}) ELSE 0
           drained == DrainedAfterEof(proxy_read_state', proxy_to_app', tx')
           st == IF drained THEN "Closed" ELSE AfterIO
       IN  /\ outq' = outq \o SubSeq(rx, 1, w) /\ rx' = SubSeq(rx, w + 1, Len(rx))
           /\ buffered' = IF Source = buffered THEN SubSeq(buffered, r + 1, Len(buffered))
                          ELSE buffered
           /\ inq' = IF Source = buffered THEN inq ELSE SubSeq(inq, r + 1, Len(inq))
           /\ proxy_read_state' = IF ReadFails THEN "Failed"
                                  ELSE IF ReadsEof THEN "Eof" ELSE proxy_read_state
           /\ tx' = tx \o SubSeq(read, 1, n)
           /\ proxy_to_app' = SubSeq(read, n + 1, Len(read))
           /\ state' = IF Ends(st, rx') THEN "Closed" ELSE st
           /\ entry' = IF Ends(st, rx') THEN "Closing" ELSE entry
  /\ UNCHANGED peerVars

\* A bug that asks the socket alone, as if nothing were prefetched.
PollReady_SocketOnly ==
  \/ /\ proxy_read_state = "Open" /\ Len(proxy_to_app) < TCP_BUF_SIZE
     /\ inq # <<>> \/ farEnd # "open"
  \/ rx # <<>> /\ StreamWritable

\* poll_ready for this connection: whether wait_for_work returns because of it.
PollReady ==
  \/ /\ proxy_read_state = "Open" /\ Len(proxy_to_app) < TCP_BUF_SIZE
     /\ buffered # <<>> \/ inq # <<>> \/ farEnd # "open"
  \/ rx # <<>> /\ StreamWritable

Next == ((NsStep \/ FarStep) /\ UNCHANGED contextVars) \/ Shuttle

Spec == Init /\ [][Next]_vars

-----------------------------------------------------------------------------
(* Properties.                                                             *)

\* Every variable has its type, and no buffer exceeds its capacity.
TypeOK ==
  /\ StreamTypeOK
  /\ entry \in {"Established", "Closing"}
  /\ buffered \in Seq(1 .. MaxBytes) /\ proxy_to_app \in Seq(1 .. MaxBytes)
  /\ Len(proxy_to_app) <= TCP_BUF_SIZE
  /\ proxy_read_state \in {"Open", "Eof", "Failed"}

\* No byte is lost, repeated or overtaken on its way through the program,
\* whatever the partial reads, partial writes and full buffers: what the
\* buffers hold between the peers is exactly what was sent and not received.
BytesConserved ==
  /\ nsGot \o tx \o proxy_to_app \o buffered \o inq = Bytes(farSent)
  /\ farGot \o outq \o rx = Bytes(nsSent)

\* When the upstream closes its direction and nothing fails, the application
\* has received every byte before its connection is reset.
UpstreamDelivered ==
  (entry = "Closing" /\ farEnd = "eof" /\ nsEnd = "open") => nsGot = Bytes(farSent)

\* When the application closes its direction while the upstream is open, every
\* byte it sent has been written upstream before the connection is dropped.
ClientDelivered ==
  (entry = "Closing" /\ farEnd = "open" /\ nsEnd = "half") => farGot \o outq = Bytes(nsSent)

\* The loop is woken only for what the next pass can do: a ready stream that
\* shuttle_established leaves alone would make the event loop spin.
WakesForWork == (entry = "Established" /\ PollReady) => ENABLED <<Shuttle>>_vars

\* And it is woken for all of it: a pass never finds bytes, an end or an error of
\* the stream that would not have ended the wait.
Noticed ==
  (Shuttle /\ <<streamVars, buffered, proxy_read_state>>' # <<streamVars, buffered, proxy_read_state>>)
    => PollReady
=============================================================================
