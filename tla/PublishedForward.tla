-------------------------- MODULE PublishedForward --------------------------
(***************************************************************************)
(* The bytes of one published connection: shuttle_established of           *)
(* src/event_loop/published.rs.  The ns peer is the service behind the     *)
(* published port, the far peer the host's client.  PublishedTcp has the   *)
(* connections and the tick around it.                                     *)
(***************************************************************************)
EXTENDS ByteStreams

VARIABLES
  entry,              \* the tag of the entry in PublishedTcp::states
  host_to_namespace,
  close_after_drain

contextVars == <<entry, host_to_namespace, close_after_drain>>
vars == <<byteVars, contextVars>>

Init ==
  /\ StreamsInit /\ farSent = 0
  /\ entry = "Established" /\ host_to_namespace = <<>> /\ close_after_drain = FALSE

-----------------------------------------------------------------------------
\* try_read of the host's stream: the queue first, then its EOF and errors.
Reading == ~close_after_drain /\ Len(host_to_namespace) < TCP_BUF_SIZE
ReadFails == Reading /\ inq = <<>> /\ farEnd = "failed"

ReadsEof == Reading /\ inq = <<>> /\ farEnd = "eof"

Readable ==
  IF Reading THEN Moves(Min({TCP_BUF_SIZE - Len(host_to_namespace), Len(inq)})) ELSE {0}

\* A bug that waits for a full buffer before it sends.
Sendable_Full(read) ==
  IF MaySend(state) /\ Len(read) = TCP_BUF_SIZE THEN TCP_BUF_SIZE - Len(tx) ELSE 0

\* Bytes that send_slice takes of the buffer.
Sendable(read) == IF MaySend(state) THEN Min({TCP_BUF_SIZE - Len(tx), Len(read)}) ELSE 0

\* The service has closed its direction and everything it sent is written.
ServiceDone(r) == ~MayRecv(state, r) /\ r = <<>>

Drained(buf, r, t) == buf = <<>> /\ t = <<>> /\ r = <<>>

Unsent(read, n) == SubSeq(read, n + 1, Len(read))

\* One pass of shuttle_established: r bytes come from the host and w go to it.
Shuttle ==
  /\ entry = "Established"
  /\ \E r \in Readable, w \in Writable(rx) :
       LET read == host_to_namespace \o SubSeq(inq, 1, r)
           n == Sendable(read)
           failed == ReadFails \/ WriteFails(rx)
           drained == close_after_drain' /\ Drained(host_to_namespace', rx', tx')
           ends == failed \/ state = "Closed" \/ drained
       IN  /\ inq' = SubSeq(inq, r + 1, Len(inq))
           /\ host_to_namespace' = Unsent(read, n)
           /\ tx' = tx \o SubSeq(read, 1, n)
           /\ outq' = outq \o SubSeq(rx, 1, w) /\ rx' = SubSeq(rx, w + 1, Len(rx))
           /\ close_after_drain' = (close_after_drain \/ ReadsEof \/ ServiceDone(rx'))
           /\ state' = IF ends THEN "Closed" ELSE state
           /\ entry' = IF ends THEN "Closing" ELSE entry
  /\ UNCHANGED peerVars

\* poll_ready for this connection: whether wait_for_work returns because of it.
PollReady ==
  \/ /\ ~close_after_drain /\ Len(host_to_namespace) < TCP_BUF_SIZE
     /\ inq # <<>> \/ farEnd # "open"
  \/ rx # <<>> /\ StreamWritable

Next == ((NsStep \/ FarStep) /\ UNCHANGED contextVars) \/ Shuttle

Spec == Init /\ [][Next]_vars

-----------------------------------------------------------------------------
(* Properties.                                                             *)

\* Every variable has its type, and no buffer exceeds its capacity.
TypeOK ==
  /\ StreamTypeOK
  /\ entry \in {"Established", "Closing"} /\ close_after_drain \in BOOLEAN
  /\ host_to_namespace \in Seq(1 .. MaxBytes) /\ Len(host_to_namespace) <= TCP_BUF_SIZE

\* No byte is lost, repeated or overtaken on its way through the program.
BytesConserved ==
  /\ nsGot \o tx \o host_to_namespace \o inq = Bytes(farSent)
  /\ farGot \o outq \o rx = Bytes(nsSent)

\* When the host's client closes its direction and nobody resets, the service
\* has received every byte of it before its connection is reset.
RequestDelivered ==
  (entry = "Closing" /\ farEnd = "eof" /\ nsEnd = "open") => nsGot = Bytes(farSent)

\* Whichever direction ends first, the program ends the connection of two peers
\* that did not reset only when it holds nothing of either direction: what had
\* reached the socket from the service is written to the client, and what was
\* taken from the client has been received by the service.  It is no half-close:
\* after the client's EOF the connection is aborted as soon as the request is
\* drained, and a response the service has not begun to send is cut off.
NothingLeftBehind ==
  (entry = "Closing" /\ nsEnd # "reset" /\ farEnd # "failed") =>
    /\ farGot \o outq = Bytes(nsSent)
    /\ nsGot \o inq = Bytes(farSent)

\* "Register the event-loop waker only for I/O that can make progress.": a ready
\* stream that shuttle_established leaves alone would make the event loop spin.
WakesForWork == (entry = "Established" /\ PollReady) => ENABLED <<Shuttle>>_vars

\* And it is registered for all such I/O: a pass never moves bytes of the stream
\* that would not have ended the wait.
Noticed == (Shuttle /\ streamVars' # streamVars) => PollReady
=============================================================================
