------------------------------ MODULE Forward ------------------------------
(***************************************************************************)
(* One established connection in the event loop, from its first byte to    *)
(* its end: an outbound one (OutboundForward) or a published one           *)
(* (PublishedForward), chosen by the first state.  The variables of the    *)
(* other kind keep their first value.                                      *)
(***************************************************************************)
EXTENDS ByteStreams

CONSTANT MaxPrefetch   \* see OutboundForward

ASSUME PrefetchAssumption == MaxPrefetch \in Nat

VARIABLES kind, entry,
          buffered, proxy_to_app, proxy_read_state,   \* of an outbound connection
          host_to_namespace, close_after_drain        \* of a published connection

Outbound == INSTANCE OutboundForward
Published == INSTANCE PublishedForward

outboundVars == <<buffered, proxy_to_app, proxy_read_state>>
publishedVars == <<host_to_namespace, close_after_drain>>
contextVars == <<kind, entry, outboundVars, publishedVars>>
vars == <<byteVars, contextVars>>

Init ==
  /\ kind \in {"outbound", "published"}
  /\ Outbound!Init /\ host_to_namespace = <<>> /\ close_after_drain = FALSE
  /\ kind = "published" => Published!Init

\* The pass of the event loop over the connection.
Shuttle ==
  /\ UNCHANGED kind
  /\ \/ kind = "outbound" /\ Outbound!Shuttle /\ UNCHANGED publishedVars
     \/ kind = "published" /\ Published!Shuttle /\ UNCHANGED outboundVars

Next == ((NsStep \/ FarStep) /\ UNCHANGED contextVars) \/ Shuttle

Spec == Init /\ [][Next]_vars

\* Fairness.  The loop passes over every entry in each tick.  Delivery is only
\* promised between peers that go on reading.
FairSpec ==
  /\ Spec
  /\ WF_vars(Shuttle)
  /\ WF_vars(NsReceives /\ UNCHANGED contextVars)
  /\ WF_vars(FarReceives /\ UNCHANGED contextVars)

-----------------------------------------------------------------------------
(* Properties.  Those that differ between the kinds are stated in their    *)
(* modules.                                                                *)

IsOutbound(P) == kind = "outbound" => P
IsPublished(P) == kind = "published" => P

\* Every variable has its type and no buffer exceeds its capacity, and no byte
\* is lost, repeated or overtaken on its way through shuttle_established,
\* whatever the partial reads, partial writes and full buffers.
BytesConserved ==
  /\ Outbound!TypeOK /\ Published!TypeOK
  /\ IsOutbound(Outbound!BytesConserved) /\ IsPublished(Published!BytesConserved)

\* When shuttle_established ends a connection nobody has reset, it leaves no byte
\* behind that it should have passed on.  Outbound: all that the upstream sent
\* before its EOF is delivered, and all that the application sent before its FIN
\* is written.  Published: all that the client sent before its EOF is delivered,
\* and whichever peer ended first, nothing of either direction is still in the
\* program.  Bytes that a peer would have sent after the other one's end are not
\* waited for: both kinds of connections are aborted then.
DeliveredBeforeEnd ==
  /\ IsOutbound(Outbound!UpstreamDelivered /\ Outbound!ClientDelivered)
  /\ IsPublished(Published!RequestDelivered /\ Published!NothingLeftBehind)

\* poll_ready ends the wait only for what the next pass can do, as a ready stream
\* that shuttle_established leaves alone would make the event loop spin; and for
\* all of it: a pass never finds bytes of the stream for which poll_ready would
\* have let the loop sleep on.
WaitsExactly ==
  /\ [](IsOutbound(Outbound!WakesForWork) /\ IsPublished(Published!WakesForWork))
  /\ [][IsOutbound(Outbound!Noticed) /\ IsPublished(Published!Noticed)]_vars

\* Nothing gets stuck: what one peer sent reaches the other unless
\* shuttle_established ends the connection, which it does once one of its peers
\* has ended.
BytesAndEndsArrive ==
  /\ \A n \in 1 .. MaxBytes :
       /\ (farSent >= n) ~> (Len(nsGot) >= n \/ entry = "Closing")
       /\ (nsSent >= n) ~> (Len(farGot) >= n \/ entry = "Closing")
  /\ (nsEnd # "open" \/ farEnd # "open") ~> (entry = "Closing")
=============================================================================
