---------------------------- MODULE ConnectTask ----------------------------
(***************************************************************************)
(* What the event loop relies on when it spawns proxy.connect(): the task  *)
(* returns exactly once, and a stream it returns delivers the bytes of the *)
(* tunnel, all of them and nothing else, however the proxy's handshake and *)
(* the first bytes of the tunnel were cut into segments.                   *)
(***************************************************************************)
EXTENDS Naturals, Sequences

VARIABLES result,   \* "pending", "ok" or "err"
          tunnel,   \* the bytes the upstream has sent through the tunnel
          offered   \* the bytes the returned stream delivers

Init == result = "pending" /\ tunnel = <<>> /\ offered = <<>>

IsPrefix(s, t) == Len(s) <= Len(t) /\ \A i \in 1 .. Len(s) : t[i] = s[i]

\* More bytes arrive through the tunnel.
Arrive ==
  /\ IsPrefix(tunnel, tunnel')
  /\ offered' = (IF result = "ok" THEN tunnel' ELSE <<>>)
  /\ UNCHANGED result

Return ==
  /\ result = "pending" /\ result' \in {"ok", "err"}
  /\ IsPrefix(tunnel, tunnel')
  /\ offered' = (IF result' = "ok" THEN tunnel' ELSE <<>>)

Next == Arrive \/ Return

Spec == Init /\ [][Next]_<<result, tunnel, offered>>

Terminates == <>(result # "pending")
=============================================================================
