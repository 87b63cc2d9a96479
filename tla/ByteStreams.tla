---------------------------- MODULE ByteStreams ----------------------------
(***************************************************************************)
(* The two streams between which the event loop forwards bytes: a smoltcp  *)
(* socket, at whose other end is a TCP peer in the namespace ("ns"), and a *)
(* Tokio stream, a TCP connection of the host's kernel, to a peer outside  *)
(* ("far").  OutboundForward and PublishedForward add the program between  *)
(* them.  Neither smoltcp nor the peers are part of the repository.        *)
(*                                                                         *)
(* A byte is named by its position in the stream of its sender, so that a  *)
(* buffer shows which bytes it holds.  A segment that is lost, on the way  *)
(* or by a failed write to the TUN, is sent again: smoltcp keeps bytes in  *)
(* tx until they are acknowledged, the ns peer keeps what does not fit rx. *)
(***************************************************************************)
EXTENDS Naturals, Sequences, FiniteSetsExt

CONSTANTS TCP_BUF_SIZE,  \* capacity of rx, of tx and of the program's buffer
          KERNEL_BUF,    \* capacity of the kernel's queues of the Tokio stream
          MaxBytes       \* bound: bytes each peer sends

ASSUME SizesAssumption ==
  /\ TCP_BUF_SIZE \in Nat \ {0} /\ KERNEL_BUF \in Nat \ {0} /\ MaxBytes \in Nat

VARIABLES
  state, rx, tx,            \* the smoltcp socket
  inq, outq,                \* the Tokio stream's receive and send queue
  nsSent, nsGot, nsEnd,     \* the ns peer: bytes sent, bytes received
  farSent, farGot, farEnd   \* the far peer

socketVars == <<state, rx, tx>>
streamVars == <<inq, outq>>
peerVars == <<nsSent, nsGot, nsEnd, farSent, farGot, farEnd>>
byteVars == <<socketVars, streamVars, peerVars>>

\* The first n bytes of a peer.
Bytes(n) == [i \in 1 .. n |-> i]

StreamsInit ==
  /\ state = "Established" /\ rx = <<>> /\ tx = <<>>
  /\ inq = <<>> /\ outq = <<>>
  /\ nsSent = 0 /\ nsGot = <<>> /\ nsEnd = "open"
  /\ farGot = <<>> /\ farEnd = "open"

\* tcp::Socket::may_recv (rx not empty is can_recv) and may_send.
MayRecv(st, r) == st = "Established" \/ r # <<>>
MaySend(st) == st \in {"Established", "CloseWait"}

-----------------------------------------------------------------------------
(* The ns peer.  It may close its direction and go on receiving, or reset. *)

NsSends ==
  /\ nsEnd = "open" /\ state = "Established"
  /\ nsSent < MaxBytes /\ Len(rx) < TCP_BUF_SIZE
  /\ nsSent' = nsSent + 1 /\ rx' = Append(rx, nsSent + 1)
  /\ UNCHANGED <<state, tx, streamVars, nsGot, nsEnd, farSent, farGot, farEnd>>

NsHalfCloses ==
  /\ nsEnd = "open" /\ state = "Established"
  /\ nsEnd' = "half" /\ state' = "CloseWait"
  /\ UNCHANGED <<rx, tx, streamVars, nsSent, nsGot, farSent, farGot, farEnd>>

NsResets ==
  /\ nsEnd # "reset" /\ MaySend(state)
  /\ nsEnd' = "reset" /\ state' = "Closed"
  /\ UNCHANGED <<rx, tx, streamVars, nsSent, nsGot, farSent, farGot, farEnd>>

\* The ns peer receives and acknowledges bytes, which frees them in tx.
NsReceives ==
  /\ MaySend(state)
  /\ \E k \in 1 .. Len(tx) : /\ nsGot' = nsGot \o SubSeq(tx, 1, k)
                             /\ tx' = SubSeq(tx, k + 1, Len(tx))
  /\ UNCHANGED <<state, rx, streamVars, nsSent, nsEnd, farSent, farGot, farEnd>>

NsStep == NsSends \/ NsHalfCloses \/ NsResets \/ NsReceives

-----------------------------------------------------------------------------
(* The far peer.  "eof": it has closed its direction; "failed": reset.     *)

FarSends ==
  /\ farEnd = "open" /\ farSent < MaxBytes /\ Len(inq) < KERNEL_BUF
  /\ farSent' = farSent + 1 /\ inq' = Append(inq, farSent + 1)
  /\ UNCHANGED <<socketVars, outq, nsSent, nsGot, nsEnd, farGot, farEnd>>

FarEnds ==
  /\ \/ farEnd = "open" /\ farEnd' = "eof"
     \/ farEnd # "failed" /\ farEnd' = "failed"
  /\ UNCHANGED <<socketVars, streamVars, nsSent, nsGot, nsEnd, farSent, farGot>>

FarReceives ==
  /\ \E k \in 1 .. Len(outq) : /\ farGot' = farGot \o SubSeq(outq, 1, k)
                               /\ outq' = SubSeq(outq, k + 1, Len(outq))
  /\ UNCHANGED <<socketVars, inq, nsSent, nsGot, nsEnd, farSent, farEnd>>

FarStep == FarSends \/ FarEnds \/ FarReceives

-----------------------------------------------------------------------------
(* Non-blocking I/O on the Tokio stream.                                   *)

\* How many bytes one call moves: any number up to limit, or none if it would
\* block or limit is zero.
Moves(limit) == IF limit = 0 THEN {0} ELSE 1 .. limit

\* try_write of data, and the bytes it may take.
WriteFails(data) == data # <<>> /\ farEnd = "failed"
Writable(data) ==
  IF farEnd = "failed" THEN {0} ELSE Moves(Min({Len(data), KERNEL_BUF - Len(outq)}))

\* poll_write_ready.
StreamWritable == Len(outq) < KERNEL_BUF \/ farEnd = "failed"

StreamTypeOK ==
  /\ state \in {"Established", "CloseWait", "Closed"}
  /\ \A q \in {rx, tx, inq, outq, nsGot, farGot} : q \in Seq(1 .. MaxBytes)
  /\ Len(rx) <= TCP_BUF_SIZE /\ Len(tx) <= TCP_BUF_SIZE
  /\ Len(inq) <= KERNEL_BUF /\ Len(outq) <= KERNEL_BUF
  /\ nsSent \in 0 .. MaxBytes /\ farSent \in 0 .. MaxBytes
  /\ nsEnd \in {"open", "half", "reset"} /\ farEnd \in {"open", "eof", "failed"}
=============================================================================
