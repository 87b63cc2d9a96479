---------------------------- MODULE ForwardProofs ----------------------------
(***************************************************************************)
(* Proofs about Forward: for every size of the buffers and every number of *)
(* bytes, an established connection loses, repeats and reorders nothing,   *)
(* and ends in order only after its last byte.                             *)
(*                                                                         *)
(* That bytes are conserved is inductive with the types: each step moves a *)
(* prefix of one queue to the end of the one before it.  DeliveredBefore-  *)
(* End is not inductive: it says nothing of a connection whose EOF is read *)
(* and which is not closed yet, and nothing of the queues it leaves        *)
(* behind.  Both are in EndsInOrder.                                       *)
(***************************************************************************)
EXTENDS Forward, SequenceTheorems, TLAPS

USE SMTT(20), ZenonT(20)

Byte == 1 .. MaxBytes

\* The types of all variables, of either kind of connection.
Types ==
  /\ kind \in {"outbound", "published"} /\ entry \in {"Established", "Closing"}
  /\ state \in {"Established", "CloseWait", "Closed"}
  /\ nsEnd \in {"open", "half", "reset"} /\ farEnd \in {"open", "eof", "failed"}
  /\ proxy_read_state \in {"Open", "Eof", "Failed"} /\ close_after_drain \in BOOLEAN
  /\ nsSent \in 0 .. MaxBytes /\ farSent \in 0 .. MaxBytes
  /\ nsGot \in Seq(Byte) /\ farGot \in Seq(Byte) /\ buffered \in Seq(Byte)
  /\ rx \in Seq(Byte) /\ Len(rx) <= TCP_BUF_SIZE
  /\ tx \in Seq(Byte) /\ Len(tx) <= TCP_BUF_SIZE
  /\ inq \in Seq(Byte) /\ Len(inq) <= KERNEL_BUF
  /\ outq \in Seq(Byte) /\ Len(outq) <= KERNEL_BUF
  /\ proxy_to_app \in Seq(Byte) /\ Len(proxy_to_app) <= TCP_BUF_SIZE
  /\ host_to_namespace \in Seq(Byte) /\ Len(host_to_namespace) <= TCP_BUF_SIZE

\* The bytes of the two directions.
Conserved ==
  /\ kind = "outbound" => nsGot \o tx \o proxy_to_app \o buffered \o inq = Bytes(farSent)
  /\ kind = "published" => nsGot \o tx \o host_to_namespace \o inq = Bytes(farSent)
  /\ farGot \o outq \o rx = Bytes(nsSent)

\* The socket's state follows from what the ns peer did, until the program
\* aborts it.
SocketFollows ==
  /\ entry = "Closing" => state = "Closed"
  /\ (entry = "Established" /\ nsEnd = "open") => state = "Established"
  /\ (entry = "Established" /\ nsEnd = "half") => state = "CloseWait"

\* Outbound: the EOF is read after the last byte, and the program ends the
\* connection of an open application only when the upstream has ended.
OutboundEnds ==
  /\ proxy_read_state = "Eof" => farEnd # "open" /\ buffered = <<>> /\ inq = <<>>
  /\ (entry = "Closing" /\ nsEnd = "open") =>
       /\ farEnd # "open"
       /\ farEnd = "eof" => tx = <<>> /\ proxy_to_app = <<>> /\ buffered = <<>> /\ inq = <<>>
  /\ (entry = "Closing" /\ nsEnd = "half" /\ farEnd = "open") => rx = <<>>

\* Published: the same, and an end that is no reset leaves nothing of either
\* direction in the program.
PublishedEnds ==
  /\ (close_after_drain /\ nsEnd = "open") => farEnd # "open" /\ inq = <<>>
  /\ (entry = "Closing" /\ nsEnd = "open") =>
       /\ farEnd # "open"
       /\ farEnd = "eof" => tx = <<>> /\ host_to_namespace = <<>> /\ inq = <<>>
  /\ (entry = "Closing" /\ nsEnd # "reset" /\ farEnd # "failed") =>
       rx = <<>> /\ tx = <<>> /\ host_to_namespace = <<>>

EndsInOrder == SocketFollows /\ IsOutbound(OutboundEnds) /\ IsPublished(PublishedEnds)

\* The inductive invariant.
IInv == Types /\ Conserved /\ EndsInOrder

-----------------------------------------------------------------------------
(* Sequences of bytes.                                                     *)

\* A sequence is what it is split into.
LEMMA SplitAt ==
  ASSUME NEW S, NEW q \in Seq(S), NEW k \in 0 .. Len(q)
  PROVE  /\ SubSeq(q, 1, k) \in Seq(S) /\ Len(SubSeq(q, 1, k)) = k
         /\ SubSeq(q, k + 1, Len(q)) \in Seq(S) /\ Len(SubSeq(q, k + 1, Len(q))) = Len(q) - k
         /\ SubSeq(q, 1, k) \o SubSeq(q, k + 1, Len(q)) = q
<1>1. /\ SubSeq(q, 1, k) \in Seq(S) /\ Len(SubSeq(q, 1, k)) = k
  OBVIOUS
<1>2. /\ SubSeq(q, k + 1, Len(q)) \in Seq(S) /\ Len(SubSeq(q, k + 1, Len(q))) = Len(q) - k
  OBVIOUS
<1>3. 1 \in 1 .. Len(q) + 1 /\ k \in 1 - 1 .. Len(q) /\ Len(q) \in k .. Len(q)
  OBVIOUS
<1>4. SubSeq(q, 1, k) \o SubSeq(q, k + 1, Len(q)) = SubSeq(q, 1, Len(q))
  BY <1>3, ConcatAdjacentSubSeq, Zenon
<1> QED
  BY <1>1, <1>2, <1>4, SubSeqFull, Zenon

\* A prefix that moves from one queue to the end of the queue before it.
LEMMA MoveOver ==
  ASSUME NEW S, NEW a \in Seq(S), NEW q \in Seq(S), NEW k \in 0 .. Len(q)
  PROVE  (a \o SubSeq(q, 1, k)) \o SubSeq(q, k + 1, Len(q)) = a \o q
<1> DEFINE b == SubSeq(q, 1, k)
           c == SubSeq(q, k + 1, Len(q))
<1>1. b \in Seq(S) /\ c \in Seq(S) /\ b \o c = q
  BY SplitAt, Zenon
<1> HIDE DEF b, c
<1>2. (a \o b) \o c = a \o (b \o c)
  <2> SUFFICES ASSUME NEW s \in Seq(S), NEW u \in Seq(S), NEW v \in Seq(S)
               PROVE  (s \o u) \o v = s \o (u \o v)
    BY <1>1, ZenonT(40)
  <2> QED
    BY ConcatAssociative
<1> QED
  BY <1>1, <1>2, Zenon DEF b, c

\* One byte more is sent.
LEMMA OneMore ==
  ASSUME NEW a \in Seq(Byte), NEW q \in Seq(Byte), NEW n \in 0 .. MaxBytes, n < MaxBytes,
         a \o q = Bytes(n)
  PROVE  a \o Append(q, n + 1) = Bytes(n + 1)
<1>1. n + 1 \in Byte
  BY SizesAssumption DEF Byte
<1>2. /\ Append(q, n + 1) \in Seq(Byte) /\ Len(Append(q, n + 1)) = Len(q) + 1
      /\ \A i \in 1 .. Len(q) : Append(q, n + 1)[i] = q[i]
      /\ Append(q, n + 1)[Len(q) + 1] = n + 1
  BY <1>1
<1>3. Len(Bytes(n)) = n /\ \A i \in 1 .. n : Bytes(n)[i] = i
  BY DEF Bytes
<1>4. Len(a) + Len(q) = n
  BY <1>3, ConcatProperties
<1>5. Bytes(n + 1) \in Seq(Byte) /\ Len(Bytes(n + 1)) = n + 1 /\ \A i \in 1 .. n + 1 : Bytes(n + 1)[i] = i
  <2>1. \A i \in 1 .. n + 1 : i \in 1 .. MaxBytes
    BY SizesAssumption
  <2>2. n + 1 \in Nat
    OBVIOUS
  <2> QED
    BY <2>1, <2>2 DEF Bytes, Byte
<1> DEFINE b == Append(q, n + 1)
<1> HIDE DEF b
<1>6. /\ a \o b \in Seq(Byte) /\ Len(a \o b) = n + 1
      /\ \A i \in 1 .. n + 1 : (a \o b)[i] = IF i <= Len(a) THEN a[i] ELSE b[i - Len(a)]
  BY <1>2, <1>4, ConcatProperties DEF b
<1>7. \A i \in 1 .. n : Bytes(n)[i] = IF i <= Len(a) THEN a[i] ELSE q[i - Len(a)]
  BY <1>4, ConcatProperties
<1>8. ASSUME NEW i \in 1 .. n + 1 PROVE (a \o b)[i] = i
  <2>1. CASE i = n + 1
    <3>1. i - Len(a) = Len(q) + 1 /\ ~(i <= Len(a))
      BY <1>4, <2>1
    <3> QED
      BY <1>2, <1>6, <2>1, <3>1 DEF b
  <2>2. CASE i <= Len(a)
    <3>1. i \in 1 .. n
      BY <1>4, <2>2
    <3> QED
      BY <1>3, <1>6, <1>7, <2>2, <3>1
  <2>3. CASE i > Len(a) /\ i <= n
    <3>1. i - Len(a) \in 1 .. Len(q)
      BY <1>4, <2>3
    <3>2. (a \o b)[i] = b[i - Len(a)] /\ b[i - Len(a)] = q[i - Len(a)]
      BY <1>2, <1>6, <2>3, <3>1 DEF b
    <3> QED
      BY <1>3, <1>7, <2>3, <3>2
  <2>4. Len(a) \in Nat /\ i \in Nat /\ n \in Nat /\ i <= n + 1
    BY SizesAssumption
  <2>5. i = n + 1 \/ i <= Len(a) \/ (i > Len(a) /\ i <= n)
    BY <2>4
  <2> QED
    BY <2>1, <2>2, <2>3, <2>5, Zenon
<1> QED
  BY <1>5, <1>6, <1>8, SeqEqual, Zenon DEF b

LEMMA MinOfTwo ==
  ASSUME NEW a \in Nat, NEW b \in Nat
  PROVE  Min({a, b}) \in Nat /\ Min({a, b}) <= a /\ Min({a, b}) <= b
<1>1. \E x \in {a, b} : \A y \in {a, b} : x =< y
  OBVIOUS
<1>2. Min({a, b}) \in {a, b} /\ \A y \in {a, b} : Min({a, b}) =< y
  BY <1>1, Zenon DEF Min
<1> QED
  BY <1>2

\* What one call moves is within its limit.
LEMMA MovesWithin ==
  ASSUME NEW a \in Nat, NEW b \in Nat, NEW k \in Moves(Min({a, b}))
  PROVE  k \in Nat /\ k <= a /\ k <= b
BY MinOfTwo DEF Moves

LEMMA WritableWithin ==
  ASSUME NEW q \in Seq(Byte), outq \in Seq(Byte), Len(outq) <= KERNEL_BUF, NEW w \in Writable(q)
  PROVE  w \in 0 .. Len(q) /\ Len(outq) + w <= KERNEL_BUF
<1>1. KERNEL_BUF - Len(outq) \in Nat /\ Len(q) \in Nat
  BY SizesAssumption
<1>2. CASE farEnd = "failed"
  BY <1>1, <1>2 DEF Writable
<1>3. CASE farEnd # "failed"
  <2>1. w \in Moves(Min({Len(q), KERNEL_BUF - Len(outq)}))
    BY <1>3 DEF Writable
  <2>2. w \in Nat /\ w <= Len(q) /\ w <= KERNEL_BUF - Len(outq)
    BY <1>1, <2>1, MovesWithin
  <2> QED
    BY <2>2, SizesAssumption
<1> QED
  BY <1>2, <1>3

\* Both, for sequences of bytes.
LEMMA SplitBytes ==
  \A a, q \in Seq(Byte) : \A k \in 0 .. Len(q) :
    /\ SubSeq(q, 1, k) \in Seq(Byte) /\ Len(SubSeq(q, 1, k)) = k
    /\ SubSeq(q, k + 1, Len(q)) \in Seq(Byte) /\ Len(SubSeq(q, k + 1, Len(q))) = Len(q) - k
    /\ (a \o SubSeq(q, 1, k)) \o SubSeq(q, k + 1, Len(q)) = a \o q
<1> TAKE a, q \in Seq(Byte)
<1> TAKE k \in 0 .. Len(q)
<1>1. /\ SubSeq(q, 1, k) \in Seq(Byte) /\ Len(SubSeq(q, 1, k)) = k
      /\ SubSeq(q, k + 1, Len(q)) \in Seq(Byte) /\ Len(SubSeq(q, k + 1, Len(q))) = Len(q) - k
  BY SplitAt, Zenon
<1>2. (a \o SubSeq(q, 1, k)) \o SubSeq(q, k + 1, Len(q)) = a \o q
  BY MoveOver, Zenon
<1> QED
  BY <1>1, <1>2, Zenon

LEMMA Reassociate ==
  \A a, b, c \in Seq(Byte) : (a \o b) \o c = a \o (b \o c)
BY ConcatAssociative

LEMMA Joined ==
  \A a, b \in Seq(Byte) : a \o b \in Seq(Byte) /\ Len(a \o b) = Len(a) + Len(b)
BY ConcatProperties

-----------------------------------------------------------------------------
(* The steps of the peers.                                                 *)

\* The peers keep the types and the bytes.
LEMMA PeersConserve ==
  ASSUME Types, Conserved, NsStep \/ FarStep, UNCHANGED contextVars
  PROVE  Types' /\ Conserved'
<1> USE DEF socketVars, streamVars, contextVars, outboundVars, publishedVars
<1>1. CASE NsSends
  <2>1. nsSent + 1 \in Byte /\ nsSent' \in 0 .. MaxBytes
    BY <1>1, SizesAssumption DEF NsSends, Types, Byte
  <2>2. rx' \in Seq(Byte) /\ Len(rx') = Len(rx) + 1 /\ Len(rx') <= TCP_BUF_SIZE
    BY <1>1, <2>1, SizesAssumption DEF NsSends, Types
  <2>3. Types'
    BY <1>1, <2>1, <2>2, Zenon DEF NsSends, Types
  <2>4. farGot \o outq \in Seq(Byte)
    BY Joined DEF Types
  <2>5. farGot \o outq \o Append(rx, nsSent + 1) = Bytes(nsSent + 1)
    <3>1. /\ rx \in Seq(Byte) /\ nsSent \in 0 .. MaxBytes /\ nsSent < MaxBytes
          /\ farGot \o outq \o rx = Bytes(nsSent)
      BY <1>1, Zenon DEF NsSends, Types, Conserved
    <3> QED
      BY <2>4, <3>1, OneMore, Zenon
  <2> QED
    BY <1>1, <2>3, <2>5, Zenon DEF NsSends, Conserved
<1>2. CASE NsHalfCloses
  BY <1>2, Zenon DEF NsHalfCloses, Types, Conserved
<1>3. CASE NsResets
  BY <1>3, Zenon DEF NsResets, Types, Conserved
<1>4. CASE NsReceives
  <2>1. PICK k \in 1 .. Len(tx) : /\ nsGot' = nsGot \o SubSeq(tx, 1, k)
                                  /\ tx' = SubSeq(tx, k + 1, Len(tx))
    BY <1>4, Zenon DEF NsReceives
  <2>2. k \in 0 .. Len(tx)
    BY DEF Types
  <2>3. /\ SubSeq(tx, 1, k) \in Seq(Byte) /\ tx' \in Seq(Byte) /\ Len(tx') = Len(tx) - k
        /\ nsGot' \o tx' = nsGot \o tx
    <3>1. nsGot \in Seq(Byte) /\ tx \in Seq(Byte)
      BY DEF Types
    <3>2. /\ SubSeq(tx, 1, k) \in Seq(Byte)
          /\ SubSeq(tx, k + 1, Len(tx)) \in Seq(Byte)
          /\ Len(SubSeq(tx, k + 1, Len(tx))) = Len(tx) - k
          /\ (nsGot \o SubSeq(tx, 1, k)) \o SubSeq(tx, k + 1, Len(tx)) = nsGot \o tx
      BY <2>2, <3>1, SplitBytes, Zenon
    <3> QED
      BY <2>1, <3>2, Zenon
  <2>4. nsGot' \in Seq(Byte) /\ Len(tx') <= TCP_BUF_SIZE
    BY <2>1, <2>2, <2>3, Joined, SizesAssumption DEF Types
  <2> QED
    BY <1>4, <2>3, <2>4, ZenonT(40) DEF NsReceives, Types, Conserved
<1>5. CASE FarSends
  <2>1. farSent + 1 \in Byte /\ farSent' \in 0 .. MaxBytes
    BY <1>5, SizesAssumption DEF FarSends, Types, Byte
  <2>2. inq' \in Seq(Byte) /\ Len(inq') = Len(inq) + 1 /\ Len(inq') <= KERNEL_BUF
    BY <1>5, <2>1, SizesAssumption DEF FarSends, Types
  <2>3. Types'
    BY <1>5, <2>1, <2>2 DEF FarSends, Types
  <2>4. /\ nsGot \o tx \o proxy_to_app \o buffered \in Seq(Byte)
        /\ nsGot \o tx \o host_to_namespace \in Seq(Byte)
    BY Joined DEF Types
  <2>5. kind = "outbound" =>
          nsGot \o tx \o proxy_to_app \o buffered \o Append(inq, farSent + 1) = Bytes(farSent + 1)
    <3> SUFFICES ASSUME kind = "outbound"
                 PROVE  nsGot \o tx \o proxy_to_app \o buffered \o Append(inq, farSent + 1)
                          = Bytes(farSent + 1)
      BY Zenon
    <3>1. /\ inq \in Seq(Byte) /\ farSent \in 0 .. MaxBytes /\ farSent < MaxBytes
          /\ nsGot \o tx \o proxy_to_app \o buffered \o inq = Bytes(farSent)
      BY <1>5, Zenon DEF FarSends, Types, Conserved
    <3> QED
      BY <2>4, <3>1, OneMore, Zenon
  <2>6. kind = "published" =>
          nsGot \o tx \o host_to_namespace \o Append(inq, farSent + 1) = Bytes(farSent + 1)
    <3> SUFFICES ASSUME kind = "published"
                 PROVE  nsGot \o tx \o host_to_namespace \o Append(inq, farSent + 1)
                          = Bytes(farSent + 1)
      BY Zenon
    <3>1. /\ inq \in Seq(Byte) /\ farSent \in 0 .. MaxBytes /\ farSent < MaxBytes
          /\ nsGot \o tx \o host_to_namespace \o inq = Bytes(farSent)
      BY <1>5, Zenon DEF FarSends, Types, Conserved
    <3> QED
      BY <2>4, <3>1, OneMore, Zenon
  <2> QED
    BY <1>5, <2>3, <2>5, <2>6, Zenon DEF FarSends, Conserved
<1>6. CASE FarEnds
  BY <1>6 DEF FarEnds, Types, Conserved
<1>7. CASE FarReceives
  <2>1. PICK k \in 1 .. Len(outq) : /\ farGot' = farGot \o SubSeq(outq, 1, k)
                                    /\ outq' = SubSeq(outq, k + 1, Len(outq))
    BY <1>7, Zenon DEF FarReceives
  <2>2. k \in 0 .. Len(outq)
    BY DEF Types
  <2>3. /\ SubSeq(outq, 1, k) \in Seq(Byte) /\ outq' \in Seq(Byte) /\ Len(outq') = Len(outq) - k
        /\ farGot' \o outq' = farGot \o outq
    <3>1. farGot \in Seq(Byte) /\ outq \in Seq(Byte)
      BY DEF Types
    <3>2. /\ SubSeq(outq, 1, k) \in Seq(Byte)
          /\ SubSeq(outq, k + 1, Len(outq)) \in Seq(Byte)
          /\ Len(SubSeq(outq, k + 1, Len(outq))) = Len(outq) - k
          /\ (farGot \o SubSeq(outq, 1, k)) \o SubSeq(outq, k + 1, Len(outq)) = farGot \o outq
      BY <2>2, <3>1, SplitBytes, Zenon
    <3> QED
      BY <2>1, <3>2, Zenon
  <2>4. farGot' \in Seq(Byte) /\ Len(outq') <= KERNEL_BUF
    BY <2>1, <2>2, <2>3, Joined, SizesAssumption DEF Types
  <2> QED
    BY <1>7, <2>3, <2>4, ZenonT(40) DEF FarReceives, Types, Conserved
<1> QED
  BY <1>1, <1>2, <1>3, <1>4, <1>5, <1>6, <1>7 DEF NsStep, FarStep

\* The peers keep the order of the ends: once the program has closed the socket,
\* the ns peer does nothing more, and an end of the far peer is final.
LEMMA PeersKeepEnds ==
  ASSUME Types, EndsInOrder, NsStep \/ FarStep, UNCHANGED contextVars
  PROVE  EndsInOrder'
<1> USE DEF socketVars, streamVars, contextVars, outboundVars, publishedVars
<1>1. SocketFollows'
  BY Zenon DEF NsStep, FarStep, NsSends, NsHalfCloses, NsResets, NsReceives, FarSends, FarEnds,
     FarReceives, EndsInOrder, SocketFollows, MaySend, Types
<1>2. entry = "Closing" => UNCHANGED <<nsEnd, tx, rx>>
  BY Zenon DEF NsStep, FarStep, NsSends, NsHalfCloses, NsResets, NsReceives, FarSends, FarEnds,
     FarReceives, EndsInOrder, SocketFollows, MaySend
<1>3. farEnd # "open" => farEnd' # "open" /\ UNCHANGED inq
  BY Zenon DEF NsStep, FarStep, NsSends, NsHalfCloses, NsResets, NsReceives, FarSends, FarEnds,
     FarReceives
<1>4. (farEnd = "failed" => farEnd' = "failed") /\ (nsEnd # "open" => nsEnd' # "open")
  BY Zenon DEF NsStep, FarStep, NsSends, NsHalfCloses, NsResets, NsReceives, FarSends, FarEnds,
     FarReceives
<1>5. (farEnd' = "eof" => farEnd \in {"open", "eof"}) /\ (farEnd' = "open" => farEnd = "open")
  BY <1>3, <1>4, Zenon DEF Types
<1>6. UNCHANGED <<kind, entry, buffered, proxy_to_app, proxy_read_state, host_to_namespace,
                  close_after_drain>>
  OBVIOUS
<1>7. IsOutbound(OutboundEnds)'
  BY <1>2, <1>3, <1>4, <1>5, <1>6 DEF EndsInOrder, IsOutbound, OutboundEnds
<1>8. IsPublished(PublishedEnds)'
  BY <1>2, <1>3, <1>4, <1>5, <1>6 DEF EndsInOrder, IsPublished, PublishedEnds, Types
<1> QED
  BY <1>1, <1>7, <1>8 DEF EndsInOrder

-----------------------------------------------------------------------------
(* One pass over an outbound connection.                                   *)

LEMMA OutboundBounds ==
  ASSUME Types, NEW w \in Outbound!Writable(rx), NEW r \in Outbound!Readable
  PROVE  /\ w \in 0 .. Len(rx) /\ Len(outq) + w <= KERNEL_BUF
         /\ r \in 0 .. Len(Outbound!Source) /\ Len(proxy_to_app) + r <= TCP_BUF_SIZE
         /\ Outbound!Source \in Seq(Byte)
         /\ ~Outbound!Reading => r = 0
<1>1. w \in Writable(rx)
  BY DEF Outbound!Writable, Writable, Outbound!Moves, Moves, Outbound!Min, Min
<1>2. Outbound!Source \in Seq(Byte)
  BY Zenon DEF Outbound!Source, Types
<1>3. CASE Outbound!Reading
  <2> DEFINE a == TCP_BUF_SIZE - Len(proxy_to_app)
             b == Len(Outbound!Source)
  <2>1. a \in Nat /\ b \in Nat
    BY <1>2, SizesAssumption DEF Types
  <2>2. r \in Moves(Min({a, b}))
    BY <1>3 DEF Outbound!Readable, Outbound!Moves, Moves, Outbound!Min, Min
  <2>3. r \in Nat /\ r <= a /\ r <= b
    BY <2>1, <2>2, MovesWithin, Zenon
  <2> QED
    BY <1>1, <1>2, <1>3, <2>1, <2>3, WritableWithin, SizesAssumption DEF Types
<1>4. CASE ~Outbound!Reading
  <2>1. r = 0
    BY <1>4 DEF Outbound!Readable
  <2> QED
    BY <1>1, <1>2, <2>1, WritableWithin, SizesAssumption DEF Types
<1> QED
  BY <1>3, <1>4

\* w bytes of rx are written to the stream.
LEMMA Written ==
  ASSUME Types, NEW w \in 0 .. Len(rx), Len(outq) + w <= KERNEL_BUF,
         outq' = outq \o SubSeq(rx, 1, w), rx' = SubSeq(rx, w + 1, Len(rx))
  PROVE  /\ rx' \in Seq(Byte) /\ Len(rx') <= TCP_BUF_SIZE
         /\ outq' \in Seq(Byte) /\ Len(outq') <= KERNEL_BUF
         /\ farGot \o outq' \o rx' = farGot \o outq \o rx
<1> DEFINE a == SubSeq(rx, 1, w)
           b == SubSeq(rx, w + 1, Len(rx))
<1>0. rx \in Seq(Byte) /\ outq \in Seq(Byte) /\ farGot \in Seq(Byte) /\ Len(rx) <= TCP_BUF_SIZE
  BY Zenon DEF Types
<1>1. /\ a \in Seq(Byte) /\ Len(a) = w /\ b \in Seq(Byte) /\ Len(b) = Len(rx) - w
      /\ (outq \o a) \o b = outq \o rx
  BY <1>0, SplitBytes, Zenon
<1>2. outq' = outq \o a /\ rx' = b
  OBVIOUS
<1> HIDE DEF a, b
<1>3. outq \o a \in Seq(Byte) /\ Len(outq \o a) = Len(outq) + w
  BY <1>0, <1>1, Joined, Zenon
<1>4. (farGot \o (outq \o a)) \o b = farGot \o ((outq \o a) \o b)
  BY <1>0, <1>1, <1>3, Reassociate, ZenonT(40)
<1>5. (farGot \o outq) \o rx = farGot \o (outq \o rx)
  BY <1>0, Reassociate, Zenon
<1>6. Len(b) <= TCP_BUF_SIZE
  BY <1>0, <1>1, SizesAssumption
<1> QED
  BY <1>1, <1>2, <1>3, <1>4, <1>5, <1>6, Zenon

\* n of the bytes that were read go to the socket, the others wait.
LEMMA Sent ==
  ASSUME Types, NEW read \in Seq(Byte), Len(read) <= TCP_BUF_SIZE,
         NEW n \in 0 .. Len(read), Len(tx) + n <= TCP_BUF_SIZE,
         tx' = tx \o SubSeq(read, 1, n), NEW left, left = SubSeq(read, n + 1, Len(read))
  PROVE  /\ tx' \in Seq(Byte) /\ Len(tx') <= TCP_BUF_SIZE
         /\ left \in Seq(Byte) /\ Len(left) <= TCP_BUF_SIZE
         /\ nsGot \o tx' \o left = nsGot \o tx \o read
<1> DEFINE a == SubSeq(read, 1, n)
           b == SubSeq(read, n + 1, Len(read))
<1>0. tx \in Seq(Byte) /\ nsGot \in Seq(Byte)
  BY Zenon DEF Types
<1>1. /\ a \in Seq(Byte) /\ Len(a) = n /\ b \in Seq(Byte) /\ Len(b) = Len(read) - n
      /\ (tx \o a) \o b = tx \o read
  BY <1>0, SplitBytes, Zenon
<1>2. tx' = tx \o a /\ left = b
  OBVIOUS
<1> HIDE DEF a, b
<1>3. tx \o a \in Seq(Byte) /\ Len(tx \o a) = Len(tx) + n
  BY <1>0, <1>1, Joined, Zenon
<1>4. (nsGot \o (tx \o a)) \o b = nsGot \o ((tx \o a) \o b)
  BY <1>0, <1>1, <1>3, Reassociate, ZenonT(40)
<1>5. (nsGot \o tx) \o read = nsGot \o (tx \o read)
  BY <1>0, Reassociate, Zenon
<1>6. Len(b) <= TCP_BUF_SIZE
  BY <1>1, SizesAssumption
<1> QED
  BY <1>1, <1>2, <1>3, <1>4, <1>5, <1>6, Zenon

\* A pass, with the bytes of both directions.
LEMMA OutboundPass ==
  ASSUME Types, Outbound!Shuttle
  PROVE  /\ rx' \in Seq(Byte) /\ Len(rx') <= TCP_BUF_SIZE
         /\ outq' \in Seq(Byte) /\ Len(outq') <= KERNEL_BUF
         /\ farGot \o outq' \o rx' = farGot \o outq \o rx
         /\ tx' \in Seq(Byte) /\ Len(tx') <= TCP_BUF_SIZE
         /\ proxy_to_app' \in Seq(Byte) /\ Len(proxy_to_app') <= TCP_BUF_SIZE
         /\ buffered' \in Seq(Byte) /\ inq' \in Seq(Byte) /\ Len(inq') <= KERNEL_BUF
         /\ nsGot \o tx' \o proxy_to_app' \o buffered' \o inq'
              = nsGot \o tx \o proxy_to_app \o buffered \o inq
         /\ (buffered = <<>> /\ inq = <<>>) => (buffered' = <<>> /\ inq' = <<>>)
<1> DEFINE src == Outbound!Source
<1>1. PICK w \in Outbound!Writable(rx), r \in Outbound!Readable :
        LET read == proxy_to_app \o SubSeq(src, 1, r)
            n == IF MaySend(Outbound!AfterIO) THEN Min({TCP_BUF_SIZE - Len(tx), Len(read)}) ELSE 0
        IN  /\ outq' = outq \o SubSeq(rx, 1, w) /\ rx' = SubSeq(rx, w + 1, Len(rx))
            /\ buffered' = IF src = buffered THEN SubSeq(buffered, r + 1, Len(buffered))
                           ELSE buffered
            /\ inq' = IF src = buffered THEN inq ELSE SubSeq(inq, r + 1, Len(inq))
            /\ tx' = tx \o SubSeq(read, 1, n)
            /\ proxy_to_app' = SubSeq(read, n + 1, Len(read))
  BY Zenon DEF Outbound!Shuttle, Outbound!MaySend, MaySend, Outbound!Min, Min
<1>2. /\ w \in 0 .. Len(rx) /\ Len(outq) + w <= KERNEL_BUF
      /\ r \in 0 .. Len(src) /\ Len(proxy_to_app) + r <= TCP_BUF_SIZE /\ src \in Seq(Byte)
  BY OutboundBounds
<1>3. /\ rx' \in Seq(Byte) /\ Len(rx') <= TCP_BUF_SIZE
      /\ outq' \in Seq(Byte) /\ Len(outq') <= KERNEL_BUF
      /\ farGot \o outq' \o rx' = farGot \o outq \o rx
  BY <1>1, <1>2, Written, Zenon
<1> DEFINE read == proxy_to_app \o SubSeq(src, 1, r)
           n == IF MaySend(Outbound!AfterIO) THEN Min({TCP_BUF_SIZE - Len(tx), Len(read)}) ELSE 0
           head == SubSeq(src, 1, r)
           rest == SubSeq(src, r + 1, Len(src))
<1>4. /\ tx' = tx \o SubSeq(read, 1, n) /\ proxy_to_app' = SubSeq(read, n + 1, Len(read))
  BY <1>1, Zenon
<1>5. /\ tx \in Seq(Byte) /\ Len(tx) <= TCP_BUF_SIZE /\ nsGot \in Seq(Byte)
      /\ proxy_to_app \in Seq(Byte) /\ buffered \in Seq(Byte) /\ inq \in Seq(Byte)
      /\ Len(inq) <= KERNEL_BUF
  BY DEF Types
<1>6. /\ head \in Seq(Byte) /\ Len(head) = r /\ rest \in Seq(Byte) /\ Len(rest) = Len(src) - r
      /\ (proxy_to_app \o head) \o rest = proxy_to_app \o src
  BY <1>2, <1>5, SplitBytes, Zenon
<1>7. read = proxy_to_app \o head
  OBVIOUS
<1>8. \/ src = buffered /\ buffered' = rest /\ inq' = inq
      \/ src = inq /\ buffered = <<>> /\ buffered' = <<>> /\ inq' = rest
  BY <1>1, Zenon DEF Outbound!Source
<1> HIDE DEF n, read, head, rest, src
<1>9. read \in Seq(Byte) /\ Len(read) = Len(proxy_to_app) + r /\ Len(read) <= TCP_BUF_SIZE
  BY <1>2, <1>5, <1>6, <1>7, Joined, Zenon
<1>10. n \in 0 .. Len(read) /\ Len(tx) + n <= TCP_BUF_SIZE
  <2>1. TCP_BUF_SIZE - Len(tx) \in Nat /\ Len(read) \in Nat
    BY <1>5, <1>9, SizesAssumption
  <2>2. n = 0 \/ n = Min({TCP_BUF_SIZE - Len(tx), Len(read)})
    BY DEF n
  <2>3. n \in Nat /\ n <= TCP_BUF_SIZE - Len(tx) /\ n <= Len(read)
    BY <2>1, <2>2, MinOfTwo
  <2> QED
    BY <1>5, <2>1, <2>3, SizesAssumption
<1>11. /\ tx' \in Seq(Byte) /\ Len(tx') <= TCP_BUF_SIZE
       /\ proxy_to_app' \in Seq(Byte) /\ Len(proxy_to_app') <= TCP_BUF_SIZE
       /\ nsGot \o tx' \o proxy_to_app' = nsGot \o tx \o read
  BY <1>4, <1>9, <1>10, Sent, Zenon
<1>12. /\ buffered' \in Seq(Byte) /\ inq' \in Seq(Byte) /\ Len(inq') <= KERNEL_BUF
  BY <1>2, <1>5, <1>6, <1>8, SizesAssumption
<1> DEFINE a == nsGot \o tx
<1>13. a \in Seq(Byte)
  BY <1>5, Joined
<1> HIDE DEF a
<1>14. a \o read \o buffered' \o inq' = a \o proxy_to_app \o buffered \o inq
  <2>1. CASE src = buffered /\ buffered' = rest /\ inq' = inq
    <3>1. (a \o read) \o rest = a \o (read \o rest)
      BY <1>6, <1>9, <1>13, Reassociate, Zenon
    <3>2. (a \o proxy_to_app) \o src = a \o (proxy_to_app \o src)
      BY <1>2, <1>5, <1>13, Reassociate, ZenonT(40)
    <3> QED
      BY <1>6, <1>7, <2>1, <3>1, <3>2, Zenon
  <2>2. CASE src = inq /\ buffered = <<>> /\ buffered' = <<>> /\ inq' = rest
    <3>1. a \o read \in Seq(Byte) /\ a \o proxy_to_app \in Seq(Byte)
      BY <1>5, <1>9, <1>13, Joined
    <3>2. a \o read \o <<>> = a \o read /\ a \o proxy_to_app \o <<>> = a \o proxy_to_app
      BY <3>1, ConcatEmptySeq, Zenon
    <3>3. (a \o read) \o rest = a \o (read \o rest)
      BY <1>6, <1>9, <1>13, Reassociate, Zenon
    <3>4. (a \o proxy_to_app) \o src = a \o (proxy_to_app \o src)
      BY <1>2, <1>5, <1>13, Reassociate, ZenonT(40)
    <3> QED
      BY <1>6, <1>7, <2>2, <3>2, <3>3, <3>4, Zenon
  <2> QED
    BY <1>8, <2>1, <2>2, Zenon
<1>15. nsGot \o tx' \o proxy_to_app' \o buffered' \o inq'
         = nsGot \o tx \o proxy_to_app \o buffered \o inq
  BY <1>11, <1>14, Zenon DEF a
<1>16. (buffered = <<>> /\ inq = <<>>) => (buffered' = <<>> /\ inq' = <<>>)
  <2>1. (Len(src) = 0) => Len(rest) = 0
    <3>1. r \in Nat /\ r <= Len(src)
      BY <1>2
    <3> QED
      BY <1>6, <3>1
  <2> QED
    BY <1>2, <1>5, <1>6, <1>8, <2>1
<1> QED
  BY <1>3, <1>11, <1>12, <1>15, <1>16, Zenon

\* The control of a pass: when the EOF is noticed, and why a connection ends.
LEMMA OutboundControl ==
  ASSUME Types, Outbound!Shuttle
  PROVE  /\ entry = "Established" /\ UNCHANGED peerVars
         /\ proxy_read_state' \in {"Open", "Eof", "Failed"}
         /\ proxy_read_state' = "Eof" =>
              proxy_read_state = "Eof" \/ (farEnd = "eof" /\ buffered = <<>> /\ inq = <<>>)
         /\ \/ entry' = "Established" /\ state' = state
            \/ /\ entry' = "Closing" /\ state' = "Closed"
               /\ \/ farEnd = "failed"
                  \/ proxy_read_state' = "Eof" /\ proxy_to_app' = <<>> /\ tx' = <<>>
                  \/ state \notin {"Established", "CloseWait"}
                  \/ state # "Established" /\ rx' = <<>>
<1> DEFINE drained == Outbound!DrainedAfterEof(proxy_read_state', proxy_to_app', tx')
           st == IF drained THEN "Closed" ELSE Outbound!AfterIO
<1>1. /\ entry = "Established" /\ UNCHANGED peerVars
      /\ proxy_read_state' = IF Outbound!ReadFails THEN "Failed"
                             ELSE IF Outbound!ReadsEof THEN "Eof" ELSE proxy_read_state
      /\ state' = IF Outbound!Ends(st, rx') THEN "Closed" ELSE st
      /\ entry' = IF Outbound!Ends(st, rx') THEN "Closing" ELSE entry
  BY Zenon DEF Outbound!Shuttle, Outbound!peerVars, peerVars
<1>2. /\ Outbound!ReadFails => farEnd = "failed"
      /\ Outbound!WriteFails(rx) => farEnd = "failed"
      /\ Outbound!ReadsEof => farEnd = "eof" /\ buffered = <<>> /\ inq = <<>>
  BY DEF Outbound!ReadFails, Outbound!WriteFails, Outbound!ReadsEof, Outbound!Source
<1>3. drained => proxy_read_state' = "Eof" /\ proxy_to_app' = <<>> /\ tx' = <<>>
  BY DEF Outbound!DrainedAfterEof
<1>4. Outbound!AfterIO = state \/ (Outbound!AfterIO = "Closed" /\ farEnd = "failed")
  BY <1>2 DEF Outbound!AfterIO
<1> HIDE DEF drained
<1>5. Outbound!Ends(st, rx') <=>
        st \notin {"Established", "CloseWait"} \/ (st # "Established" /\ rx' = <<>>)
  BY DEF Outbound!Ends, Outbound!MaySend, Outbound!MayRecv
<1>6. st = state \/ (st = "Closed" /\ (drained \/ farEnd = "failed"))
  BY <1>4
<1> HIDE DEF st
<1>7. CASE Outbound!Ends(st, rx')
  BY <1>1, <1>2, <1>3, <1>5, <1>6, <1>7 DEF Types
<1>8. CASE ~Outbound!Ends(st, rx')
  BY <1>1, <1>2, <1>5, <1>6, <1>8 DEF Types
<1> QED
  BY <1>7, <1>8

\* A pass over an outbound connection keeps the invariant.
LEMMA OutboundStep ==
  ASSUME IInv, kind = "outbound", Outbound!Shuttle, UNCHANGED <<kind, publishedVars>>
  PROVE  IInv'
<1> USE DEF IInv
<1>1. Types'
  BY OutboundPass, OutboundControl, Zenon DEF Types, peerVars, publishedVars
<1>2. Conserved'
  BY OutboundPass, OutboundControl, Zenon DEF Conserved, peerVars
<1>3. SocketFollows'
  BY OutboundControl DEF EndsInOrder, SocketFollows, peerVars
<1>4. proxy_read_state' = "Eof" => farEnd' # "open" /\ buffered' = <<>> /\ inq' = <<>>
  BY OutboundPass, OutboundControl, Zenon DEF EndsInOrder, IsOutbound, OutboundEnds, peerVars
<1>5. (entry' = "Closing" /\ nsEnd' = "open") =>
        /\ farEnd' # "open"
        /\ farEnd' = "eof" => tx' = <<>> /\ proxy_to_app' = <<>> /\ buffered' = <<>> /\ inq' = <<>>
  BY <1>4, OutboundControl DEF EndsInOrder, SocketFollows, peerVars
<1>6. (entry' = "Closing" /\ nsEnd' = "half" /\ farEnd' = "open") => rx' = <<>>
  BY <1>4, OutboundControl DEF EndsInOrder, SocketFollows, peerVars
<1>7. EndsInOrder'
  BY <1>3, <1>4, <1>5, <1>6 DEF EndsInOrder, IsOutbound, IsPublished, OutboundEnds
<1> QED
  BY <1>1, <1>2, <1>7

-----------------------------------------------------------------------------
(* One pass over a published connection.                                   *)

LEMMA PublishedBounds ==
  ASSUME Types, NEW w \in Published!Writable(rx), NEW r \in Published!Readable
  PROVE  /\ w \in 0 .. Len(rx) /\ Len(outq) + w <= KERNEL_BUF
         /\ r \in 0 .. Len(inq) /\ Len(host_to_namespace) + r <= TCP_BUF_SIZE
<1>1. w \in Writable(rx)
  BY DEF Published!Writable, Writable, Published!Moves, Moves, Published!Min, Min
<1>2. CASE Published!Reading
  <2> DEFINE a == TCP_BUF_SIZE - Len(host_to_namespace)
             b == Len(inq)
  <2>1. a \in Nat /\ b \in Nat
    BY SizesAssumption DEF Types
  <2>2. r \in Moves(Min({a, b}))
    BY <1>2 DEF Published!Readable, Published!Moves, Moves, Published!Min, Min
  <2>3. r \in Nat /\ r <= a /\ r <= b
    BY <2>1, <2>2, MovesWithin, Zenon
  <2> QED
    BY <1>1, <2>1, <2>3, WritableWithin, SizesAssumption DEF Types
<1>3. CASE ~Published!Reading
  <2>1. r = 0
    BY <1>3 DEF Published!Readable
  <2> QED
    BY <1>1, <2>1, WritableWithin, SizesAssumption DEF Types
<1> QED
  BY <1>2, <1>3

\* A pass, with the bytes of both directions.
LEMMA PublishedPass ==
  ASSUME Types, Published!Shuttle
  PROVE  /\ rx' \in Seq(Byte) /\ Len(rx') <= TCP_BUF_SIZE
         /\ outq' \in Seq(Byte) /\ Len(outq') <= KERNEL_BUF
         /\ farGot \o outq' \o rx' = farGot \o outq \o rx
         /\ tx' \in Seq(Byte) /\ Len(tx') <= TCP_BUF_SIZE
         /\ host_to_namespace' \in Seq(Byte) /\ Len(host_to_namespace') <= TCP_BUF_SIZE
         /\ inq' \in Seq(Byte) /\ Len(inq') <= KERNEL_BUF
         /\ nsGot \o tx' \o host_to_namespace' \o inq' = nsGot \o tx \o host_to_namespace \o inq
         /\ inq = <<>> => inq' = <<>>
<1>1. PICK r \in Published!Readable, w \in Published!Writable(rx) :
        LET read == host_to_namespace \o SubSeq(inq, 1, r)
            n == Published!Sendable(read)
        IN  /\ outq' = outq \o SubSeq(rx, 1, w) /\ rx' = SubSeq(rx, w + 1, Len(rx))
            /\ inq' = SubSeq(inq, r + 1, Len(inq))
            /\ tx' = tx \o SubSeq(read, 1, n)
            /\ host_to_namespace' = SubSeq(read, n + 1, Len(read))
  BY Zenon DEF Published!Shuttle, Published!Unsent
<1>2. /\ w \in 0 .. Len(rx) /\ Len(outq) + w <= KERNEL_BUF
      /\ r \in 0 .. Len(inq) /\ Len(host_to_namespace) + r <= TCP_BUF_SIZE
  BY PublishedBounds
<1>3. /\ rx' \in Seq(Byte) /\ Len(rx') <= TCP_BUF_SIZE
      /\ outq' \in Seq(Byte) /\ Len(outq') <= KERNEL_BUF
      /\ farGot \o outq' \o rx' = farGot \o outq \o rx
  BY <1>1, <1>2, Written, Zenon
<1> DEFINE head == SubSeq(inq, 1, r)
           read == host_to_namespace \o head
           n == Published!Sendable(read)
           rest == SubSeq(inq, r + 1, Len(inq))
<1>4. /\ tx' = tx \o SubSeq(read, 1, n) /\ host_to_namespace' = SubSeq(read, n + 1, Len(read))
      /\ inq' = rest
  BY <1>1, Zenon
<1>5. /\ tx \in Seq(Byte) /\ Len(tx) <= TCP_BUF_SIZE /\ nsGot \in Seq(Byte)
      /\ host_to_namespace \in Seq(Byte) /\ inq \in Seq(Byte) /\ Len(inq) <= KERNEL_BUF
  BY DEF Types
<1>6. /\ head \in Seq(Byte) /\ Len(head) = r /\ rest \in Seq(Byte) /\ Len(rest) = Len(inq) - r
      /\ read \o rest = host_to_namespace \o inq
  BY <1>2, <1>5, SplitBytes, Zenon
<1> HIDE DEF head, rest
<1>7. read \in Seq(Byte) /\ Len(read) = Len(host_to_namespace) + r /\ Len(read) <= TCP_BUF_SIZE
  BY <1>2, <1>5, <1>6, Joined, Zenon
<1> HIDE DEF read
<1>8. n \in 0 .. Len(read) /\ Len(tx) + n <= TCP_BUF_SIZE
  <2>1. TCP_BUF_SIZE - Len(tx) \in Nat /\ Len(read) \in Nat
    BY <1>5, <1>7, SizesAssumption
  <2>2. n = 0 \/ n = Min({TCP_BUF_SIZE - Len(tx), Len(read)})
    BY DEF Published!Sendable, Published!Min, Min
  <2>3. n \in Nat /\ n <= TCP_BUF_SIZE - Len(tx) /\ n <= Len(read)
    BY <2>1, <2>2, MinOfTwo
  <2> QED
    BY <1>5, <2>1, <2>3, SizesAssumption
<1> HIDE DEF n
<1>9. /\ tx' \in Seq(Byte) /\ Len(tx') <= TCP_BUF_SIZE
      /\ host_to_namespace' \in Seq(Byte) /\ Len(host_to_namespace') <= TCP_BUF_SIZE
      /\ nsGot \o tx' \o host_to_namespace' = nsGot \o tx \o read
  BY <1>4, <1>7, <1>8, Sent, Zenon
<1>10. inq' \in Seq(Byte) /\ Len(inq') <= KERNEL_BUF /\ (inq = <<>> => inq' = <<>>)
  <2>1. r \in Nat /\ r <= Len(inq)
    BY <1>2
  <2> QED
    BY <1>4, <1>5, <1>6, <2>1, SizesAssumption
<1> DEFINE a == nsGot \o tx
<1>11. a \in Seq(Byte)
  BY <1>5, Joined
<1> HIDE DEF a
<1>12. (a \o read) \o rest = a \o (read \o rest)
  BY <1>6, <1>7, <1>11, Reassociate, Zenon
<1>13. (a \o host_to_namespace) \o inq = a \o (host_to_namespace \o inq)
  BY <1>5, <1>11, Reassociate, Zenon
<1>14. nsGot \o tx' \o host_to_namespace' \o inq' = nsGot \o tx \o host_to_namespace \o inq
  BY <1>4, <1>6, <1>9, <1>12, <1>13, Zenon DEF a
<1> QED
  BY <1>3, <1>9, <1>10, <1>14, Zenon

\* The control of a pass: what close_after_drain stands for, and why a
\* connection ends.
LEMMA PublishedControl ==
  ASSUME Types, Published!Shuttle
  PROVE  /\ entry = "Established" /\ UNCHANGED peerVars /\ close_after_drain' \in BOOLEAN
         /\ close_after_drain' => \/ close_after_drain
                                  \/ farEnd = "eof" /\ inq = <<>>
                                  \/ state # "Established"
         /\ \/ entry' = "Established" /\ state' = state
            \/ /\ entry' = "Closing" /\ state' = "Closed"
               /\ \/ farEnd = "failed"
                  \/ state = "Closed"
                  \/ close_after_drain' /\ host_to_namespace' = <<>> /\ rx' = <<>> /\ tx' = <<>>
<1> DEFINE failed == Published!ReadFails \/ Published!WriteFails(rx)
           drained == close_after_drain' /\ Published!Drained(host_to_namespace', rx', tx')
           ends == failed \/ state = "Closed" \/ drained
<1>1. /\ entry = "Established" /\ UNCHANGED peerVars
      /\ close_after_drain' = (close_after_drain \/ Published!ReadsEof \/ Published!ServiceDone(rx'))
      /\ state' = IF ends THEN "Closed" ELSE state
      /\ entry' = IF ends THEN "Closing" ELSE entry
  BY Zenon DEF Published!Shuttle, Published!peerVars, peerVars
<1>2. failed => farEnd = "failed"
  BY DEF Published!ReadFails, Published!WriteFails
<1>3. drained => close_after_drain' /\ host_to_namespace' = <<>> /\ rx' = <<>> /\ tx' = <<>>
  BY DEF Published!Drained
<1>4. /\ Published!ReadsEof => farEnd = "eof" /\ inq = <<>>
      /\ Published!ServiceDone(rx') => state # "Established"
  BY DEF Published!ReadsEof, Published!ServiceDone, Published!MayRecv
<1>5. close_after_drain' \in BOOLEAN
  BY <1>1, Zenon DEF Types
<1> HIDE DEF failed, drained
<1>6. CASE ends
  BY <1>1, <1>2, <1>3, <1>4, <1>5, <1>6 DEF Types
<1>7. CASE ~ends
  BY <1>1, <1>4, <1>5, <1>7 DEF Types
<1> QED
  BY <1>6, <1>7

\* A pass over a published connection keeps the invariant.
LEMMA PublishedStep ==
  ASSUME IInv, kind = "published", Published!Shuttle, UNCHANGED <<kind, outboundVars>>
  PROVE  IInv'
<1> USE DEF IInv
<1>1. Types'
  BY PublishedPass, PublishedControl, Zenon DEF Types, peerVars, outboundVars
<1>2. Conserved'
  BY PublishedPass, PublishedControl, Zenon DEF Conserved, peerVars
<1>3. SocketFollows'
  BY PublishedControl DEF EndsInOrder, SocketFollows, peerVars
<1>4. (close_after_drain' /\ nsEnd' = "open") => farEnd' # "open" /\ inq' = <<>>
  BY PublishedPass, PublishedControl, Zenon
     DEF EndsInOrder, SocketFollows, IsPublished, PublishedEnds, peerVars
<1>5. (entry' = "Closing" /\ nsEnd' = "open") =>
        /\ farEnd' # "open"
        /\ farEnd' = "eof" => tx' = <<>> /\ host_to_namespace' = <<>> /\ inq' = <<>>
  BY <1>4, PublishedControl DEF EndsInOrder, SocketFollows, peerVars
<1>6. (entry' = "Closing" /\ nsEnd' # "reset" /\ farEnd' # "failed") =>
        rx' = <<>> /\ tx' = <<>> /\ host_to_namespace' = <<>>
  <2>1. nsEnd # "reset" => state # "Closed"
    BY PublishedControl DEF EndsInOrder, SocketFollows, Types
  <2> QED
    BY <2>1, PublishedControl DEF peerVars
<1>7. EndsInOrder'
  BY <1>3, <1>4, <1>5, <1>6 DEF EndsInOrder, IsOutbound, IsPublished, PublishedEnds
<1> QED
  BY <1>1, <1>2, <1>7

-----------------------------------------------------------------------------
(* The theorems.                                                           *)

LEMMA InitIInv == Init => IInv
<1> SUFFICES ASSUME Init PROVE IInv
  OBVIOUS
<1>1. /\ kind \in {"outbound", "published"} /\ host_to_namespace = <<>> /\ close_after_drain = FALSE
      /\ state = "Established" /\ rx = <<>> /\ tx = <<>> /\ inq = <<>> /\ outq = <<>>
      /\ nsSent = 0 /\ nsGot = <<>> /\ nsEnd = "open" /\ farGot = <<>> /\ farEnd = "open"
      /\ buffered = Bytes(farSent) /\ proxy_to_app = <<>>
      /\ entry = "Established" /\ proxy_read_state = "Open"
      /\ farSent \in 0 .. Min({MaxPrefetch, MaxBytes})
      /\ kind = "published" => farSent = 0
  BY DEF Init, Outbound!Init, Outbound!StreamsInit, Outbound!Bytes, Bytes, Outbound!Min, Min,
     Published!Init
<1>2. farSent \in 0 .. MaxBytes
  BY <1>1, MinOfTwo, SizesAssumption, PrefetchAssumption
<1>3. Bytes(farSent) \in Seq(Byte)
  <2>1. farSent \in Nat /\ \A i \in 1 .. farSent : i \in Byte
    BY <1>2, SizesAssumption DEF Byte
  <2> QED
    BY <2>1 DEF Bytes
<1>4. <<>> \in Seq(Byte) /\ Len(<<>>) = 0
  OBVIOUS
<1>5. Types
  <2>1. close_after_drain \in BOOLEAN
    BY <1>1, Zenon
  <2> QED
    BY <1>1, <1>2, <1>3, <1>4, <2>1, SizesAssumption DEF Types
<1>6. Bytes(0) = <<>>
  BY DEF Bytes
<1>7. \A q \in Seq(Byte) : <<>> \o q = q /\ q \o <<>> = q
  BY ConcatEmptySeq
<1>8. Conserved
  BY <1>1, <1>3, <1>4, <1>6, <1>7 DEF Conserved
<1>9. EndsInOrder
  BY <1>1 DEF EndsInOrder, SocketFollows, IsOutbound, IsPublished, OutboundEnds, PublishedEnds
<1> QED
  BY <1>5, <1>8, <1>9 DEF IInv

\* Every step keeps the invariant.
LEMMA NextIInv == IInv /\ [Next]_vars => IInv'
<1> SUFFICES ASSUME IInv, [Next]_vars PROVE IInv'
  OBVIOUS
<1>1. CASE (NsStep \/ FarStep) /\ UNCHANGED contextVars
  BY <1>1, PeersConserve, PeersKeepEnds DEF IInv
<1>2. CASE Shuttle
  BY <1>2, OutboundStep, PublishedStep DEF Shuttle
<1>3. CASE UNCHANGED vars
  BY <1>3, ZenonT(40) DEF vars, byteVars, socketVars, streamVars, peerVars, contextVars, outboundVars,
     publishedVars, IInv, Types, Conserved, EndsInOrder, SocketFollows, IsOutbound, IsPublished,
     OutboundEnds, PublishedEnds
<1> QED
  BY <1>1, <1>2, <1>3 DEF Next

LEMMA Invariance == Spec => []IInv
BY InitIInv, NextIInv, PTL DEF Spec

\* shuttle_established of either side loses, repeats and reorders no byte and
\* overfills no buffer, whatever the sizes of the buffers, the partial reads and
\* writes and the number of bytes.
THEOREM BytesAlwaysConserved == Spec => []BytesConserved
<1>1. IInv => BytesConserved
  <2> SUFFICES ASSUME IInv PROVE BytesConserved
    OBVIOUS
  <2>1. Outbound!TypeOK /\ Published!TypeOK
    BY Zenon DEF IInv, Types, Byte, Outbound!TypeOK, Published!TypeOK, Outbound!StreamTypeOK,
       Published!StreamTypeOK
  <2>2. IsOutbound(Outbound!BytesConserved) /\ IsPublished(Published!BytesConserved)
    BY DEF IInv, Conserved, IsOutbound, IsPublished, Outbound!BytesConserved,
       Published!BytesConserved, Outbound!Bytes, Published!Bytes, Bytes
  <2> QED
    BY <2>1, <2>2 DEF BytesConserved
<1> QED
  BY <1>1, Invariance, PTL

\* The pass of shuttle_established that ends a connection nobody has reset leaves
\* nothing behind that was to be passed on: what the peer that ended first had
\* sent, and of a published connection whatever had reached the program.
THEOREM AlwaysDeliveredBeforeEnd == Spec => []DeliveredBeforeEnd
<1>1. IInv => DeliveredBeforeEnd
  <2> SUFFICES ASSUME IInv PROVE DeliveredBeforeEnd
    OBVIOUS
  <2>1. /\ nsGot \in Seq(Byte) /\ farGot \in Seq(Byte) /\ outq \in Seq(Byte) /\ inq \in Seq(Byte)
        /\ kind \in {"outbound", "published"}
    BY DEF IInv, Types
  <2>2. \A q \in Seq(Byte) : q \o <<>> = q
    BY ConcatEmptySeq
  <2>3. farGot \o outq \in Seq(Byte) /\ nsGot \o inq \in Seq(Byte)
    BY <2>1, Joined
  <2>4. rx = <<>> => farGot \o outq = Bytes(nsSent)
    BY <2>2, <2>3 DEF IInv, Conserved
  <2>5. kind = "outbound" => Outbound!UpstreamDelivered /\ Outbound!ClientDelivered
    <3> SUFFICES ASSUME kind = "outbound"
                 PROVE  Outbound!UpstreamDelivered /\ Outbound!ClientDelivered
      OBVIOUS
    <3>1. (tx = <<>> /\ proxy_to_app = <<>> /\ buffered = <<>> /\ inq = <<>>) => nsGot = Bytes(farSent)
      BY <2>1, <2>2 DEF IInv, Conserved
    <3> QED
      BY <2>4, <3>1 DEF IInv, EndsInOrder, IsOutbound, OutboundEnds, Outbound!UpstreamDelivered,
         Outbound!ClientDelivered, Outbound!Bytes, Bytes
  <2>6. kind = "published" => Published!RequestDelivered /\ Published!NothingLeftBehind
    <3> SUFFICES ASSUME kind = "published"
                 PROVE  Published!RequestDelivered /\ Published!NothingLeftBehind
      OBVIOUS
    <3>1. (tx = <<>> /\ host_to_namespace = <<>>) => nsGot \o inq = Bytes(farSent)
      BY <2>1, <2>2 DEF IInv, Conserved
    <3>2. (tx = <<>> /\ host_to_namespace = <<>> /\ inq = <<>>) => nsGot = Bytes(farSent)
      BY <2>1, <2>2, <3>1
    <3> QED
      BY <2>4, <3>1, <3>2 DEF IInv, EndsInOrder, IsPublished, PublishedEnds,
         Published!RequestDelivered, Published!NothingLeftBehind, Published!Bytes, Bytes
  <2> QED
    BY <2>5, <2>6 DEF DeliveredBeforeEnd, IsOutbound, IsPublished
<1> QED
  BY <1>1, Invariance, PTL

\* A call that moves nothing leaves its queues as they are.
LEMMA NothingMoved ==
  \A a, q \in Seq(Byte) : a \o SubSeq(q, 1, 0) = a /\ SubSeq(q, 0 + 1, Len(q)) = q
<1> TAKE a, q \in Seq(Byte)
<1>1. SubSeq(q, 1, 0) = <<>>
  BY SubSeqEmpty
<1>2. a \o <<>> = a
  BY ConcatEmptySeq
<1>3. SubSeq(q, 1, Len(q)) = q /\ 0 + 1 = 1
  BY SubSeqFull
<1> QED
  BY <1>1, <1>2, <1>3

\* Without poll_ready, a pass writes nothing to the stream.
LEMMA NothingWritten ==
  ASSUME Types, NEW w \in 0 .. Len(rx), Len(outq) + w <= KERNEL_BUF,
         ~(rx # <<>> /\ Len(outq) < KERNEL_BUF), outq' = outq \o SubSeq(rx, 1, w)
  PROVE  outq' = outq
<1>1. rx \in Seq(Byte) /\ outq \in Seq(Byte) /\ Len(outq) \in Nat /\ Len(outq) <= KERNEL_BUF
  BY DEF Types
<1>2. w \in Nat /\ w <= Len(rx) /\ (rx = <<>> => Len(rx) = 0)
  BY <1>1
<1>3. w = 0
  BY <1>1, <1>2, SizesAssumption
<1> QED
  BY <1>1, <1>3, NothingMoved, Zenon

\* poll_ready ends the wait for everything the next pass can do with the stream:
\* a pass that changes its queues, or finds its end, finds poll_ready true.
THEOREM NothingUnnoticed ==
  Spec => [][IsOutbound(Outbound!Noticed) /\ IsPublished(Published!Noticed)]_vars
<1>1. ASSUME Types, Outbound!Shuttle, ~Outbound!PollReady
      PROVE  UNCHANGED <<inq, outq, buffered, proxy_read_state>>
  <2>1. PICK w \in Outbound!Writable(rx), r \in Outbound!Readable :
          /\ outq' = outq \o SubSeq(rx, 1, w)
          /\ buffered' = IF Outbound!Source = buffered THEN SubSeq(buffered, r + 1, Len(buffered))
                         ELSE buffered
          /\ inq' = IF Outbound!Source = buffered THEN inq ELSE SubSeq(inq, r + 1, Len(inq))
          /\ proxy_read_state' = IF Outbound!ReadFails THEN "Failed"
                                 ELSE IF Outbound!ReadsEof THEN "Eof" ELSE proxy_read_state
    BY <1>1, Zenon DEF Outbound!Shuttle
  <2>2. /\ w \in 0 .. Len(rx) /\ Len(outq) + w <= KERNEL_BUF /\ r \in 0 .. Len(Outbound!Source)
        /\ ~Outbound!Reading => r = 0
    BY <1>1, OutboundBounds
  <2>3. /\ ~(rx # <<>> /\ Len(outq) < KERNEL_BUF)
        /\ Outbound!Reading => buffered = <<>> /\ inq = <<>> /\ farEnd = "open"
    BY <1>1 DEF Outbound!PollReady, Outbound!Reading, Outbound!StreamWritable
  <2>4. outq' = outq
    BY <1>1, <2>1, <2>2, <2>3, NothingWritten, Zenon
  <2>5. proxy_read_state' = proxy_read_state
    BY <2>1, <2>3 DEF Outbound!ReadFails, Outbound!ReadsEof
  <2>6. r = 0
    <3>1. Outbound!Reading => Len(Outbound!Source) = 0
      BY <2>3 DEF Outbound!Source
    <3> QED
      BY <2>2, <3>1
  <2>7. buffered' = buffered /\ inq' = inq
    BY <1>1, <2>1, <2>6, NothingMoved DEF Types
  <2> QED
    BY <2>4, <2>5, <2>7
<1>2. ASSUME Types, Published!Shuttle, ~Published!PollReady PROVE UNCHANGED <<inq, outq>>
  <2>1. PICK r \in Published!Readable, w \in Published!Writable(rx) :
          outq' = outq \o SubSeq(rx, 1, w) /\ inq' = SubSeq(inq, r + 1, Len(inq))
    BY <1>2, Zenon DEF Published!Shuttle
  <2>2. /\ w \in 0 .. Len(rx) /\ Len(outq) + w <= KERNEL_BUF /\ r \in 0 .. Len(inq)
    BY <1>2, PublishedBounds
  <2>3. /\ ~(rx # <<>> /\ Len(outq) < KERNEL_BUF)
        /\ Published!Reading => inq = <<>>
    BY <1>2 DEF Published!PollReady, Published!Reading, Published!StreamWritable
  <2>4. outq' = outq
    BY <1>2, <2>1, <2>2, <2>3, NothingWritten, Zenon
  <2>5. r = 0
    <3>1. CASE Published!Reading
      <4>1. Len(inq) = 0
        BY <2>3, <3>1
      <4> QED
        BY <2>2, <4>1
    <3>2. CASE ~Published!Reading
      BY <3>2 DEF Published!Readable
    <3> QED
      BY <3>1, <3>2
  <2>6. inq' = inq
    BY <1>2, <2>1, <2>5, NothingMoved DEF Types
  <2> QED
    BY <2>4, <2>6
<1>3. IInv /\ [Next]_vars => [IsOutbound(Outbound!Noticed) /\ IsPublished(Published!Noticed)]_vars
  BY <1>1, <1>2 DEF IInv, IsOutbound, IsPublished, Outbound!Noticed, Published!Noticed,
     Outbound!streamVars, Published!streamVars
<1> QED
  BY <1>3, Invariance, PTL DEF Spec
=============================================================================
