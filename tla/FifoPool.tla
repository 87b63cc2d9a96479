------------------------------ MODULE FifoPool ------------------------------
(***************************************************************************)
(* What the fake-IP pool promises: a bounded table of (domain, address)    *)
(* pairs, oldest allocation first.  A domain keeps its address until it is *)
(* the oldest entry of a full table, and an address is only ever passed    *)
(* on from the oldest entry.                                               *)
(***************************************************************************)
EXTENDS Naturals, Sequences

CONSTANTS Domain, Address, Capacity

VARIABLE live

Domains == {live[i].domain : i \in 1 .. Len(live)}
Addresses == {live[i].ip : i \in 1 .. Len(live)}

Init == live = <<>>

\* There is room: any unused address may be given.
Grow(d) ==
  /\ Len(live) < Capacity
  /\ \E ip \in Address \ Addresses : live' = Append(live, [domain |-> d, ip |-> ip])

\* The table is full: the oldest entry gives up its address.
Recycle(d) ==
  /\ Len(live) = Capacity
  /\ live' = Append(Tail(live), [domain |-> d, ip |-> Head(live).ip])

Next == \E d \in Domain \ Domains : Grow(d) \/ Recycle(d)

Spec == Init /\ [][Next]_live
=============================================================================
