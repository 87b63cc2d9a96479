--------------------------- MODULE MCSequential ---------------------------
(***************************************************************************)
(* The parts of the program that run by themselves, one at a time: the     *)
(* fake-IP pool (FakeDns), the routing rules (Rules), the DNS messages     *)
(* (DnsWire) and the encoding of credentials (Base64).  The first state    *)
(* chooses the part; the others stay as they are.                          *)
(*                                                                         *)
(* The bytes of a datagram are those that make a difference, as length and *)
(* as text: the root label, short labels, a dot, a letter (a length with   *)
(* one of the top bits set), and a byte that is not UTF-8 (with both).     *)
(*                                                                         *)
(* The pool has three addresses for five domains, so that the ring wraps   *)
(* around and every eviction order occurs.  Of the three host names of the *)
(* rules two differ in case alone.                                         *)
(***************************************************************************)
EXTENDS FakeDns, Rules, DnsQuery

CONSTANTS MaxLen, Sample

ASSUME PartsAssumption ==
  /\ DEFAULT \notin Proxy
  /\ MaxLen \in Nat /\ Sample \subseteq 0 .. 255

VARIABLES part, input, rest, out

Hosts == {"a", "A", "b"}
UpToCase == [h \in Hosts |-> IF h = "A" THEN "a" ELSE h]

W == INSTANCE DnsWire
B == INSTANCE Base64

base64Vars == <<input, rest, out>>

MCInit ==
  /\ part \in {"pool", "rules", "wire", "base64"}
  /\ (IF part = "wire" THEN TRUE ELSE header = "short") /\ QueryInit
  /\ (IF part = "base64" THEN TRUE ELSE input = <<>>) /\ B!Init
  /\ PoolInit /\ RulesInit

MCNext ==
  /\ UNCHANGED part
  /\ \/ part = "pool" /\ PoolNext /\ UNCHANGED <<rulesVars, queryVars, base64Vars>>
     \/ part = "rules" /\ RulesNext /\ UNCHANGED <<poolVars, queryVars, base64Vars>>
     \/ part = "wire" /\ QueryNext /\ UNCHANGED <<poolVars, rulesVars, base64Vars>>
     \/ part = "base64" /\ B!Next /\ UNCHANGED <<poolVars, rulesVars, queryVars>>

MCSpec == MCInit /\ [][MCNext]_<<part, poolVars, rulesVars, queryVars, base64Vars>>

-----------------------------------------------------------------------------
(* The properties of the parts.  MapsInverse and ImplementsFifo are those  *)
(* of FakeDns, RulesDecide is that of Rules and AcceptsExactly that of     *)
(* DnsQuery.                                                               *)

\* DnsWire: a response repeats name and type of its question, with class IN, and
\* its records answer that question.
EchoesQuestion == W!EchoesQuestion

\* Base64: base64_encode returns whole quartets with the right padding, whose
\* characters carry the bits of the input in their order.
EncodesExactly == B!WholeQuartets /\ B!BitsPreserved
=============================================================================
