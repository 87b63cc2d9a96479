------------------------------ MODULE DnsQuery ------------------------------
(***************************************************************************)
(* parse_query of src/fake_dns.rs, one step per pass of its loop.  The     *)
(* header is the facts parse_query asks of it; the rest of the datagram,   *)
(* from offset 12, is a sequence of bytes.  An index outside the datagram  *)
(* is a panic.                                                             *)
(*                                                                         *)
(* Bounds: MaxName free bytes, followed by the type and class of one of    *)
(* three questions, whole or cut off.                                      *)
(***************************************************************************)
EXTENDS Naturals, Sequences, FiniteSets

CONSTANTS Byte, MaxName

ASSUME QueryAssumption == Byte \subseteq 0 .. 255 /\ MaxName \in Nat

LABEL_MAX == 63

VARIABLES header,  \* "short", "response", "no question" or "query"
          data,    \* the bytes from offset 12
          pos,     \* offset into data
          labels,
          result   \* "parsing", then "none", "some" or "panic"

queryVars == <<header, data, pos, labels, result>>

\* Type and class: A and AAAA of the class IN, CAA (a type of two bytes) of CH.
TypeAndClass == {<<0, 1, 0, 1>>, <<0, 28, 0, 1>>, <<1, 1, 0, 3>>}
Name == UNION {[1 .. n -> Byte] : n \in 0 .. MaxName}
Datagram == {name \o SubSeq(t, 1, n) : name \in Name, t \in TypeAndClass, n \in 0 .. 4}

QueryInit ==
  /\ header \in {"short", "response", "no question", "query"}
  /\ IF header = "query" THEN data \in Datagram ELSE data = <<>>
  /\ pos = 0 /\ labels = <<>> /\ result = "parsing"

-----------------------------------------------------------------------------
\* 255 stands for the bytes that no UTF-8 text has.
Utf8(bytes) == \A i \in 1 .. Len(bytes) : bytes[i] # 255

Return(r) == result' = r /\ UNCHANGED <<pos, labels>>

AtEnd(p) == p >= Len(data)

Overlong(end) == end > Len(data)

\* A bug that asks for one byte more than type and class have.
TailMissing_OffByOne(p) == p + 4 >= Len(data)

TailMissing(p) == p + 4 > Len(data)

AfterLabel(end) == end

CheckHeader ==
  /\ result = "parsing" /\ header # "query" /\ Return("none")
  /\ UNCHANGED <<header, data>>

\* The loop reads a label, or the root label that ends the name.
ParseLabel ==
  /\ result = "parsing" /\ header = "query"
  /\ \/ AtEnd(pos) /\ Return("none")
     \/ ~AtEnd(pos) /\ pos >= Len(data) /\ Return("panic")
     \/ /\ ~AtEnd(pos) /\ pos < Len(data)
        /\ LET label_len == data[pos + 1]
               end == pos + 1 + label_len
               label == SubSeq(data, pos + 2, end)
           IN  \/ label_len = 0 /\ TailMissing(pos + 1) /\ Return("none")
               \/ /\ label_len = 0 /\ ~TailMissing(pos + 1)
                  /\ result' = (IF pos + 3 > Len(data) THEN "panic" ELSE "some")
                  /\ pos' = pos + 1 /\ UNCHANGED labels
               \/ label_len > LABEL_MAX /\ Return("none")
               \/ /\ label_len \in 1 .. LABEL_MAX
                  /\ \/ Overlong(end) /\ Return("none")
                     \/ ~Overlong(end) /\ end > Len(data) /\ Return("panic")
                     \/ ~Overlong(end) /\ end <= Len(data) /\ ~Utf8(label) /\ Return("none")
                     \/ /\ ~Overlong(end) /\ end <= Len(data) /\ Utf8(label)
                        /\ labels' = Append(labels, label)
                        /\ pos' = AfterLabel(end) /\ UNCHANGED result
  /\ UNCHANGED <<header, data>>

\* The type that is returned with the name: the two bytes behind it.  The class
\* is not read.
qtype == 256 * data[pos + 1] + data[pos + 2]

QueryNext == CheckHeader \/ ParseLabel

QuerySpec == QueryInit /\ [][QueryNext]_queryVars

-----------------------------------------------------------------------------
(* Properties.                                                             *)

LabelAt(p) == SubSeq(data, p + 2, p + 1 + data[p + 1])

\* A reading of the datagram as RFC 1035 defines it: the offsets of the length
\* bytes, each label ending where the next length byte is, the last one a root
\* label with room for type and class behind it.
Reading(S, last) ==
  /\ 0 \in S /\ last \in S /\ data[last + 1] = 0 /\ last + 5 <= Len(data)
  /\ \A p \in S :
       /\ p <= last
       /\ p # last => /\ data[p + 1] \in 1 .. LABEL_MAX /\ p + 1 + data[p + 1] \in S
                     /\ Utf8(LabelAt(p))
       /\ p # 0 => \E q \in S : q < p /\ q + 1 + data[q + 1] = p

\* The labels of a reading, in their order.
LabelsOf(S, last) ==
  /\ Len(labels) = Cardinality(S) - 1
  /\ \A p \in S \ {last} : labels[Cardinality({q \in S : q <= p})] = LabelAt(p)

\* parse_query accepts exactly the datagrams that have such a reading, and
\* returns its labels; no datagram makes it index outside, as a panic would end
\* the event loop and with it every connection.
AcceptsExactly ==
  result # "parsing" /\ header = "query" =>
    /\ result # "panic"
    /\ result = "none" =>
         \A S \in SUBSET (0 .. Len(data) - 1) : \A last \in S : ~Reading(S, last)
    /\ result = "some" =>
         \E S \in SUBSET (0 .. Len(data) - 1) : Reading(S, pos - 1) /\ LabelsOf(S, pos - 1)
=============================================================================
