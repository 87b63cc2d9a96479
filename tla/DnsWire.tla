------------------------------ MODULE DnsWire ------------------------------
(***************************************************************************)
(* The DNS responses of src/fake_dns.rs, built from what parse_query       *)
(* (DnsQuery) returns, and the choice between them that process() of       *)
(* src/event_loop/dns.rs makes.                                            *)
(*                                                                         *)
(* A response is the bytes of its question and the records of its answer,  *)
(* of which the header's counts and the lifetime are left out.             *)
(***************************************************************************)
EXTENDS DnsQuery, SequencesExt, FiniteSetsExt

DOT == 46

\* labels.join("."): the domain name parse_query returns.
domain ==
  FoldLeft(LAMBDA name, label : (IF name = <<>> THEN label ELSE Append(name, DOT) \o label),
           <<>>, labels)

\* A bug that encodes the name without the root label.
RootLabel_Missing == <<>>

RootLabel == <<0>>

\* encode_name: split at the dots, the length of each label before its bytes.
encode_name(name) ==
  LET first(i) == i = 1 \/ name[i - 1] = DOT
      ends(i) == {j \in i .. Len(name) : name[j] = DOT} \cup {Len(name) + 1}
  IN  IF name = <<>> THEN RootLabel
      ELSE FoldLeft(LAMBDA buf, i :
                      buf \o (IF first(i) THEN <<Min(ends(i)) - i>> ELSE <<>>)
                          \o (IF i > Len(name) \/ name[i] = DOT THEN <<>> ELSE <<name[i]>>),
                    <<>>, [i \in 1 .. Len(name) + 1 |-> i])
           \o RootLabel

to_be_bytes(n) == <<n \div 256, n % 256>>

A == 1
IN_CLASS == 1
POINTER == 49164   \* 0xC00C

\* The question section, which begins at offset 12, and the answer section.
Question(type) == encode_name(domain) \o to_be_bytes(type) \o to_be_bytes(IN_CLASS)
build_a_response(ip) ==
  [question |-> Question(A), answers |-> <<[name |-> POINTER, type |-> A, addr |-> ip]>>]
build_empty_response(type) == [question |-> Question(type), answers |-> <<>>]

\* DnsInterceptor::process, with the address of the name.
Response(ip) == IF qtype = A THEN build_a_response(ip) ELSE build_empty_response(qtype)

-----------------------------------------------------------------------------
(* Properties.                                                             *)

\* The name a record's pointer leads to: the top two bits are set, the others
\* are an offset into the response, whose header has 12 bytes.
NameAt(pointer, question, length) ==
  LET at == pointer - 49152 - 12 IN SubSeq(question, at + 1, at + length)

\* A response repeats name and type of its question byte for byte, although the
\* name has been through a string of dotted labels, so that the resolver takes it
\* for its own; its class is IN, whatever was asked.  Its records are of the type
\* asked for, and their name pointer leads to that name.  This is so for every
\* name without a dot inside a label, where the string does not tell labels apart.
EchoesQuestion ==
  (result = "some" /\ \A i \in 1 .. Len(labels) : \A j \in 1 .. Len(labels[i]) : labels[i][j] # DOT)
    => LET response == Response(0) IN
         /\ response.question = SubSeq(data, 1, pos + 2) \o to_be_bytes(IN_CLASS)
         /\ \A i \in 1 .. Len(response.answers) :
              /\ response.answers[i].type = qtype
              /\ NameAt(response.answers[i].name, response.question, pos) = SubSeq(data, 1, pos)
=============================================================================
