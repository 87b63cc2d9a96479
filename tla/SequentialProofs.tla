-------------------------- MODULE SequentialProofs --------------------------
(***************************************************************************)
(* Proofs about two parts that run by themselves: parse_query (DnsQuery),  *)
(* for datagrams of any length, and the routing rules (Rules), for any     *)
(* list of rules and addresses of any width.                               *)
(***************************************************************************)
EXTENDS DnsQuery, Rules, FiniteSetTheorems, TLAPS

-----------------------------------------------------------------------------
(* parse_query.                                                            *)

\* The offsets of the length bytes read so far, the next one last: every reading
\* begins with them.
Walked(S) ==
  /\ S \subseteq 0 .. pos /\ 0 \in S /\ pos \in S
  /\ \A p \in S \ {pos} : /\ data[p + 1] \in 1 .. LABEL_MAX /\ p + 1 + data[p + 1] \in S
                          /\ Utf8(LabelAt(p))
  /\ \A p \in S : p # 0 => \E q \in S : q < p /\ q + 1 + data[q + 1] = p
  /\ LabelsOf(S, pos)
  /\ \A R \in SUBSET (0 .. Len(data) - 1) : \A last \in R : Reading(R, last) => S \subseteq R

QueryTyped == data \in Seq(0 .. 255) /\ pos \in 0 .. Len(data) /\ labels \in Seq(Seq(0 .. 255))

QueryIInv ==
  /\ QueryTyped
  /\ result = "parsing" => \E S : Walked(S)
  /\ AcceptsExactly

\* The bytes of a datagram are numbers, and so are those of a part of it.
LEMMA BytesAreNat ==
  ASSUME NEW d \in Seq(0 .. 255)
  PROVE  Len(d) \in Nat /\ \A i \in 1 .. Len(d) : d[i] \in Nat
<1> DEFINE B == 0 .. 255
<1>1. d \in Seq(B) /\ \A b \in B : b \in Nat
  OBVIOUS
<1> HIDE DEF B
<1> QED
  BY <1>1

LEMMA PartOfBytes ==
  ASSUME NEW d \in Seq(0 .. 255), NEW m \in Nat, m >= 1, NEW n \in Nat, n <= Len(d)
  PROVE  SubSeq(d, m, n) \in Seq(0 .. 255)
<1> DEFINE B == 0 .. 255
<1>1. d \in Seq(B)
  OBVIOUS
<1> HIDE DEF B
<1>2. SubSeq(d, m, n) \in Seq(B)
  BY <1>1
<1> QED
  BY <1>2, Zenon DEF B

LEMMA AppendedLabel ==
  ASSUME NEW X, NEW d \in Seq(X), NEW x \in X
  PROVE  Append(d, x) \in Seq(X)
OBVIOUS

\* parse_query begins at offset 12 with no labels.
LEMMA QueryInitIInv ==
  ASSUME QueryInit
  PROVE  QueryIInv
<1>1. data \in Seq(0 .. 255)
  <2>1. CASE header = "query"
    <3>0. data \in Datagram
      BY <2>1, Zenon DEF QueryInit
    <3>1. PICK name \in Name, t \in TypeAndClass, n \in 0 .. 4 : data = name \o SubSeq(t, 1, n)
      BY <3>0 DEF Datagram
    <3>2. PICK m \in 0 .. MaxName : name \in [1 .. m -> Byte]
      BY DEF Name
    <3>3. name \in Seq(0 .. 255)
      <4>1. m \in Nat /\ Byte \subseteq 0 .. 255
        BY QueryAssumption
      <4>2. name \in [1 .. m -> 0 .. 255]
        BY <3>2, <4>1
      <4> QED
        BY <4>1, <4>2
    <3>4. SubSeq(t, 1, n) \in Seq(0 .. 255)
      <4>1. \A a, b, c, d \in 0 .. 255 :
              <<a, b, c, d>> \in Seq(0 .. 255) /\ Len(<<a, b, c, d>>) = 4
        OBVIOUS
      <4>2. n \in Nat /\ n <= 4 /\ 1 \in Nat /\ 1 >= 1
        OBVIOUS
      <4>3. t \in Seq(0 .. 255) /\ Len(t) = 4
        <5>1. 0 \in 0 .. 255 /\ 1 \in 0 .. 255 /\ 3 \in 0 .. 255 /\ 28 \in 0 .. 255
          OBVIOUS
        <5>2. t \in {<<0, 1, 0, 1>>, <<0, 28, 0, 1>>, <<1, 1, 0, 3>>}
          BY DEF TypeAndClass
        <5>3. CASE t = <<0, 1, 0, 1>>
          BY <4>1, <5>1, <5>3, Zenon
        <5>4. CASE t = <<0, 28, 0, 1>>
          BY <4>1, <5>1, <5>4, Zenon
        <5>5. CASE t = <<1, 1, 0, 3>>
          BY <4>1, <5>1, <5>5, Zenon
        <5> QED
          BY <5>2, <5>3, <5>4, <5>5
      <4> QED
        BY <4>2, <4>3, PartOfBytes
    <3> QED
      BY <3>1, <3>3, <3>4
  <2>2. CASE header # "query"
    <3>1. data = <<>>
      BY <2>2, Zenon DEF QueryInit
    <3> QED
      BY <3>1
  <2> QED
    BY <2>1, <2>2
<1>2. pos = 0 /\ labels = <<>> /\ result = "parsing" /\ Len(data) \in Nat
  <2>1. pos = 0 /\ labels = <<>> /\ result = "parsing"
    BY Zenon DEF QueryInit
  <2> QED
    BY <1>1, <2>1
<1>3. QueryTyped
  BY <1>1, <1>2 DEF QueryTyped
<1>4. Walked({0})
  <2>1. Cardinality({0}) = 1 /\ Len(labels) = 0
    BY <1>2, FS_Singleton
  <2>2. LabelsOf({0}, pos)
    BY <1>2, <2>1 DEF LabelsOf
  <2>3. \A R, last : Reading(R, last) => 0 \in R
    BY Zenon DEF Reading
  <2>4. {0} \subseteq 0 .. pos
    BY <1>2
  <2> QED
    BY <1>2, <2>2, <2>3, <2>4, Zenon DEF Walked
<1> QED
  BY <1>2, <1>3, <1>4 DEF QueryIInv, AcceptsExactly

\* No reading exists where the loop gives up.
LEMMA GivesUp ==
  ASSUME QueryTyped, NEW S, Walked(S),
         \/ pos >= Len(data)
         \/ data[pos + 1] = 0 /\ pos + 5 > Len(data)
         \/ data[pos + 1] > LABEL_MAX
         \/ data[pos + 1] \in 1 .. LABEL_MAX /\ pos + 1 + data[pos + 1] > Len(data)
         \/ data[pos + 1] \in 1 .. LABEL_MAX /\ ~Utf8(LabelAt(pos)),
         NEW R \in SUBSET (0 .. Len(data) - 1), NEW last \in R, Reading(R, last)
  PROVE  FALSE
<1>0. PICK l : l = data[pos + 1]
  OBVIOUS
<1>1. pos \in R
  BY Zenon DEF Walked
<1>2. Len(data) \in Nat /\ pos \in Nat /\ pos < Len(data) /\ last \in Nat
  BY <1>1 DEF QueryTyped
<1>3. data[pos + 1] \in Nat /\ pos + 1 \in 1 .. Len(data)
  <2>1. pos + 1 \in 1 .. Len(data)
    BY <1>2
  <2>2. data \in Seq(0 .. 255)
    BY Zenon DEF QueryTyped
  <2> QED
    BY <2>1, <2>2, BytesAreNat, Zenon
<1>4. data[last + 1] = 0 /\ last + 5 <= Len(data)
  BY Zenon DEF Reading
<1>5. CASE pos = last
  <2>1. l = 0 /\ pos + 5 <= Len(data)
    BY <1>0, <1>4, <1>5
  <2> QED
    BY <1>0, <1>2, <2>1 DEF LABEL_MAX
<1>6. CASE pos # last
  <2>1. /\ data[pos + 1] \in 1 .. LABEL_MAX /\ pos + 1 + data[pos + 1] \in R
        /\ Utf8(LabelAt(pos))
    BY <1>1, <1>6, Zenon DEF Reading
  <2>2. pos + 1 + data[pos + 1] \in 0 .. Len(data) - 1
    BY <2>1, Zenon
  <2>3. l \in 1 .. LABEL_MAX /\ pos + 1 + l \in 0 .. Len(data) - 1 /\ Utf8(LabelAt(pos))
    BY <1>0, <2>1, <2>2
  <2>4. ~(l = 0) /\ ~(l > LABEL_MAX) /\ ~(pos + 1 + l > Len(data)) /\ ~(pos >= Len(data))
    BY <1>2, <2>3 DEF LABEL_MAX
  <2> QED
    BY <1>0, <2>3, <2>4
<1> QED
  BY <1>5, <1>6

\* The root label ends the only reading there is.
LEMMA AcceptsReading ==
  ASSUME QueryTyped, NEW S, Walked(S), pos < Len(data), data[pos + 1] = 0, pos + 5 <= Len(data)
  PROVE  S \in SUBSET (0 .. Len(data) - 1) /\ Reading(S, pos) /\ LabelsOf(S, pos)
<1>1. Len(data) \in Nat /\ pos \in Nat
  BY DEF QueryTyped
<1>2. \A p \in S : p \in 0 .. pos
  BY Zenon DEF Walked
<1>3. S \in SUBSET (0 .. Len(data) - 1) /\ \A p \in S : p <= pos
  BY <1>1, <1>2
<1>4. Reading(S, pos)
  BY <1>3, Zenon DEF Walked, Reading
<1> QED
  BY <1>3, <1>4, Zenon DEF Walked

\* A label more: the walk goes on to the byte behind it.
LEMMA WalksOn ==
  ASSUME QueryTyped, NEW S, Walked(S), pos < Len(data), data' = data, NEW l, l = data[pos + 1],
         l \in 1 .. LABEL_MAX, Utf8(LabelAt(pos)), NEW end, end = pos + 1 + l, end <= Len(data),
         pos' = end, labels' = Append(labels, LabelAt(pos))
  PROVE  Walked(S \cup {end})'
<1> DEFINE T == S \cup {end}
<1>1. /\ Len(data) \in Nat /\ pos \in Nat /\ l \in Nat /\ end \in Nat /\ pos < end
      /\ pos' = end /\ end # 0 /\ l # 0
  <2>1. Len(data) \in Nat /\ pos \in 0 .. Len(data)
    BY BytesAreNat, Zenon DEF QueryTyped
  <2>2. \A n \in 1 .. LABEL_MAX : n \in Nat /\ n # 0
    BY DEF LABEL_MAX
  <2>3. \A m \in Nat : \A p \in 0 .. m : p \in Nat
    OBVIOUS
  <2>4. \A p, n \in Nat : n # 0 => p + 1 + n \in Nat /\ p < p + 1 + n /\ p + 1 + n # 0
    OBVIOUS
  <2>5. l \in Nat /\ l # 0 /\ pos \in Nat
    BY <2>1, <2>2, <2>3, Zenon
  <2> QED
    BY <2>1, <2>4, <2>5, Zenon
<1>2. S \subseteq 0 .. pos /\ 0 \in S /\ pos \in S /\ LabelsOf(S, pos)
  BY Zenon DEF Walked
<1>3. T \subseteq 0 .. end /\ 0 \in T /\ end \in T /\ end \notin S /\ \A p \in S : p \in Nat /\ p <= pos
  <2>1. \A m, n \in Nat : m < n => /\ n \in 0 .. n /\ n \notin 0 .. m
                                   /\ \A p \in 0 .. m : p \in Nat /\ p <= m /\ p \in 0 .. n
    OBVIOUS
  <2>2. /\ end \in 0 .. end /\ end \notin 0 .. pos
        /\ \A p \in 0 .. pos : p \in Nat /\ p <= pos /\ p \in 0 .. end
    BY <1>1, <2>1, Zenon
  <2>3. end \notin S /\ \A p \in S : p \in Nat /\ p <= pos /\ p \in 0 .. end
    BY <1>2, <2>2, Zenon
  <2> QED
    BY <1>2, <2>2, <2>3, Zenon
<1>4. \A p : LabelAt(p)' = LabelAt(p)
  BY Zenon DEF LabelAt
<1>5. ASSUME NEW p \in T \ {end}
      PROVE  data'[p + 1] \in 1 .. LABEL_MAX /\ p + 1 + data'[p + 1] \in T /\ Utf8(LabelAt(p)')
  <2>1. CASE p = pos
    BY <1>4, <2>1, Zenon
  <2>2. CASE p \in S \ {pos}
    BY <1>4, <2>2, Zenon DEF Walked
  <2> QED
    BY <2>1, <2>2, Zenon
<1>6. ASSUME NEW p \in T, p # 0 PROVE \E q \in T : q < p /\ q + 1 + data'[q + 1] = p
  <2>1. CASE p = end
    BY <1>1, <1>2, <2>1, Zenon
  <2>2. CASE p \in S
    BY <1>6, <2>2, Zenon DEF Walked
  <2> QED
    BY <2>1, <2>2, Zenon
<1>7. LabelsOf(T, end)'
  <2>1. IsFiniteSet(S) /\ Cardinality(S) \in Nat
    <3>1. IsFiniteSet(0 .. pos)
      <4>1. 0 \in Int /\ pos \in Int
        BY <1>1
      <4> QED
        BY <4>1, FS_Interval, Zenon
    <3> QED
      BY <1>2, <3>1, FS_Subset, FS_CardinalityType, Zenon
  <2>2. Cardinality(T) = Cardinality(S) + 1
    BY <1>3, <2>1, FS_AddElement
  <2>3. labels \in Seq(Seq(0 .. 255)) /\ Len(labels) = Cardinality(S) - 1
    BY <1>2, Zenon DEF QueryTyped, LabelsOf
  <2>4. /\ Len(labels) \in Nat /\ Len(labels') = Len(labels) + 1
        /\ labels'[Len(labels) + 1] = LabelAt(pos)
        /\ \A i \in 1 .. Len(labels) : labels'[i] = labels[i]
    BY <2>3
  <2>5. ASSUME NEW p \in T \ {end}
        PROVE  labels'[Cardinality({q \in T : q <= p})] = LabelAt(p)
    <3>1. {q \in T : q <= p} = {q \in S : q <= p} /\ p \in S
      BY <1>1, <1>3
    <3>2. CASE p = pos
      <4>1. {q \in S : q <= p} = S
        BY <1>3, <3>2
      <4>2. Cardinality(S) = Len(labels) + 1
        BY <2>1, <2>3, <2>4
      <4> QED
        BY <2>4, <3>1, <3>2, <4>1, <4>2, Zenon
    <3>3. CASE p # pos
      <4> DEFINE U == {q \in S : q <= p}
      <4>1. labels[Cardinality(U)] = LabelAt(p)
        BY <1>2, <3>1, <3>3, Zenon DEF LabelsOf
      <4>2. U \subseteq S \ {pos} /\ p \in U
        BY <1>1, <1>3, <3>1, <3>3
      <4>3. IsFiniteSet(U) /\ IsFiniteSet(S \ {pos}) /\ Cardinality(U) <= Cardinality(S \ {pos})
        BY <2>1, <4>2, FS_Subset, FS_RemoveElement
      <4>4. Cardinality(S \ {pos}) = Cardinality(S) - 1
        BY <1>2, <2>1, FS_RemoveElement
      <4>5. Cardinality(U) \in Nat /\ Cardinality(U) # 0
        BY <4>2, <4>3, FS_CardinalityType, FS_EmptySet
      <4>6. Cardinality(U) \in 1 .. Len(labels)
        BY <2>1, <2>3, <4>3, <4>4, <4>5
      <4> QED
        BY <2>4, <3>1, <4>1, <4>6
    <3> QED
      BY <3>2, <3>3
  <2>6. Len(labels') = Cardinality(T) - 1
    BY <2>1, <2>2, <2>3, <2>4
  <2> QED
    BY <1>4, <2>5, <2>6, Zenon DEF LabelsOf
<1>8. ASSUME NEW R \in SUBSET (0 .. Len(data) - 1), NEW last \in R, Reading(R, last)
      PROVE  T \subseteq R
  <2>1. S \subseteq R
    BY <1>8, Zenon DEF Walked
  <2>2. pos # last
    <3>1. data[last + 1] = 0
      BY <1>8, Zenon DEF Reading
    <3> QED
      BY <1>1, <3>1, Zenon
  <2>3. end \in R
    BY <1>2, <1>8, <2>1, <2>2, Zenon DEF Reading
  <2> QED
    BY <2>1, <2>3
<1>9. \A R, last : Reading(R, last)' <=> Reading(R, last)
  BY <1>4, Zenon DEF Reading
<1> QED
  BY <1>1, <1>3, <1>5, <1>6, <1>7, <1>8, <1>9, Zenon DEF Walked

\* parse_query, one pass of its loop.
LEMMA ParseKeepsIInv ==
  ASSUME QueryIInv, ParseLabel
  PROVE  QueryIInv'
<1>1. QueryTyped /\ data' = data /\ header' = header /\ result = "parsing"
  BY Zenon DEF QueryIInv, ParseLabel
<1>2. PICK S : Walked(S)
  BY <1>1, Zenon DEF QueryIInv
<1>3. Len(data) \in Nat /\ pos \in Nat /\ pos <= Len(data) /\ \A i \in 1 .. Len(data) : data[i] \in Nat
  <2>1. Len(data) \in Nat /\ pos \in 0 .. Len(data) /\ \A i \in 1 .. Len(data) : data[i] \in Nat
    BY <1>1, BytesAreNat, Zenon DEF QueryTyped
  <2> QED
    BY <2>1
<1>4. PICK l, end : l = data[pos + 1] /\ end = pos + 1 + l
  OBVIOUS
<1>5. /\ SubSeq(data, pos + 2, pos + 1 + data[pos + 1]) = LabelAt(pos)
      /\ \A R, last : Reading(R, last)' <=> Reading(R, last)
  BY <1>1, Zenon DEF LabelAt, Reading
<1>6. ASSUME pos < Len(data) PROVE l \in Nat /\ end \in Nat
  BY <1>3, <1>4, <1>6
<1>7. ASSUME result' = "none", UNCHANGED <<pos, labels>>,
             \/ pos >= Len(data)
             \/ l = 0 /\ pos + 5 > Len(data)
             \/ l > LABEL_MAX
             \/ l \in 1 .. LABEL_MAX /\ end > Len(data)
             \/ l \in 1 .. LABEL_MAX /\ ~Utf8(LabelAt(pos))
      PROVE  QueryIInv'
  <2>1. \A R \in SUBSET (0 .. Len(data) - 1) : \A last \in R : ~Reading(R, last)
    BY <1>1, <1>2, <1>4, <1>7, GivesUp, Zenon
  <2>2. AcceptsExactly'
    BY <1>1, <1>5, <1>7, <2>1, Zenon DEF AcceptsExactly
  <2>3. QueryTyped'
    BY <1>1, <1>7, Zenon DEF QueryTyped
  <2> QED
    BY <1>7, <2>2, <2>3 DEF QueryIInv
<1>8. ASSUME result' = "some", pos' = pos + 1, labels' = labels, pos < Len(data), l = 0,
             pos + 5 <= Len(data)
      PROVE  QueryIInv'
  <2>1. S \in SUBSET (0 .. Len(data) - 1) /\ Reading(S, pos) /\ LabelsOf(S, pos)
    BY <1>1, <1>2, <1>4, <1>8, AcceptsReading, Zenon
  <2>2. PICK k : k = pos
    OBVIOUS
  <2>3. pos' - 1 = k /\ pos' \in 0 .. Len(data')
    BY <1>1, <1>3, <1>8, <2>2
  <2>4. LabelsOf(S, pos - 1)'
    <3>1. \A p : LabelAt(p)' = LabelAt(p)
      BY <1>1, Zenon DEF LabelAt
    <3> QED
      BY <1>8, <2>1, <2>2, <2>3, <3>1, Zenon DEF LabelsOf
  <2>5. Reading(S, pos - 1)'
    BY <1>5, <2>1, <2>2, <2>3, Zenon
  <2>6. AcceptsExactly'
    BY <1>1, <1>8, <2>1, <2>4, <2>5, Zenon DEF AcceptsExactly
  <2>7. QueryTyped'
    BY <1>1, <1>8, <2>3, Zenon DEF QueryTyped
  <2> QED
    BY <1>8, <2>6, <2>7 DEF QueryIInv
<1>9. ASSUME result' = result, pos' = end, labels' = Append(labels, LabelAt(pos)), pos < Len(data),
             l \in 1 .. LABEL_MAX, end <= Len(data), Utf8(LabelAt(pos))
      PROVE  QueryIInv'
  <2>1. Walked(S \cup {end})'
    BY <1>1, <1>2, <1>4, <1>9, WalksOn, Zenon
  <2>2. LabelAt(pos) \in Seq(0 .. 255)
    <3>1. pos + 2 \in Nat /\ pos + 2 >= 1 /\ end \in Nat
      BY <1>3, <1>6, <1>9
    <3>2. data \in Seq(0 .. 255)
      BY <1>1, Zenon DEF QueryTyped
    <3>3. SubSeq(data, pos + 2, end) \in Seq(0 .. 255)
      BY <1>9, <3>1, <3>2, PartOfBytes, Zenon
    <3> QED
      BY <1>4, <1>5, <3>3, Zenon
  <2>3. labels' \in Seq(Seq(0 .. 255))
    BY <1>1, <1>9, <2>2, AppendedLabel, Zenon DEF QueryTyped
  <2>4. pos' \in 0 .. Len(data')
    BY <1>1, <1>3, <1>6, <1>9
  <2>5. QueryTyped'
    BY <1>1, <2>3, <2>4, Zenon DEF QueryTyped
  <2> QED
    BY <1>1, <1>9, <2>1, <2>5, Zenon DEF QueryIInv, AcceptsExactly
<1>10. \/ /\ result' = "none" /\ UNCHANGED <<pos, labels>>
          /\ \/ pos >= Len(data)
             \/ l = 0 /\ pos + 5 > Len(data)
             \/ l > LABEL_MAX
             \/ l \in 1 .. LABEL_MAX /\ end > Len(data)
             \/ l \in 1 .. LABEL_MAX /\ ~Utf8(LabelAt(pos))
       \/ /\ result' = "some" /\ pos' = pos + 1 /\ labels' = labels /\ pos < Len(data) /\ l = 0
          /\ pos + 5 <= Len(data)
       \/ /\ result' = result /\ pos' = end /\ labels' = Append(labels, LabelAt(pos)) /\ pos < Len(data)
          /\ l \in 1 .. LABEL_MAX /\ end <= Len(data) /\ Utf8(LabelAt(pos))
  <2>1. CASE pos >= Len(data)
    BY <1>3, <2>1 DEF ParseLabel, Return, AtEnd
  <2>2. CASE pos < Len(data)
    <3>1. \/ l = 0 /\ TailMissing(pos + 1) /\ Return("none")
          \/ /\ l = 0 /\ ~TailMissing(pos + 1)
             /\ result' = (IF pos + 3 > Len(data) THEN "panic" ELSE "some")
             /\ pos' = pos + 1 /\ labels' = labels
          \/ l > LABEL_MAX /\ Return("none")
          \/ /\ l \in 1 .. LABEL_MAX
             /\ \/ Overlong(end) /\ Return("none")
                \/ ~Overlong(end) /\ end > Len(data) /\ Return("panic")
                \/ ~Overlong(end) /\ end <= Len(data) /\ ~Utf8(LabelAt(pos)) /\ Return("none")
                \/ /\ ~Overlong(end) /\ end <= Len(data) /\ Utf8(LabelAt(pos))
                   /\ labels' = Append(labels, LabelAt(pos))
                   /\ pos' = AfterLabel(end) /\ result' = result
      <4>1. ~AtEnd(pos) /\ ~(pos >= Len(data))
        BY <1>3, <2>2 DEF AtEnd
      <4> QED
        BY <1>4, <1>5, <4>1, Zenon DEF ParseLabel
    <3>2. ~TailMissing(pos + 1) => pos + 5 <= Len(data) /\ ~(pos + 3 > Len(data))
      BY <1>3 DEF TailMissing
    <3>3. TailMissing(pos + 1) => pos + 5 > Len(data)
      BY <1>3 DEF TailMissing
    <3> QED
      BY <2>2, <3>1, <3>2, <3>3, Zenon DEF Return, Overlong, AfterLabel
  <2> QED
    BY <1>3, <2>1, <2>2
<1> QED
  BY <1>7, <1>8, <1>9, <1>10, Zenon

LEMMA QueryNextIInv ==
  ASSUME QueryIInv, [QueryNext]_queryVars
  PROVE  QueryIInv'
<1>1. CASE ParseLabel
  BY <1>1, ParseKeepsIInv
<1>2. CASE CheckHeader
  <2>1. QueryTyped'
    BY <1>2, Zenon DEF CheckHeader, Return, QueryIInv, QueryTyped
  <2>2. header' # "query" /\ result' # "parsing"
    BY <1>2 DEF CheckHeader, Return
  <2> QED
    BY <2>1, <2>2, Zenon DEF QueryIInv, AcceptsExactly
<1>3. CASE UNCHANGED queryVars
  <2>1. UNCHANGED <<header, data, pos, labels, result>>
    BY <1>3 DEF queryVars
  <2>2. /\ \A S, last : Reading(S, last)' <=> Reading(S, last)
        /\ \A S, last : LabelsOf(S, last)' <=> LabelsOf(S, last)
        /\ \A p : LabelAt(p)' = LabelAt(p)
    BY <2>1, Zenon DEF Reading, LabelsOf, LabelAt
  <2>3. \A S : Walked(S)' <=> Walked(S)
    BY <2>1, <2>2, Zenon DEF Walked
  <2>4. AcceptsExactly'
    BY <2>1, <2>2, Zenon DEF QueryIInv, AcceptsExactly
  <2> QED
    BY <2>1, <2>3, <2>4, Zenon DEF QueryIInv, QueryTyped
<1> QED
  BY <1>1, <1>2, <1>3, Zenon DEF QueryNext

\* parse_query accepts exactly the datagrams that RFC 1035 gives a reading,
\* returns its labels, and never indexes outside, whatever the datagram.
THEOREM QueriesAlwaysRead == QuerySpec => []AcceptsExactly
<1>1. QueryInit => QueryIInv
  BY QueryInitIInv
<1>2. QueryIInv /\ [QueryNext]_queryVars => QueryIInv'
  BY QueryNextIInv
<1>3. QueryIInv => AcceptsExactly
  BY DEF QueryIInv
<1> QED
  BY <1>1, <1>2, <1>3, PTL DEF QuerySpec

-----------------------------------------------------------------------------
(* The routing rules.                                                      *)

\* Where a rule for addresses is entered.
Node(i) == Path(specs[i].addr, Prefix(i))

\* The rules accepted: the address rules by the bits they fix.
Accepted ==
  /\ specs \in Seq(Spec_Ip \cup Spec_Cidr \cup Spec_Domain \cup Spec_Regex)
  /\ \A i \in 1 .. Len(specs) : Valid(specs[i])

\* The nodes of the trie that have an action are those of the rules, each with
\* the action of the first rule for it.
Entries ==
  /\ \A i \in IpRules : Node(i) \in DOMAIN cidr /\ cidr[Node(i)] # NoAction
  /\ \A p \in DOMAIN cidr : cidr[p] # NoAction =>
       \E i \in IpRules : /\ p = Node(i) /\ cidr[p] = specs[i].proxy
                          /\ \A j \in IpRules : p = Node(j) => i <= j

\* There is a way down to every node.
Rooted ==
  \A addr \in Addr : \A n \in 0 .. WIDTH : Path(addr, n) \in DOMAIN cidr =>
    \A m \in 0 .. n : Path(addr, m) \in DOMAIN cidr

\* One rule wins if any covers the address.
Decided ==
  \A addr \in Addr : \/ \A i \in IpRules : ~Covers(i, addr)
                     \/ \E i \in IpRules : Wins(i, addr)

\* The first pattern that matches is that of the first rule that names a host.
Hits(host) == {k \in 1 .. Len(domain_patterns) : host \in domain_patterns[k]}
FirstHit(host, k, i) ==
  /\ \A j \in Hits(host) : k <= j
  /\ Names(i, host) /\ domain_actions[k] = specs[i].proxy
  /\ \A j \in 1 .. i - 1 : ~Names(j, host)
Ordered ==
  /\ domain_patterns \in Seq(SUBSET Host) /\ domain_actions \in Seq(Proxy)
  /\ Len(domain_actions) = Len(domain_patterns)
  /\ \A host \in Host :
       \/ Hits(host) = {} /\ \A i \in 1 .. Len(specs) : ~Names(i, host)
       \/ \E k \in Hits(host), i \in 1 .. Len(specs) : FirstHit(host, k, i)

RulesIInv == Accepted /\ Entries /\ Rooted /\ Decided /\ Ordered

-----------------------------------------------------------------------------
\* Two paths are the same iff they are equally long and agree bit by bit.
LEMMA PathsEqual ==
  ASSUME NEW a, NEW b, NEW n \in Nat, NEW m \in Nat
  PROVE  Path(a, n) = Path(b, m) <=> n = m /\ \A i \in 1 .. n : a[i] = b[i]
<1>1. DOMAIN Path(a, n) = 1 .. n /\ DOMAIN Path(b, m) = 1 .. m
  BY DEF Path
<1>2. 1 .. n = 1 .. m => n = m
  OBVIOUS
<1>3. ASSUME Path(a, n) = Path(b, m) PROVE n = m /\ \A i \in 1 .. n : a[i] = b[i]
  <2>1. n = m
    BY <1>1, <1>2, <1>3
  <2>2. ASSUME NEW i \in 1 .. n PROVE a[i] = b[i]
    <3>1. Path(a, n)[i] = a[i] /\ Path(b, m)[i] = b[i]
      BY <2>1 DEF Path
    <3> QED
      BY <1>3, <3>1
  <2> QED
    BY <2>1, <2>2
<1>4. ASSUME n = m, \A i \in 1 .. n : a[i] = b[i] PROVE Path(a, n) = Path(b, m)
  BY <1>4 DEF Path
<1> QED
  BY <1>3, <1>4

\* A rule covers an address iff its node is on the address's path.
LEMMA CoversNode ==
  ASSUME Accepted, NEW i \in IpRules
  PROVE  /\ i \in 1 .. Len(specs) /\ Prefix(i) \in 0 .. WIDTH
         /\ specs[i].addr \in Addr /\ specs[i].proxy \in Proxy
         /\ \A n \in Nat : \A addr : Node(i) = Path(addr, n) <=> n = Prefix(i) /\ Covers(i, addr)
<1>1. /\ i \in 1 .. Len(specs) /\ specs[i].kind \in {"ip", "cidr"} /\ Valid(specs[i])
      /\ specs[i] \in Spec_Ip \cup Spec_Cidr \cup Spec_Domain \cup Spec_Regex
  BY DEF IpRules, Accepted
<1>2. specs[i] \in Spec_Ip \cup Spec_Cidr
  BY <1>1 DEF Spec_Domain, Spec_Regex
<1>3. specs[i].addr \in Addr /\ specs[i].proxy \in Proxy
  BY <1>2 DEF Spec_Ip, Spec_Cidr
<1>4. Prefix(i) \in 0 .. WIDTH
  BY <1>1, <1>2, RulesAssumption DEF Spec_Ip, Spec_Cidr, Prefix, Valid
<1>5. ASSUME NEW addr, NEW n \in Nat
      PROVE  Node(i) = Path(addr, n) <=> n = Prefix(i) /\ Covers(i, addr)
  <2>1. Prefix(i) \in Nat
    BY <1>4, RulesAssumption
  <2> QED
    BY <2>1, PathsEqual DEF Node, Covers
<1> QED
  BY <1>1, <1>3, <1>4, <1>5

\* One rule more leaves what the others say.
LEMMA RuleAppended ==
  ASSUME Accepted, NEW s \in Spec_Ip \cup Spec_Cidr \cup Spec_Domain \cup Spec_Regex, Valid(s),
         specs' = Append(specs, s)
  PROVE  /\ Accepted' /\ Len(specs) \in Nat /\ Len(specs') = Len(specs) + 1
         /\ specs'[Len(specs) + 1] = s
         /\ \A i \in 1 .. Len(specs) :
              /\ specs'[i] = specs[i]
              /\ Prefix(i)' = Prefix(i) /\ Node(i)' = Node(i)
              /\ \A addr : Covers(i, addr)' <=> Covers(i, addr)
              /\ \A host : Names(i, host)' <=> Names(i, host)
<1> DEFINE S == Spec_Ip \cup Spec_Cidr \cup Spec_Domain \cup Spec_Regex
<1>1. specs \in Seq(S) /\ s \in S
  BY DEF Accepted
<1> HIDE DEF S
<1>2. /\ specs' \in Seq(S) /\ Len(specs) \in Nat /\ Len(specs') = Len(specs) + 1
      /\ specs'[Len(specs) + 1] = s
      /\ \A i \in 1 .. Len(specs) : specs'[i] = specs[i]
  BY <1>1
<1>3. Accepted'
  <2>1. \A i \in 1 .. Len(specs') : Valid(specs'[i])
    <3> SUFFICES ASSUME NEW i \in 1 .. Len(specs') PROVE Valid(specs'[i])
      OBVIOUS
    <3>1. i \in 1 .. Len(specs) \/ i = Len(specs) + 1
      BY <1>2
    <3> QED
      BY <1>2, <3>1, Zenon DEF Accepted
  <2> QED
    BY <1>2, <2>1, Zenon DEF Accepted, Valid, S
<1>4. ASSUME NEW i \in 1 .. Len(specs)
      PROVE  /\ Prefix(i)' = Prefix(i) /\ Node(i)' = Node(i)
             /\ \A addr : Covers(i, addr)' <=> Covers(i, addr)
             /\ \A host : Names(i, host)' <=> Names(i, host)
  <2>1. specs'[i] = specs[i]
    BY <1>2
  <2> QED
    BY <2>1 DEF Prefix, Node, Covers, Names, Path
<1> QED
  BY <1>2, <1>3, <1>4

\* Of the rules for addresses only a new one is added.
LEMMA IpRulesAppended ==
  ASSUME Accepted, NEW s \in Spec_Ip \cup Spec_Cidr \cup Spec_Domain \cup Spec_Regex, Valid(s),
         specs' = Append(specs, s)
  PROVE  /\ IpRules \subseteq 1 .. Len(specs)
         /\ s.kind \in {"ip", "cidr"} => IpRules' = IpRules \cup {Len(specs) + 1}
         /\ s.kind \notin {"ip", "cidr"} => IpRules' = IpRules
<1>1. /\ Len(specs) \in Nat /\ Len(specs') = Len(specs) + 1 /\ specs'[Len(specs) + 1] = s
      /\ \A i \in 1 .. Len(specs) : specs'[i] = specs[i]
  BY RuleAppended
<1>2. 1 .. Len(specs) + 1 = (1 .. Len(specs)) \cup {Len(specs) + 1} /\ Len(specs) + 1 \notin 1 .. Len(specs)
  BY <1>1
<1>3. \A i : i \in IpRules' <=> i \in 1 .. Len(specs') /\ specs'[i].kind \in {"ip", "cidr"}
  BY Zenon DEF IpRules
<1>4. \A i : i \in IpRules <=> i \in 1 .. Len(specs) /\ specs[i].kind \in {"ip", "cidr"}
  BY Zenon DEF IpRules
<1> QED
  BY <1>1, <1>2, <1>3, <1>4

-----------------------------------------------------------------------------
(* A rule for addresses.                                                   *)

\* PrefixTrie::insert, node by node.
LEMMA InsertEffect ==
  ASSUME NEW value, NEW prefix \in Nat, NEW action, cidr' = insert(cidr, value, prefix, action)
  PROVE  /\ \A p : p \in DOMAIN cidr' <=> p \in DOMAIN cidr \/ \E n \in 0 .. prefix : p = Path(value, n)
         /\ Path(value, prefix) \in DOMAIN cidr'
         /\ cidr'[Path(value, prefix)] = Entered(cidr, Path(value, prefix), action)
         /\ \A p \in DOMAIN cidr' : p # Path(value, prefix) =>
              cidr'[p] = IF p \in DOMAIN cidr THEN cidr[p] ELSE NoAction
<1> DEFINE path == {Path(value, n) : n \in 0 .. prefix}
           node == Path(value, prefix)
<1>1. node \in path
  OBVIOUS
<1>2. cidr' = [p \in DOMAIN cidr \cup path |->
             IF p = node THEN Entered(cidr, node, action)
             ELSE IF p \in DOMAIN cidr THEN cidr[p] ELSE NoAction]
  BY DEF insert
<1> HIDE DEF path, node
<1>3. /\ DOMAIN cidr' = DOMAIN cidr \cup path /\ node \in DOMAIN cidr'
      /\ cidr'[node] = Entered(cidr, node, action)
      /\ \A p \in DOMAIN cidr' : p # node => cidr'[p] = IF p \in DOMAIN cidr THEN cidr[p] ELSE NoAction
  BY <1>1, <1>2
<1>4. \A p : p \in path <=> \E n \in 0 .. prefix : p = Path(value, n)
  BY Zenon DEF path
<1>5. \A p : p \in DOMAIN cidr' <=> p \in DOMAIN cidr \/ \E n \in 0 .. prefix : p = Path(value, n)
  BY <1>3, <1>4
<1> QED
  BY <1>3, <1>5, Zenon DEF node

\* A rule for addresses, entered at its node.
Enters(s, n) ==
  /\ s \in Spec_Ip \cup Spec_Cidr /\ Valid(s) /\ specs' = Append(specs, s)
  /\ n = (IF s.kind = "ip" THEN WIDTH ELSE s.prefix)
  /\ cidr' = insert(cidr, s.addr, n, s.proxy)

LEMMA EntersRules ==
  ASSUME Accepted, NEW s, NEW n, Enters(s, n), NEW k, k = Len(specs) + 1
  PROVE  /\ IpRules' = IpRules \cup {k} /\ n \in 0 .. WIDTH /\ s.addr \in Addr /\ s.proxy \in Proxy
         /\ k \in Nat /\ k \notin IpRules /\ \A i \in IpRules : i \in Nat /\ i < k
         /\ specs'[k].proxy = s.proxy /\ Prefix(k)' = n /\ Node(k)' = Path(s.addr, n)
         /\ \A addr : Covers(k, addr)' <=> \A b \in 1 .. n : s.addr[b] = addr[b]
         /\ \A i \in IpRules : /\ specs'[i] = specs[i] /\ Prefix(i)' = Prefix(i) /\ Node(i)' = Node(i)
                               /\ \A addr : Covers(i, addr)' <=> Covers(i, addr)
<1>1. s \in Spec_Ip \cup Spec_Cidr /\ Valid(s) /\ specs' = Append(specs, s)
  BY DEF Enters
<1>2. s.addr \in Addr /\ s.proxy \in Proxy /\ s.kind \in {"ip", "cidr"}
  BY <1>1 DEF Spec_Ip, Spec_Cidr
<1>3. n \in 0 .. WIDTH
  BY <1>1, RulesAssumption DEF Enters, Spec_Ip, Spec_Cidr, Valid
<1>4. IpRules' = IpRules \cup {k} /\ IpRules \subseteq 1 .. Len(specs)
  BY <1>1, <1>2, IpRulesAppended
<1>5. /\ Len(specs) \in Nat /\ specs'[k] = s
      /\ \A i \in 1 .. Len(specs) :
              /\ specs'[i] = specs[i]
              /\ Prefix(i)' = Prefix(i) /\ Node(i)' = Node(i)
              /\ \A addr : Covers(i, addr)' <=> Covers(i, addr)
  BY <1>1, RuleAppended
<1>6. k \in Nat /\ k \notin IpRules /\ \A i \in IpRules : i \in Nat /\ i < k
  BY <1>4, <1>5
<1>7. specs'[k].proxy = s.proxy /\ Prefix(k)' = n
  BY <1>5 DEF Prefix, Enters
<1>8. /\ Node(k)' = Path(s.addr, n)
      /\ \A addr : Covers(k, addr)' <=> \A b \in 1 .. n : s.addr[b] = addr[b]
  BY <1>5, <1>7 DEF Node, Path, Covers
<1> QED
  BY <1>2, <1>3, <1>4, <1>5, <1>6, <1>7, <1>8, Zenon

\* PrefixTrie::insert keeps the first action of a node and makes the way to it.
LEMMA EntersEntries ==
  ASSUME Accepted, Entries, NEW s, NEW n, Enters(s, n)
  PROVE  Entries'
<1>k. PICK k, node : k = Len(specs) + 1 /\ node = Path(s.addr, n)
  OBVIOUS
<1>1. /\ IpRules' = IpRules \cup {k} /\ n \in 0 .. WIDTH /\ s.proxy \in Proxy
      /\ k \in Nat /\ k \notin IpRules /\ \A i \in IpRules : i \in Nat /\ i < k
      /\ specs'[k].proxy = s.proxy /\ Node(k)' = node
      /\ \A i \in IpRules : specs'[i] = specs[i] /\ Node(i)' = Node(i)
  BY <1>k, EntersRules, Zenon
<1>2. /\ n \in Nat /\ cidr' = insert(cidr, s.addr, n, s.proxy)
      /\ \A i \in IpRules : i <= k
  BY <1>1, RulesAssumption DEF Enters
<1>3. /\ DOMAIN cidr \subseteq DOMAIN cidr' /\ node \in DOMAIN cidr'
      /\ cidr'[node] = Entered(cidr, node, s.proxy)
      /\ \A p \in DOMAIN cidr' : p # node =>
           cidr'[p] = IF p \in DOMAIN cidr THEN cidr[p] ELSE NoAction
  <2>1. /\ \A p : p \in DOMAIN cidr' <=> p \in DOMAIN cidr \/ \E q \in 0 .. n : p = Path(s.addr, q)
        /\ Path(s.addr, n) \in DOMAIN cidr'
        /\ cidr'[Path(s.addr, n)] = Entered(cidr, Path(s.addr, n), s.proxy)
        /\ \A p \in DOMAIN cidr' : p # Path(s.addr, n) =>
             cidr'[p] = IF p \in DOMAIN cidr THEN cidr[p] ELSE NoAction
    BY <1>2, InsertEffect, Zenon
  <2> QED
    BY <1>k, <2>1, Zenon
<1>4. cidr'[node] # NoAction
  BY <1>1, <1>3, RulesAssumption DEF Entered
<1>5. ASSUME NEW i \in IpRules' PROVE Node(i)' \in DOMAIN cidr' /\ cidr'[Node(i)'] # NoAction
  <2>1. CASE i = k
    BY <1>1, <1>3, <1>4, <2>1
  <2>2. CASE i \in IpRules
    <3>1. Node(i)' = Node(i) /\ Node(i) \in DOMAIN cidr /\ cidr[Node(i)] # NoAction
      BY <1>1, <2>2 DEF Entries
    <3> QED
      BY <1>3, <1>4, <3>1
  <2> QED
    BY <1>1, <2>1, <2>2
<1>6. ASSUME NEW p \in DOMAIN cidr', cidr'[p] # NoAction
      PROVE  \E i \in IpRules' : /\ p = Node(i)' /\ cidr'[p] = specs'[i].proxy
                                 /\ \A j \in IpRules' : p = Node(j)' => i <= j
  <2>1. CASE p \in DOMAIN cidr /\ cidr[p] # NoAction
    <3>1. cidr'[p] = cidr[p]
      BY <1>3, <2>1 DEF Entered
    <3>2. PICK i \in IpRules : /\ p = Node(i) /\ cidr[p] = specs[i].proxy
                               /\ \A j \in IpRules : p = Node(j) => i <= j
      BY <2>1 DEF Entries
    <3>3. p = Node(i)' /\ cidr'[p] = specs'[i].proxy /\ i \in IpRules'
      BY <1>1, <3>1, <3>2
    <3>4. ASSUME NEW j \in IpRules', p = Node(j)' PROVE i <= j
      <4>1. CASE j = k
        BY <1>2, <4>1
      <4>2. CASE j \in IpRules
        BY <1>1, <3>2, <3>4, <4>2
      <4> QED
        BY <1>1, <4>1, <4>2
    <3> QED
      BY <3>3, <3>4
  <2>2. CASE ~(p \in DOMAIN cidr /\ cidr[p] # NoAction)
    <3>1. p = node
      BY <1>3, <1>6, <2>2
    <3>2. cidr'[p] = s.proxy
      BY <1>3, <2>2, <3>1 DEF Entered
    <3>3. \A j \in IpRules : p # Node(j)
      BY <2>2 DEF Entries
    <3>4. ASSUME NEW j \in IpRules', p = Node(j)' PROVE k <= j
      <4>1. j = k
        BY <1>1, <3>3, <3>4
      <4> QED
        BY <1>1, <4>1
    <3>5. k \in IpRules' /\ p = Node(k)' /\ cidr'[p] = specs'[k].proxy
      BY <1>1, <3>1, <3>2
    <3> QED
      BY <3>4, <3>5
  <2> QED
    BY <2>1, <2>2
<1> QED
  BY <1>5, <1>6, Zenon DEF Entries, Node, Path, Prefix, IpRules, NoAction

LEMMA EntersRooted ==
  ASSUME Accepted, Rooted, NEW s, NEW n, Enters(s, n)
  PROVE  Rooted'
<1>1. n \in 0 .. WIDTH
  BY EntersRules, Zenon
<1>2. n \in Nat /\ WIDTH \in Nat /\ cidr' = insert(cidr, s.addr, n, s.proxy)
  BY <1>1, RulesAssumption DEF Enters
<1>3. \A p : p \in DOMAIN cidr' <=> p \in DOMAIN cidr \/ \E q \in 0 .. n : p = Path(s.addr, q)
  BY <1>2, InsertEffect, Zenon
<1>4. ASSUME NEW addr \in Addr, NEW l \in 0 .. WIDTH, Path(addr, l) \in DOMAIN cidr',
             NEW m \in 0 .. l
      PROVE  Path(addr, m) \in DOMAIN cidr'
  <2>1. CASE Path(addr, l) \in DOMAIN cidr
    BY <1>3, <2>1, Zenon DEF Rooted
  <2>2. ASSUME NEW q \in 0 .. n, Path(addr, l) = Path(s.addr, q)
        PROVE  Path(addr, m) \in DOMAIN cidr'
    <3>2. l \in Nat /\ q \in Nat /\ m \in Nat
      BY <1>2
    <3>3. l = q /\ \A i \in 1 .. l : addr[i] = s.addr[i]
      BY <2>2, <3>2, PathsEqual
    <3>4. m \in 0 .. n /\ \A i \in 1 .. m : addr[i] = s.addr[i]
      BY <1>2, <3>2, <3>3
    <3>5. Path(addr, m) = Path(s.addr, m)
      BY <3>2, <3>4, PathsEqual
    <3> QED
      BY <1>3, <3>4, <3>5
  <2> QED
    BY <1>3, <1>4, <2>1, <2>2
<1> QED
  BY <1>4, Zenon DEF Rooted, Path

\* Of the new rule and the one that won, the longer wins.
LEMMA EntersDecided ==
  ASSUME Accepted, Decided, NEW s, NEW n, Enters(s, n)
  PROVE  Decided'
<1>k. PICK k : k = Len(specs) + 1
  OBVIOUS
<1>1. /\ IpRules' = IpRules \cup {k} /\ n \in 0 .. WIDTH /\ Prefix(k)' = n
      /\ k \in Nat /\ \A i \in IpRules : i \in Nat /\ i < k
      /\ \A i \in IpRules : /\ Prefix(i)' = Prefix(i)
                            /\ \A addr : Covers(i, addr)' <=> Covers(i, addr)
  BY <1>k, EntersRules, Zenon
<1>2. /\ n \in Nat /\ \A i \in IpRules : Prefix(i) \in Nat
  <2>1. \A i \in IpRules : Prefix(i) \in 0 .. WIDTH
    BY CoversNode
  <2> QED
    BY <1>1, <2>1, RulesAssumption
<1> DEFINE Beats(i, j) == Prefix(j) < Prefix(i) \/ (Prefix(j) = Prefix(i) /\ i <= j)
<1>3. ASSUME NEW addr \in Addr
      PROVE  \/ \A i \in IpRules' : ~Covers(i, addr)'
             \/ \E i \in IpRules' : Wins(i, addr)'
  <2>1. CASE ~Covers(k, addr)' /\ \A i \in IpRules : ~Covers(i, addr)
    BY <1>1, <2>1, Zenon
  <2>2. CASE Covers(k, addr)' /\ \A i \in IpRules : ~Covers(i, addr)
    <3>1. \A j \in IpRules' : Covers(j, addr)' => j = k
      BY <1>1, <2>2, Zenon
    <3>2. k <= k /\ k \in IpRules'
      BY <1>1
    <3> QED
      BY <2>2, <3>1, <3>2, Zenon DEF Wins, Covers, IpRules, Prefix
  <2>3. CASE \E i \in IpRules : Wins(i, addr)
    <3>1. PICK i \in IpRules : Wins(i, addr)
      BY <2>3
    <3>2. Covers(i, addr) /\ \A j \in IpRules : Covers(j, addr) => Beats(i, j)
      BY <3>1, Zenon DEF Wins
    <3>3. CASE Covers(k, addr)' /\ Prefix(i) < n
      <4>1. ASSUME NEW j \in IpRules', Covers(j, addr)' PROVE Beats(k, j)'
        <5>1. CASE j = k
          BY <1>1, <1>2, <5>1
        <5>2. CASE j \in IpRules
          <6>1. Beats(i, j)
            BY <1>1, <3>2, <4>1, <5>2
          <6>2. Prefix(j)' = Prefix(j) /\ Prefix(j) \in Nat /\ Prefix(i) \in Nat
            BY <1>1, <1>2, <5>2
          <6> QED
            BY <1>1, <1>2, <3>3, <6>1, <6>2
        <5> QED
          BY <1>1, <5>1, <5>2
      <4> QED
        BY <1>1, <3>3, <4>1 DEF Wins
    <3>4. CASE ~(Covers(k, addr)' /\ Prefix(i) < n)
      <4>1. ASSUME NEW j \in IpRules', Covers(j, addr)' PROVE Beats(i, j)'
        <5>1. CASE j = k
          <6>1. Prefix(i)' = Prefix(i) /\ Prefix(i) \in Nat /\ ~(Prefix(i) < n) /\ i \in Nat /\ i < k
            BY <1>1, <1>2, <3>4, <4>1, <5>1
          <6> QED
            BY <1>1, <1>2, <5>1, <6>1
        <5>2. CASE j \in IpRules
          BY <1>1, <3>2, <4>1, <5>2
        <5> QED
          BY <1>1, <5>1, <5>2
      <4>2. i \in IpRules' /\ Covers(i, addr)'
        BY <1>1, <3>2
      <4> QED
        BY <4>1, <4>2 DEF Wins
    <3> QED
      BY <3>3, <3>4
  <2> QED
    BY <2>1, <2>2, <2>3, Zenon DEF Decided
<1> QED
  BY <1>3, Zenon DEF Decided, Addr

-----------------------------------------------------------------------------
(* A rule for names.                                                       *)

\* It leaves the trie.
LEMMA NamesKeepsTrie ==
  ASSUME Accepted, Entries, Rooted, Decided, NEW s \in Spec_Domain \cup Spec_Regex, Valid(s),
         specs' = Append(specs, s), cidr' = cidr
  PROVE  Entries' /\ Rooted' /\ Decided'
<1>1. s.kind \notin {"ip", "cidr"}
  BY DEF Spec_Domain, Spec_Regex
<1>2. IpRules' = IpRules /\ IpRules \subseteq 1 .. Len(specs)
  BY <1>1, IpRulesAppended
<1>3. \A i \in IpRules : /\ specs'[i] = specs[i] /\ Prefix(i)' = Prefix(i) /\ Node(i)' = Node(i)
                         /\ \A addr : Covers(i, addr)' <=> Covers(i, addr)
  BY <1>2, RuleAppended
<1>4. Entries'
  <2>1. \A i \in IpRules' : Node(i)' \in DOMAIN cidr' /\ cidr'[Node(i)'] # NoAction
    BY <1>2, <1>3, Zenon DEF Entries
  <2>2. ASSUME NEW p \in DOMAIN cidr', cidr'[p] # NoAction
        PROVE  \E i \in IpRules' : /\ p = Node(i)' /\ cidr'[p] = specs'[i].proxy
                                   /\ \A j \in IpRules' : p = Node(j)' => i <= j
    <3>1. PICK i \in IpRules : /\ p = Node(i) /\ cidr[p] = specs[i].proxy
                               /\ \A j \in IpRules : p = Node(j) => i <= j
      BY <2>2, Zenon DEF Entries
    <3>2. p = Node(i)' /\ cidr'[p] = specs'[i].proxy /\ i \in IpRules'
      BY <1>2, <1>3, <3>1
    <3> QED
      BY <1>2, <1>3, <3>1, <3>2, Zenon
  <2> QED
    BY <2>1, <2>2, Zenon DEF Entries
<1>5. Rooted'
  BY Zenon DEF Rooted
<1>6. ASSUME NEW addr \in Addr, NEW i \in IpRules, Wins(i, addr) PROVE Wins(i, addr)'
  BY <1>2, <1>3, <1>6, Zenon DEF Wins
<1>7. Decided'
  BY <1>2, <1>3, <1>6, Zenon DEF Decided
<1> QED
  BY <1>4, <1>5, <1>7

\* A rule for addresses names no host and leaves the patterns.
LEMMA OrderedKept ==
  ASSUME Accepted, Ordered, NEW s \in Spec_Ip \cup Spec_Cidr, Valid(s), specs' = Append(specs, s),
         UNCHANGED <<domain_patterns, domain_actions>>
  PROVE  Ordered'
<1>1. s.kind \notin {"domain", "regex"}
  BY DEF Spec_Ip, Spec_Cidr
<1>2. /\ Len(specs) \in Nat /\ Len(specs') = Len(specs) + 1 /\ specs'[Len(specs) + 1] = s
      /\ \A i \in 1 .. Len(specs) : /\ specs'[i] = specs[i]
                                    /\ \A host : Names(i, host)' <=> Names(i, host)
  BY RuleAppended
<1>3. ASSUME NEW host \in Host
      PROVE  \/ Hits(host)' = {} /\ \A i \in 1 .. Len(specs') : ~Names(i, host)'
             \/ \E k \in Hits(host)', i \in 1 .. Len(specs') : FirstHit(host, k, i)'
  <2>1. Hits(host)' = Hits(host)
    BY DEF Hits
  <2>2. CASE Hits(host) = {} /\ \A i \in 1 .. Len(specs) : ~Names(i, host)
    <3>1. ASSUME NEW i \in 1 .. Len(specs') PROVE ~Names(i, host)'
      <4>1. CASE i \in 1 .. Len(specs)
        BY <1>2, <2>2, <4>1
      <4>2. CASE i = Len(specs) + 1
        <5>1. specs'[i] = s
          BY <1>2, <4>2
        <5> QED
          BY <1>1, <5>1 DEF Names
      <4> QED
        BY <1>2, <4>1, <4>2
    <3> QED
      BY <2>1, <2>2, <3>1
  <2>3. CASE \E k \in Hits(host), i \in 1 .. Len(specs) : FirstHit(host, k, i)
    <3>1. PICK k \in Hits(host), i \in 1 .. Len(specs) : FirstHit(host, k, i)
      BY <2>3
    <3>2. i \in 1 .. Len(specs') /\ \A j \in 1 .. i - 1 : j \in 1 .. Len(specs)
      BY <1>2
    <3>3. FirstHit(host, k, i)'
      BY <1>2, <2>1, <3>1, <3>2, Zenon DEF FirstHit
    <3> QED
      BY <2>1, <3>2, <3>3, Zenon
  <2> QED
    BY <2>2, <2>3, Zenon DEF Ordered
<1>4. /\ domain_patterns' \in Seq(SUBSET Host) /\ domain_actions' \in Seq(Proxy)
      /\ Len(domain_actions') = Len(domain_patterns')
  BY DEF Ordered
<1> QED
  BY <1>3, <1>4, Zenon DEF Ordered

\* The pattern of a rule for names comes after those of the rules before it.
LEMMA OrderedGrows ==
  ASSUME Accepted, Ordered, NEW s \in Spec_Domain \cup Spec_Regex, Valid(s), specs' = Append(specs, s),
         NEW P \in SUBSET Host, domain_patterns' = Append(domain_patterns, P),
         domain_actions' = Append(domain_actions, s.proxy),
         \A h \in Host : h \in P <=> \/ s.kind = "domain" /\ fold[h] = fold[s.host]
                                     \/ s.kind = "regex" /\ h \in s.matches
  PROVE  Ordered'
<1>1. PICK n, l : n = Len(specs) + 1 /\ l = Len(domain_patterns) + 1
  OBVIOUS
<1>2. /\ Len(specs) \in Nat /\ Len(specs') = n /\ specs'[n] = s /\ n \in Nat
      /\ \A i \in 1 .. Len(specs) : /\ specs'[i] = specs[i]
                                    /\ \A host : Names(i, host)' <=> Names(i, host)
  BY <1>1, RuleAppended
<1>3. s.proxy \in Proxy
  BY DEF Spec_Domain, Spec_Regex
<1>4. /\ domain_patterns \in Seq(SUBSET Host) /\ domain_actions \in Seq(Proxy)
      /\ Len(domain_actions) = Len(domain_patterns)
  BY DEF Ordered
<1>5. /\ domain_patterns' \in Seq(SUBSET Host) /\ Len(domain_patterns') = l
      /\ domain_patterns'[l] = P /\ l \in Nat /\ Len(domain_patterns) \in Nat
      /\ \A k \in 1 .. Len(domain_patterns) : domain_patterns'[k] = domain_patterns[k]
  BY <1>1, <1>4
<1>6. /\ domain_actions' \in Seq(Proxy) /\ Len(domain_actions') = l /\ domain_actions'[l] = s.proxy
      /\ \A k \in 1 .. Len(domain_patterns) : domain_actions'[k] = domain_actions[k]
  BY <1>1, <1>3, <1>4
<1>7. /\ \A i : i \in 1 .. n <=> i \in 1 .. Len(specs) \/ i = n
      /\ \A k : k \in 1 .. l <=> k \in 1 .. Len(domain_patterns) \/ k = l
      /\ 1 .. n - 1 = 1 .. Len(specs) /\ l <= l
      /\ \A k \in 1 .. Len(domain_patterns) : k <= l
      /\ \A i \in 1 .. Len(specs) : \A j \in 1 .. i - 1 : j \in 1 .. Len(specs)
  BY <1>1, <1>2, <1>5
<1>8. ASSUME NEW host \in Host
      PROVE  \/ Hits(host)' = {} /\ \A i \in 1 .. Len(specs') : ~Names(i, host)'
             \/ \E k \in Hits(host)', i \in 1 .. Len(specs') : FirstHit(host, k, i)'
  <2>1. \A k : k \in Hits(host) <=> k \in 1 .. Len(domain_patterns) /\ host \in domain_patterns[k]
    BY Zenon DEF Hits
  <2>2. \A k : k \in Hits(host)' <=> k \in 1 .. Len(domain_patterns') /\ host \in domain_patterns'[k]
    BY Zenon DEF Hits
  <2>3. \A k : k \in Hits(host)' <=> k \in Hits(host) \/ (k = l /\ host \in P)
    BY <1>5, <1>7, <2>1, <2>2, Zenon
  <2>4. Names(n, host)' <=> host \in P
    <3>1. specs'[n] = s
      BY <1>2
    <3> QED
      BY <3>1 DEF Names
  <2>5. CASE Hits(host) = {} /\ \A i \in 1 .. Len(specs) : ~Names(i, host)
    <3>1. CASE host \in P
      <4>1. l \in Hits(host)' /\ \A j \in Hits(host)' : l <= j
        BY <1>7, <2>3, <2>5, <3>1, Zenon
      <4>2. Names(n, host)' /\ domain_actions'[l] = specs'[n].proxy
        BY <1>2, <1>6, <2>4, <3>1, Zenon
      <4>3. \A j \in 1 .. n - 1 : ~Names(j, host)'
        BY <1>2, <1>7, <2>5, Zenon
      <4>4. FirstHit(host, l, n)' /\ n \in 1 .. Len(specs')
        BY <1>2, <1>7, <4>1, <4>2, <4>3, Zenon DEF FirstHit
      <4> QED
        BY <4>1, <4>4, Zenon
    <3>2. CASE host \notin P
      <4>1. Hits(host)' = {}
        BY <2>3, <2>5, <3>2, Zenon
      <4>2. \A i \in 1 .. Len(specs') : ~Names(i, host)'
        BY <1>2, <1>7, <2>4, <2>5, <3>2, Zenon
      <4> QED
        BY <4>1, <4>2
    <3> QED
      BY <3>1, <3>2
  <2>6. CASE \E k \in Hits(host), i \in 1 .. Len(specs) : FirstHit(host, k, i)
    <3>1. PICK k \in Hits(host), i \in 1 .. Len(specs) : FirstHit(host, k, i)
      BY <2>6
    <3>2. k \in Hits(host)' /\ k \in 1 .. Len(domain_patterns) /\ i \in 1 .. Len(specs')
      BY <1>2, <1>7, <2>1, <2>3, <3>1, Zenon
    <3>3. \A j \in Hits(host)' : k <= j
      <4>1. \A j \in Hits(host) : k <= j
        BY <3>1, Zenon DEF FirstHit
      <4> QED
        BY <1>7, <2>3, <3>2, <4>1, Zenon
    <3>4. /\ Names(i, host)' /\ domain_actions'[k] = specs'[i].proxy
          /\ \A j \in 1 .. i - 1 : ~Names(j, host)'
      BY <1>2, <1>6, <1>7, <3>1, <3>2, Zenon DEF FirstHit
    <3>5. FirstHit(host, k, i)'
      BY <3>3, <3>4, Zenon DEF FirstHit
    <3> QED
      BY <3>2, <3>5, Zenon
  <2> QED
    BY <2>5, <2>6, Zenon DEF Ordered
<1>9. /\ domain_patterns' \in Seq(SUBSET Host) /\ domain_actions' \in Seq(Proxy)
      /\ Len(domain_actions') = Len(domain_patterns')
  BY <1>5, <1>6
<1> QED
  BY <1>8, <1>9, Zenon DEF Ordered

-----------------------------------------------------------------------------
(* The invariant.                                                          *)

LEMMA RulesInitIInv ==
  ASSUME RulesInit
  PROVE  RulesIInv
<1>1. /\ specs = <<>> /\ Len(specs) = 0 /\ 1 .. Len(specs) = {}
      /\ cidr = [p \in {<<>>} |-> NoAction]
      /\ domain_patterns = <<>> /\ domain_actions = <<>>
  BY DEF RulesInit
<1>2. Accepted
  <2>1. specs \in Seq(Spec_Ip \cup Spec_Cidr \cup Spec_Domain \cup Spec_Regex)
    BY <1>1
  <2> QED
    BY <1>1, <2>1, Zenon DEF Accepted
<1>3. IpRules = {}
  BY <1>1 DEF IpRules
<1>4. DOMAIN cidr = {<<>>} /\ \A p \in DOMAIN cidr : cidr[p] = NoAction
  BY <1>1
<1>5. Entries /\ Decided
  BY <1>3, <1>4, Zenon DEF Entries, Decided
<1>6. ASSUME NEW addr \in Addr, NEW n \in 0 .. WIDTH, Path(addr, n) \in DOMAIN cidr, NEW m \in 0 .. n
      PROVE  Path(addr, m) \in DOMAIN cidr
  <2>1. n \in Nat /\ m \in Nat
    BY RulesAssumption
  <2>2. DOMAIN Path(addr, n) = 1 .. n /\ Path(addr, n) = <<>> /\ DOMAIN <<>> = {}
    BY <1>4, <1>6 DEF Path
  <2>3. n = 0 /\ m = n
    <3>1. 1 .. n = {}
      BY <2>2
    <3>2. n >= 1 => 1 \in 1 .. n
      BY <2>1
    <3> QED
      BY <2>1, <3>1, <3>2
  <2> QED
    BY <1>6, <2>3
<1>7. Rooted
  BY <1>6, Zenon DEF Rooted
<1>8. Ordered
  <2>1. /\ domain_patterns \in Seq(SUBSET Host) /\ domain_actions \in Seq(Proxy)
        /\ Len(domain_patterns) = 0 /\ Len(domain_actions) = 0
    BY <1>1
  <2>2. \A host : Hits(host) = {}
    BY <2>1 DEF Hits
  <2> QED
    BY <1>1, <2>1, <2>2, Zenon DEF Ordered
<1> QED
  BY <1>2, <1>5, <1>7, <1>8 DEF RulesIInv

\* from_specs, one rule.
LEMMA TakeKeepsIInv ==
  ASSUME RulesIInv,
         NEW s \in Spec_Ip \cup Spec_Cidr \cup Spec_Domain \cup Spec_Regex, Take(s)
  PROVE  RulesIInv'
<1>1. Valid(s) /\ specs' = Append(specs, s)
  BY DEF Take
<1>2. Accepted /\ Entries /\ Rooted /\ Decided /\ Ordered
  BY DEF RulesIInv
<1>3. Accepted'
  BY <1>1, <1>2, RuleAppended
<1>4. ASSUME NEW n, s.kind \in {"ip", "cidr"}, n = (IF s.kind = "ip" THEN WIDTH ELSE s.prefix),
             cidr' = insert(cidr, s.addr, n, s.proxy), UNCHANGED <<domain_patterns, domain_actions>>
      PROVE  RulesIInv'
  <2>1. s \in Spec_Ip \cup Spec_Cidr
    BY <1>4 DEF Spec_Domain, Spec_Regex
  <2>2. Enters(s, n)
    BY <1>1, <1>4, <2>1 DEF Enters
  <2>3. Entries' /\ Rooted' /\ Decided'
    BY <1>2, <2>2, EntersEntries, EntersRooted, EntersDecided
  <2>4. Ordered'
    BY <1>1, <1>2, <1>4, <2>1, OrderedKept
  <2> QED
    BY <1>3, <2>3, <2>4 DEF RulesIInv
<1>5. ASSUME NEW P \in SUBSET Host, s.kind \in {"domain", "regex"}, cidr' = cidr,
             domain_patterns' = Append(domain_patterns, P),
             domain_actions' = Append(domain_actions, s.proxy),
             \A h \in Host : h \in P <=> \/ s.kind = "domain" /\ fold[h] = fold[s.host]
                                         \/ s.kind = "regex" /\ h \in s.matches
      PROVE  RulesIInv'
  <2>1. s \in Spec_Domain \cup Spec_Regex
    BY <1>5 DEF Spec_Ip, Spec_Cidr
  <2>2. Entries' /\ Rooted' /\ Decided'
    BY <1>1, <1>2, <1>5, <2>1, NamesKeepsTrie
  <2>3. Ordered'
    BY <1>1, <1>2, <1>5, <2>1, OrderedGrows
  <2> QED
    BY <1>3, <2>2, <2>3 DEF RulesIInv
<1>6. CASE TakeIp(s)
  BY <1>4, <1>6 DEF TakeIp
<1>7. CASE TakeCidr(s)
  BY <1>4, <1>7 DEF TakeCidr
<1>8. CASE TakeDomain(s)
  <2>1. PICK P : P = {h \in Host : fold[h] = fold[s.host]}
    OBVIOUS
  <2>2. P \in SUBSET Host /\ \A h \in Host : h \in P <=> fold[h] = fold[s.host]
    BY <2>1
  <2>3. /\ s.kind = "domain" /\ domain_patterns' = Append(domain_patterns, P)
        /\ domain_actions' = Append(domain_actions, s.proxy) /\ cidr' = cidr
    BY <1>8, <2>1, Zenon DEF TakeDomain
  <2> QED
    BY <1>5, <2>2, <2>3
<1>9. CASE TakeRegex(s)
  <2>1. s.kind = "regex" /\ s.matches \in SUBSET Host
    BY <1>9 DEF TakeRegex, Spec_Ip, Spec_Cidr, Spec_Domain, Spec_Regex
  <2> QED
    BY <1>5, <1>9, <2>1 DEF TakeRegex
<1> QED
  BY <1>6, <1>7, <1>8, <1>9 DEF Take

LEMMA RulesNextIInv ==
  ASSUME RulesIInv, [RulesNext]_rulesVars
  PROVE  RulesIInv'
<1>1. ASSUME NEW s \in Spec_Ip \cup Spec_Cidr \cup Spec_Domain \cup Spec_Regex, Take(s)
      PROVE  RulesIInv'
  BY <1>1, TakeKeepsIInv
<1>2. ASSUME UNCHANGED <<specs, cidr, domain_patterns, domain_actions>>
      PROVE  RulesIInv'
  <2>1. Accepted' /\ Rooted'
    BY <1>2, Zenon DEF RulesIInv, Accepted, Rooted
  <2>2. /\ IpRules' = IpRules /\ specs' = specs /\ cidr' = cidr
        /\ \A i : Node(i)' = Node(i) /\ \A addr : Covers(i, addr)' <=> Covers(i, addr)
        /\ \A i, addr : Wins(i, addr)' <=> Wins(i, addr)
    <3>1. specs' = specs /\ cidr' = cidr
      BY <1>2
    <3> QED
      BY <3>1 DEF IpRules, Node, Path, Prefix, Covers, Wins
  <2>3. Entries' /\ Decided'
    BY <2>2, Zenon DEF RulesIInv, Entries, Decided
  <2>4. /\ \A host : Hits(host)' = Hits(host)
        /\ \A host, k, i : FirstHit(host, k, i)' <=> FirstHit(host, k, i)
        /\ \A host, i : Names(i, host)' <=> Names(i, host)
    <3>1. specs' = specs /\ domain_patterns' = domain_patterns /\ domain_actions' = domain_actions
      BY <1>2
    <3>2. \A host : Hits(host)' = Hits(host)
      BY <3>1 DEF Hits
    <3>3. \A host, i : Names(i, host)' <=> Names(i, host)
      BY <3>1 DEF Names
    <3>4. \A host, k, i : FirstHit(host, k, i)' <=> FirstHit(host, k, i)
      BY <3>1, <3>2, <3>3 DEF FirstHit
    <3> QED
      BY <3>2, <3>3, <3>4
  <2>5. Ordered'
    BY <1>2, <2>4, Zenon DEF RulesIInv, Ordered
  <2> QED
    BY <2>1, <2>3, <2>5 DEF RulesIInv
<1>3. CASE \E s : Reject(s)
  BY <1>2, <1>3 DEF Reject
<1>4. CASE Build
  BY <1>2, <1>4 DEF Build
<1>5. CASE UNCHANGED rulesVars
  BY <1>2, <1>5 DEF rulesVars
<1> QED
  BY <1>1, <1>3, <1>4, <1>5, Zenon DEF RulesNext

-----------------------------------------------------------------------------
(* What the rules decide.                                                  *)

\* PrefixTrie::get sees an action at n bits iff a rule of n bits covers the address.
LEMMA SeenAreCovering ==
  ASSUME RulesIInv, NEW addr \in Addr, NEW n
  PROVE  n \in Seen(cidr, addr) <=> \E i \in IpRules : Covers(i, addr) /\ n = Prefix(i)
<1>1. Accepted /\ Entries /\ Rooted
  BY DEF RulesIInv
<1>2. n \in Seen(cidr, addr) <=> /\ n \in 0 .. WIDTH /\ cidr[Path(addr, n)] # NoAction
                                 /\ \A m \in 0 .. n : Path(addr, m) \in DOMAIN cidr
  BY Zenon DEF Seen, Reached
<1>3. ASSUME n \in Seen(cidr, addr)
      PROVE  \E i \in IpRules : Covers(i, addr) /\ n = Prefix(i)
  <2>1. n \in Nat /\ n \in 0 .. n /\ cidr[Path(addr, n)] # NoAction
    BY <1>2, <1>3, RulesAssumption
  <2>2. PICK i \in IpRules : Path(addr, n) = Node(i)
    BY <1>1, <1>2, <1>3, <2>1, Zenon DEF Entries
  <2> QED
    BY <1>1, <2>1, <2>2, CoversNode
<1>4. ASSUME NEW i \in IpRules, Covers(i, addr), n = Prefix(i)
      PROVE  n \in Seen(cidr, addr)
  <2>1. n \in 0 .. WIDTH /\ n \in Nat
    BY <1>1, <1>4, CoversNode, RulesAssumption
  <2>2. Node(i) = Path(addr, n)
    BY <1>1, <1>4, <2>1, CoversNode
  <2>3. Path(addr, n) \in DOMAIN cidr /\ cidr[Path(addr, n)] # NoAction
    BY <1>1, <2>2 DEF Entries
  <2> QED
    BY <1>1, <1>2, <2>1, <2>3, Zenon DEF Rooted
<1> QED
  BY <1>3, <1>4

\* The longest prefix wins, and of rules for one network the first.
LEMMA LongestWins ==
  ASSUME RulesIInv
  PROVE  LongestPrefixWins
<1>1. Accepted /\ Entries /\ Decided
  BY DEF RulesIInv
<1>2. ASSUME NEW addr \in Addr, \A i \in IpRules : ~Covers(i, addr)
      PROVE  proxy_for_ip(addr) = DEFAULT
  <2>1. Seen(cidr, addr) = {}
    BY <1>2, SeenAreCovering
  <2> QED
    BY <2>1 DEF proxy_for_ip, OrDefault, match_ip, get
<1>3. ASSUME NEW addr \in Addr, NEW i \in IpRules, Wins(i, addr)
      PROVE  i \in 1 .. Len(specs) /\ proxy_for_ip(addr) = specs[i].proxy
  <2> DEFINE S == Seen(cidr, addr)
             n == Prefix(i)
  <2>1. i \in 1 .. Len(specs) /\ Covers(i, addr) /\ n \in Nat /\ specs[i].proxy \in Proxy
    BY <1>1, <1>3, CoversNode, RulesAssumption DEF Wins
  <2>2. n \in S
    BY <2>1, SeenAreCovering
  <2>3. ASSUME NEW m \in S PROVE m <= n /\ m \in Nat
    <3>1. PICK j \in IpRules : Covers(j, addr) /\ m = Prefix(j)
      BY <2>3, SeenAreCovering
    <3>2. m \in Nat
      BY <1>1, <3>1, CoversNode, RulesAssumption
    <3>3. m < n \/ m = n
      BY <1>3, <3>1 DEF Wins
    <3> QED
      BY <2>1, <3>2, <3>3
  <2>4. Node(i) = Path(addr, n)
    BY <1>1, <2>1, CoversNode
  <2>5. Node(i) \in DOMAIN cidr /\ cidr[Node(i)] # NoAction
    BY <1>1, Zenon DEF Entries
  <2>6. PICK j \in IpRules : /\ Node(i) = Node(j) /\ cidr[Node(i)] = specs[j].proxy
                             /\ \A l \in IpRules : Node(i) = Node(l) => j <= l
    BY <1>1, <2>5, Zenon DEF Entries
  <2>7. Covers(j, addr) /\ Prefix(j) = n /\ j <= i
    BY <1>1, <2>1, <2>4, <2>6, CoversNode
  <2>8. i <= j
    <3>1. ~(n < n)
      BY <2>1
    <3> QED
      BY <1>3, <2>7, <3>1 DEF Wins
  <2>9. cidr[Path(addr, n)] = specs[i].proxy
    <3>1. i \in Nat /\ j \in Nat
      BY <1>1, CoversNode
    <3>2. i = j
      BY <2>7, <2>8, <3>1
    <3> QED
      BY <2>4, <2>6, <3>2
  <2> HIDE DEF S, n
  <2>10. (CHOOSE m \in S : \A l \in S : l <= m) = n
    <3>1. \A l \in S : l <= n
      BY <2>3
    <3>2. ASSUME NEW m \in S, \A l \in S : l <= m PROVE m = n
      BY <2>1, <2>2, <2>3, <3>2
    <3> QED
      BY <2>2, <3>1, <3>2
  <2>11. get(cidr, addr) = specs[i].proxy
    BY <2>2, <2>9, <2>10 DEF get, S
  <2> QED
    BY <2>1, <2>11, RulesAssumption DEF proxy_for_ip, OrDefault, match_ip
<1> QED
  BY <1>1, <1>2, <1>3, Zenon DEF LongestPrefixWins, Decided

\* The first rule that names a host decides.
LEMMA FirstWins ==
  ASSUME RulesIInv
  PROVE  FirstNameWins
<1>1. Ordered
  BY DEF RulesIInv
<1>2. ASSUME NEW host \in Host, Hits(host) = {} PROVE proxy_for_domain(host) = DEFAULT
  BY <1>2 DEF Hits, proxy_for_domain, OrDefault, match_domain
<1>3. ASSUME NEW host \in Host, NEW k \in Hits(host), NEW i \in 1 .. Len(specs), FirstHit(host, k, i)
      PROVE  /\ Names(i, host) /\ proxy_for_domain(host) = specs[i].proxy
             /\ \A j \in 1 .. i - 1 : ~Names(j, host)
  <2> DEFINE H == Hits(host)
  <2>1. k \in 1 .. Len(domain_patterns) /\ H \subseteq 1 .. Len(domain_patterns)
    BY DEF Hits
  <2>2. domain_actions[k] \in Proxy /\ Len(domain_patterns) \in Nat
    BY <1>1, <2>1 DEF Ordered
  <2>3. match_domain(host) = IF H = {} THEN NoAction ELSE domain_actions[CHOOSE m \in H : \A j \in H : m <= j]
    BY Zenon DEF match_domain, Hits
  <2>4. k \in H /\ \A j \in H : k <= j
    BY <1>3 DEF FirstHit
  <2> HIDE DEF H
  <2>5. (CHOOSE m \in H : \A j \in H : m <= j) = k
    <3>1. ASSUME NEW m \in H, \A j \in H : m <= j PROVE m = k
      <4>1. m \in Nat /\ k \in Nat /\ m <= k /\ k <= m
        BY <2>1, <2>2, <2>4, <3>1
      <4> QED
        BY <4>1
    <3> QED
      BY <2>4, <3>1
  <2>6. match_domain(host) = domain_actions[k]
    BY <2>3, <2>4, <2>5
  <2>7. domain_actions[k] = specs[i].proxy /\ Names(i, host) /\ \A j \in 1 .. i - 1 : ~Names(j, host)
    BY <1>3, Zenon DEF FirstHit
  <2> QED
    BY <2>2, <2>6, <2>7, RulesAssumption DEF proxy_for_domain, OrDefault
<1> QED
  BY <1>1, <1>2, <1>3, Zenon DEF FirstNameWins, Ordered

-----------------------------------------------------------------------------
(* Theorems about the rules.                                               *)

\* RuleMatcher::from_specs keeps the trie and the patterns in step with the
\* rules it has taken.
THEOREM RulesInvariant == RulesSpec => []RulesIInv
<1>1. RulesInit => RulesIInv
  BY RulesInitIInv
<1>2. RulesIInv /\ [RulesNext]_rulesVars => RulesIInv'
  BY RulesNextIInv
<1> QED
  BY <1>1, <1>2, PTL DEF RulesSpec

\* proxy_for sends an address by the most specific network that contains it,
\* by the earlier of two rules for the same network, and a name by the first
\* rule that names it, for any list of rules and any width of an address.
THEOREM RulesAlwaysDecide == RulesSpec => []RulesDecide
<1>1. RulesIInv => RulesDecide
  BY LongestWins, FirstWins DEF RulesDecide
<1> QED
  BY <1>1, RulesInvariant, PTL
=============================================================================
