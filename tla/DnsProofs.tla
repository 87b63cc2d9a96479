----------------------------- MODULE DnsProofs -----------------------------
(***************************************************************************)
(* Proofs about the fake-IP pool (FakeDns) and about the way from a        *)
(* question to a route (DnsInterceptor), for every pool, every set of      *)
(* names, every size of the buffers and any number of packets.             *)
(***************************************************************************)
EXTENDS DnsInterceptor, FiniteSetTheorems, TLAPS

-----------------------------------------------------------------------------
(* The fake-IP pool; its variables are the interceptor's.                  *)

\* The inductive invariant: typing, the two maps inverse to each other, and
\* the ring order in which addresses are used.
PoolIInv == PoolTypeOK /\ MapsInverse /\ RingFilled

\* The pool holds POOL_SIZE addresses, numbered from the offset 0.
LEMMA PoolFacts ==
  /\ POOL_SIZE \in Nat \ {0}
  /\ \A o \in 0 .. POOL_SIZE - 1 : POOL_START + o \in Pool
  /\ \A o \in 0 .. POOL_SIZE - 1 :
       (o + 1) % POOL_SIZE = IF o + 1 = POOL_SIZE THEN 0 ELSE o + 1
BY PoolAssumption, SMT DEF POOL_SIZE, Pool

\* Typing in the form the provers use: the maps are functions on their own
\* domains, which are sets of domains and of pool addresses.
LEMMA Typing ==
  PoolTypeOK <=>
    /\ domain_to_ip \in [DOMAIN domain_to_ip -> Pool]
    /\ DOMAIN domain_to_ip \subseteq Domain
    /\ ip_to_domain \in [DOMAIN ip_to_domain -> Domain]
    /\ DOMAIN ip_to_domain \subseteq Pool
    /\ next_offset \in 0 .. POOL_SIZE - 1
BY DEF PoolTypeOK

\* new() starts with two empty maps and the first address of the ring.
LEMMA PoolInitIInv == PoolInit => PoolIInv
<1> SUFFICES ASSUME PoolInit PROVE PoolIInv
  OBVIOUS
<1>1. DOMAIN domain_to_ip = {} /\ DOMAIN ip_to_domain = {} /\ next_offset = 0
  BY DEF PoolInit
<1>2. PoolTypeOK
  <2>1. next_offset \in 0 .. POOL_SIZE - 1
    BY <1>1, PoolFacts
  <2>2. domain_to_ip \in [DOMAIN domain_to_ip -> Pool] /\ ip_to_domain \in [DOMAIN ip_to_domain -> Domain]
    BY <1>1 DEF PoolInit
  <2> QED
    BY <1>1, <2>1, <2>2, Typing
<1>3. MapsInverse
  BY <1>1 DEF MapsInverse
<1>4. RingFilled
  BY <1>1, PoolAssumption DEF RingFilled, NextIp
<1> QED
  BY <1>2, <1>3, <1>4 DEF PoolIInv

\* What an allocation does to the two maps, point by point.
AllocateEffect(d) ==
  /\ NextIp \in Pool
  /\ DOMAIN ip_to_domain' = DOMAIN ip_to_domain \cup {NextIp}
  /\ ip_to_domain'[NextIp] = d
  /\ \A ip \in DOMAIN ip_to_domain \ {NextIp} : ip_to_domain'[ip] = ip_to_domain[ip]
  /\ DOMAIN domain_to_ip' = (DOMAIN domain_to_ip \ Evicted) \cup {d}
  /\ domain_to_ip'[d] = NextIp
  /\ \A e \in DOMAIN domain_to_ip \ Evicted :
       e # d /\ domain_to_ip'[e] = domain_to_ip[e]
  /\ \A e \in DOMAIN domain_to_ip : e \in Evicted <=> domain_to_ip[e] = NextIp
  /\ Evicted \subseteq DOMAIN domain_to_ip

LEMMA AllocateMaps ==
  ASSUME PoolIInv, NEW d \in Domain, Allocate(d)
  PROVE  AllocateEffect(d)
<1> USE DEF Allocate
<1>1. NextIp \in Pool
  BY PoolFacts, Typing DEF PoolIInv, NextIp
<1>2. /\ DOMAIN ip_to_domain' = DOMAIN ip_to_domain \cup {NextIp}
      /\ ip_to_domain'[NextIp] = d
      /\ \A ip \in DOMAIN ip_to_domain \ {NextIp} : ip_to_domain'[ip] = ip_to_domain[ip]
  BY DEF Insert
<1>3. /\ DOMAIN domain_to_ip' = (DOMAIN domain_to_ip \ Evicted) \cup {d}
      /\ domain_to_ip'[d] = NextIp
      /\ \A e \in DOMAIN domain_to_ip \ Evicted :
           e # d /\ domain_to_ip'[e] = domain_to_ip[e]
  BY DEF Insert, Remove
<1>4. \A e \in DOMAIN domain_to_ip : e \in Evicted <=> domain_to_ip[e] = NextIp
  BY DEF PoolIInv, MapsInverse, Evicted
<1>5. Evicted \subseteq DOMAIN domain_to_ip
  BY DEF PoolIInv, MapsInverse, Evicted
<1> QED
  BY <1>1, <1>2, <1>3, <1>4, <1>5 DEF AllocateEffect

LEMMA AllocateKeepsIInv ==
  ASSUME PoolIInv, NEW d \in Domain, Allocate(d)
  PROVE  PoolIInv'
<1>0. AllocateEffect(d)
  BY AllocateMaps
<1>1. PoolTypeOK'
  <2>1. next_offset' \in 0 .. POOL_SIZE - 1
    BY PoolFacts, Typing DEF AllocateEffect, PoolIInv, Allocate, Advance
  <2>2. domain_to_ip' \in UNION {[D -> Pool] : D \in SUBSET Domain}
    <3>1. domain_to_ip' \in [DOMAIN domain_to_ip' -> Pool]
      BY <1>0, Typing DEF AllocateEffect, PoolIInv, Allocate, Insert
    <3>2. DOMAIN domain_to_ip' \subseteq Domain
      BY <1>0, Typing DEF AllocateEffect, PoolIInv
    <3> QED
      BY <3>1, <3>2
  <2>3. ip_to_domain' \in UNION {[A -> Domain] : A \in SUBSET Pool}
    <3>1. ip_to_domain' \in [DOMAIN ip_to_domain' -> Domain]
      BY <1>0, Typing DEF AllocateEffect, PoolIInv, Allocate, Insert
    <3>2. DOMAIN ip_to_domain' \subseteq Pool
      BY <1>0, Typing DEF AllocateEffect, PoolIInv
    <3> QED
      BY <3>1, <3>2
  <2> QED
    BY <2>1, <2>2, <2>3 DEF PoolTypeOK
<1>2. MapsInverse'
  <2>1. \A e \in DOMAIN domain_to_ip' :
          /\ domain_to_ip'[e] \in DOMAIN ip_to_domain'
          /\ ip_to_domain'[domain_to_ip'[e]] = e
    BY <1>0 DEF AllocateEffect, PoolIInv, MapsInverse
  <2>2. \A ip \in DOMAIN ip_to_domain' :
          /\ ip_to_domain'[ip] \in DOMAIN domain_to_ip'
          /\ domain_to_ip'[ip_to_domain'[ip]] = ip
    BY <1>0 DEF AllocateEffect, PoolIInv, MapsInverse
  <2> QED
    BY <2>1, <2>2 DEF MapsInverse
<1>3. RingFilled'
  <2>1. DOMAIN ip_to_domain' = DOMAIN ip_to_domain \cup {NextIp} /\ NextIp \in Pool
    BY <1>0 DEF AllocateEffect
  <2>2. CASE DOMAIN ip_to_domain = Pool
    BY <2>1, <2>2 DEF RingFilled, Pool
  <2>3. CASE DOMAIN ip_to_domain = POOL_START .. NextIp - 1
    <3>1. DOMAIN ip_to_domain' = POOL_START .. NextIp
      BY <2>1, <2>3, PoolAssumption DEF Pool
    <3>2. next_offset \in 0 .. POOL_SIZE - 1
      BY Typing DEF PoolIInv
    <3>3. NextIp' = NextIp + 1 \/ NextIp = POOL_END
      BY <3>2, PoolFacts, PoolAssumption DEF NextIp, Allocate, Advance, POOL_SIZE
    <3>4. CASE NextIp = POOL_END
      BY <3>1, <3>4 DEF RingFilled, Pool
    <3>5. CASE NextIp' = NextIp + 1
      BY <3>1, <3>5, <2>1, PoolAssumption DEF RingFilled, Pool
    <3> QED
      BY <3>3, <3>4, <3>5
  <2> QED
    BY <2>2, <2>3 DEF PoolIInv, RingFilled
<1> QED
  BY <1>1, <1>2, <1>3 DEF AllocateEffect, PoolIInv

LEMMA PoolNextIInv == PoolIInv /\ [PoolNext]_poolVars => PoolIInv'
<1> SUFFICES ASSUME PoolIInv, [PoolNext]_poolVars PROVE PoolIInv'
  OBVIOUS
<1>1. CASE UNCHANGED poolVars
  BY <1>1 DEF poolVars, PoolIInv, PoolTypeOK, MapsInverse, RingFilled, NextIp
<1>2. ASSUME NEW d \in Domain, Hit(d) PROVE PoolIInv'
  BY <1>2 DEF Hit, poolVars, PoolIInv, PoolTypeOK, MapsInverse, RingFilled, NextIp
<1>3. ASSUME NEW d \in Domain, Allocate(d) PROVE PoolIInv'
  BY <1>3, AllocateKeepsIInv
<1> QED
  BY <1>1, <1>2, <1>3 DEF PoolNext, Resolve

\* The inductive invariant holds in every reachable state of the pool.
THEOREM PoolInvariant == PoolSpec => []PoolIInv
<1> QED
  BY PoolInitIInv, PoolNextIInv, PTL DEF PoolSpec

\* resolve() keeps the two maps well typed whatever is asked and however
\* often the ring wraps around.
THEOREM TypeCorrect == PoolSpec => []PoolTypeOK
<1>1. PoolIInv => PoolTypeOK
  BY DEF PoolIInv
<1> QED
  BY <1>1, PoolInvariant, PTL

\* The forward and the reverse map are inverse to each other for every pool
\* size and every sequence of resolve() calls.
THEOREM MapsAlwaysInverse == PoolSpec => []MapsInverse
<1>1. PoolIInv => MapsInverse
  BY DEF PoolIInv
<1> QED
  BY <1>1, PoolInvariant, PTL

-----------------------------------------------------------------------------
(* resolve() implements FifoPool: the ring, read from its oldest slot, is  *)
(* the table.                                                              *)

\* The place in the ring that is i - 1 places behind a.
LEMMA RingPlace ==
  ASSUME NEW a \in 0 .. POOL_SIZE - 1, NEW i \in 1 .. POOL_SIZE
  PROVE  (a + i - 1) % POOL_SIZE = IF a + i - 1 < POOL_SIZE THEN a + i - 1 ELSE a + i - 1 - POOL_SIZE
<1>1. POOL_SIZE \in Nat \ {0}
  BY PoolFacts
<1> QED
  BY <1>1

\* A ring that is not full has handed out the places below the next one.
LEMMA NotFull ==
  ASSUME PoolIInv, DOMAIN ip_to_domain # Pool
  PROVE  /\ DOMAIN ip_to_domain = POOL_START .. POOL_START + next_offset - 1
         /\ Len(Live) = next_offset /\ next_offset < POOL_SIZE
         /\ \A i \in 1 .. next_offset : Slot(i) = POOL_START + i - 1
         /\ Live = [i \in 1 .. next_offset |-> [domain |-> ip_to_domain[POOL_START + i - 1],
                                                ip |-> POOL_START + i - 1]]
<1>1. next_offset \in 0 .. POOL_SIZE - 1 /\ POOL_SIZE \in Nat \ {0} /\ POOL_START \in Nat
  BY Typing, PoolFacts, PoolAssumption DEF PoolIInv
<1>2. ASSUME NEW i \in 1 .. next_offset PROVE Slot(i) = POOL_START + i - 1
  <2>1. (0 + i - 1) % POOL_SIZE = i - 1
    BY <1>1
  <2>2. Oldest = 0
    BY DEF Oldest
  <2>3. Slot(i) = POOL_START + (i - 1)
    BY <2>1, <2>2 DEF Slot
  <2> QED
    BY <1>1, <2>3
<1>3. LiveCount = next_offset
  BY DEF LiveCount
<1>4. Live = [i \in 1 .. next_offset |-> [domain |-> ip_to_domain[POOL_START + i - 1],
                                          ip |-> POOL_START + i - 1]]
  BY <1>2, <1>3 DEF Live
<1>5. Len(Live) = next_offset
  BY <1>1, <1>4
<1> QED
  BY <1>1, <1>2, <1>4, <1>5 DEF PoolIInv, RingFilled, NextIp

\* Two sequences with the same elements, the one of them made from another.
LEMMA Appended ==
  ASSUME NEW S, NEW s \in Seq(S), NEW x \in S, NEW t \in Seq(S), Len(t) = Len(s) + 1,
         \A i \in 1 .. Len(s) : t[i] = s[i], t[Len(s) + 1] = x
  PROVE  t = Append(s, x)
<1>1. Append(s, x) \in Seq(S) /\ Len(Append(s, x)) = Len(s) + 1 /\ Len(s) \in Nat
  OBVIOUS
<1>2. \A i \in 1 .. Len(s) + 1 : t[i] = Append(s, x)[i]
  OBVIOUS
<1> QED
  BY <1>1, <1>2

LEMMA Rotated ==
  ASSUME NEW S, NEW s \in Seq(S), NEW x \in S, NEW t \in Seq(S), s # <<>>, Len(t) = Len(s),
         \A i \in 1 .. Len(s) - 1 : t[i] = s[i + 1], t[Len(s)] = x
  PROVE  t = Append(Tail(s), x)
<1>1. Tail(s) \in Seq(S) /\ Len(Tail(s)) = Len(s) - 1 /\ \A i \in 1 .. Len(s) - 1 : Tail(s)[i] = s[i + 1]
  OBVIOUS
<1>2. Len(t) = Len(Tail(s)) + 1 /\ Len(s) = Len(Tail(s)) + 1
  BY <1>1
<1> QED
  BY <1>1, <1>2, Appended

LEMMA Listed ==
  ASSUME NEW S, NEW n \in Nat, NEW f \in [1 .. n -> S]
  PROVE  f \in Seq(S) /\ Len(f) = n
OBVIOUS

\* Every place of the table is an address that is in use.
TableOf ==
  /\ Live \in Seq([domain : Domain, ip : Pool])
  /\ Len(Live) = LiveCount /\ LiveCount \in 0 .. POOL_SIZE
  /\ \A i \in 1 .. LiveCount : /\ Slot(i) \in DOMAIN ip_to_domain
                               /\ Live[i] = [domain |-> ip_to_domain[Slot(i)], ip |-> Slot(i)]

LEMMA RingTable == PoolIInv => TableOf
<1> SUFFICES ASSUME PoolIInv PROVE TableOf
  OBVIOUS
<1>1. next_offset \in 0 .. POOL_SIZE - 1 /\ POOL_SIZE \in Nat \ {0} /\ POOL_START \in Nat
  BY Typing, PoolFacts, PoolAssumption DEF PoolIInv
<1>2. LiveCount \in 0 .. POOL_SIZE /\ Oldest \in 0 .. POOL_SIZE - 1
  BY <1>1 DEF LiveCount, Oldest
<1>3. ASSUME NEW i \in 1 .. LiveCount PROVE Slot(i) \in DOMAIN ip_to_domain
  <2>1. CASE DOMAIN ip_to_domain = Pool
    <3>1. i \in 1 .. POOL_SIZE
      BY <2>1 DEF LiveCount
    <3>2. (Oldest + i - 1) % POOL_SIZE \in 0 .. POOL_SIZE - 1
      BY <1>1, <1>2, <3>1, RingPlace
    <3> QED
      BY <2>1, <3>2, PoolFacts DEF Slot
  <2>2. CASE DOMAIN ip_to_domain # Pool
    <3>1. i \in 1 .. next_offset
      BY <2>2 DEF LiveCount
    <3>2. Slot(i) = POOL_START + i - 1 /\ DOMAIN ip_to_domain = POOL_START .. POOL_START + next_offset - 1
      BY <2>2, <3>1, NotFull
    <3> QED
      BY <1>1, <3>1, <3>2
  <2> QED
    BY <2>1, <2>2
<1>4. \A i \in 1 .. LiveCount : ip_to_domain[Slot(i)] \in Domain /\ Slot(i) \in Pool
  BY <1>3, Typing DEF PoolIInv
<1>5. Live \in [1 .. LiveCount -> [domain : Domain, ip : Pool]]
  BY <1>4 DEF Live
<1>6. Live \in Seq([domain : Domain, ip : Pool]) /\ Len(Live) = LiveCount
  <2>1. LiveCount \in Nat
    BY <1>1, <1>2
  <2> QED
    BY <1>5, <2>1, Listed, Zenon
<1>7. \A i \in 1 .. LiveCount : Live[i] = [domain |-> ip_to_domain[Slot(i)], ip |-> Slot(i)]
  BY DEF Live
<1> QED
  BY <1>2, <1>3, <1>6, <1>7 DEF TableOf

\* An allocation in a ring with room appends the next address, also when that
\* was the last one.
LEMMA AllocateGrows ==
  ASSUME PoolIInv, NEW d \in Domain, Allocate(d), DOMAIN ip_to_domain # Pool
  PROVE  /\ Len(Live) < POOL_SIZE
         /\ \E ip \in Pool \ {Live[i].ip : i \in 1 .. Len(Live)} :
              Live' = Append(Live, [domain |-> d, ip |-> ip])
<1> DEFINE m == next_offset
<1>1. m \in 0 .. POOL_SIZE - 1 /\ POOL_SIZE \in Nat \ {0} /\ POOL_START \in Nat
  BY Typing, PoolFacts, PoolAssumption DEF PoolIInv
<1>2. TableOf /\ TableOf'
  <2>1. PoolIInv'
    BY AllocateKeepsIInv
  <2> QED
    BY <2>1, RingTable, PTL
<1>3. AllocateEffect(d)
  BY AllocateMaps
<1>4. /\ DOMAIN ip_to_domain = POOL_START .. POOL_START + m - 1 /\ Len(Live) = m
      /\ \A i \in 1 .. m : Slot(i) = POOL_START + i - 1
  BY NotFull
<1>5. LiveCount' = m + 1 /\ Oldest' = 0
  <2>1. DOMAIN ip_to_domain' = POOL_START .. POOL_START + m
    BY <1>1, <1>3, <1>4 DEF AllocateEffect, NextIp
  <2>2. CASE m + 1 = POOL_SIZE
    <3>1. next_offset' = 0 /\ DOMAIN ip_to_domain' = Pool
      BY <1>1, <2>1, <2>2, PoolFacts, PoolAssumption DEF Allocate, Advance, Pool, POOL_SIZE
    <3> QED
      BY <2>2, <3>1 DEF LiveCount, Oldest
  <2>3. CASE m + 1 # POOL_SIZE
    <3>1. next_offset' = m + 1
      BY <1>1, <2>3, PoolFacts DEF Allocate, Advance
    <3>2. POOL_END \notin DOMAIN ip_to_domain' /\ POOL_END \in Pool
      BY <1>1, <2>1, <2>3, PoolAssumption DEF Pool, POOL_SIZE
    <3> QED
      BY <3>1, <3>2 DEF LiveCount, Oldest
  <2> QED
    BY <2>2, <2>3
<1>6. \A i \in 1 .. m + 1 : Slot(i)' = POOL_START + i - 1
  <2> SUFFICES ASSUME NEW i \in 1 .. m + 1 PROVE Slot(i)' = POOL_START + i - 1
    OBVIOUS
  <2>1. (0 + i - 1) % POOL_SIZE = i - 1
    BY <1>1
  <2>2. Slot(i)' = POOL_START + (i - 1)
    BY <1>5, <2>1 DEF Slot
  <2> QED
    BY <1>1, <2>2
<1> DEFINE x == [domain |-> d, ip |-> NextIp]
           Entry == [domain : Domain, ip : Pool]
<1>7. NextIp \in Pool /\ NextIp = POOL_START + m
  BY <1>3 DEF AllocateEffect, NextIp
<1>8. \A i \in 1 .. Len(Live) : Live'[i] = Live[i] /\ Live[i].ip # NextIp
  <2> SUFFICES ASSUME NEW i \in 1 .. m PROVE Live'[i] = Live[i] /\ Live[i].ip # NextIp
    BY <1>4
  <2>1. POOL_START + i - 1 # NextIp /\ POOL_START + i - 1 \in DOMAIN ip_to_domain /\ i \in 1 .. m + 1
    BY <1>1, <1>4, <1>7
  <2>2. ip_to_domain'[POOL_START + i - 1] = ip_to_domain[POOL_START + i - 1]
    BY <1>3, <2>1 DEF AllocateEffect
  <2>3. Live[i] = [domain |-> ip_to_domain[POOL_START + i - 1], ip |-> POOL_START + i - 1]
    BY <1>2, <1>4 DEF TableOf
  <2>4. Live'[i] = [domain |-> ip_to_domain'[POOL_START + i - 1], ip |-> POOL_START + i - 1]
    BY <1>2, <1>5, <1>6, <2>1 DEF TableOf
  <2> QED
    BY <2>1, <2>2, <2>3, <2>4
<1>9. Live'[Len(Live) + 1] = x
  <2>1. m + 1 \in 1 .. m + 1 /\ POOL_START + (m + 1) - 1 = NextIp
    BY <1>1, <1>7
  <2>2. Live'[m + 1] = [domain |-> ip_to_domain'[NextIp], ip |-> NextIp]
    BY <1>2, <1>5, <1>6, <2>1 DEF TableOf
  <2> QED
    BY <1>3, <1>4, <2>2 DEF AllocateEffect
<1>10. Live \in Seq(Entry) /\ Live' \in Seq(Entry) /\ Len(Live') = Len(Live) + 1 /\ x \in Entry
  BY <1>2, <1>4, <1>5, <1>7 DEF TableOf
<1>11. Live' = Append(Live, x)
  <2> HIDE DEF x, Entry
  <2> QED
    BY <1>8, <1>9, <1>10, Appended
<1>12. NextIp \in Pool \ {Live[i].ip : i \in 1 .. Len(Live)} /\ Len(Live) < POOL_SIZE
  BY <1>1, <1>4, <1>7, <1>8
<1> QED
  BY <1>11, <1>12

\* An allocation in a full ring passes the oldest address on.
LEMMA AllocateRecycles ==
  ASSUME PoolIInv, NEW d \in Domain, Allocate(d), DOMAIN ip_to_domain = Pool
  PROVE  /\ Len(Live) = POOL_SIZE
         /\ Live' = Append(Tail(Live), [domain |-> d, ip |-> Head(Live).ip])
<1> DEFINE m == next_offset
           n == POOL_SIZE
<1>1. m \in 0 .. n - 1 /\ n \in Nat \ {0} /\ POOL_START \in Nat
  BY Typing, PoolFacts, PoolAssumption DEF PoolIInv
<1>2. TableOf /\ TableOf'
  <2>1. PoolIInv'
    BY AllocateKeepsIInv
  <2> QED
    BY <2>1, RingTable, PTL
<1>3. AllocateEffect(d)
  BY AllocateMaps
<1>4. DOMAIN ip_to_domain' = Pool
  BY <1>3 DEF AllocateEffect
<1>5. /\ LiveCount = n /\ LiveCount' = n /\ Oldest = m /\ Oldest' = next_offset'
      /\ next_offset' = IF m + 1 = n THEN 0 ELSE m + 1
  BY <1>1, <1>4, PoolFacts DEF LiveCount, Oldest, Allocate, Advance
\* The table starts one place later.
<1>6. \A i \in 1 .. n : Slot(i) = POOL_START + IF m + i - 1 < n THEN m + i - 1 ELSE m + i - 1 - n
  BY <1>1, <1>5, RingPlace DEF Slot
<1>7. \A i \in 1 .. n : Slot(i)' = POOL_START + IF Oldest' + i - 1 < n THEN Oldest' + i - 1
                                                ELSE Oldest' + i - 1 - n
  <2>1. Oldest' \in 0 .. n - 1
    BY <1>1, <1>5
  <2> QED
    BY <2>1, RingPlace DEF Slot
<1>8. \A i \in 1 .. n - 1 : Slot(i)' = Slot(i + 1) /\ Slot(i + 1) # NextIp
  <2> SUFFICES ASSUME NEW i \in 1 .. n - 1 PROVE Slot(i)' = Slot(i + 1) /\ Slot(i + 1) # NextIp
    OBVIOUS
  <2>1. i \in 1 .. n /\ i + 1 \in 1 .. n
    BY <1>1
  <2>2. Slot(i + 1) = POOL_START + IF m + i < n THEN m + i ELSE m + i - n
    <3>1. m + (i + 1) - 1 = m + i
      BY <1>1
    <3> QED
      BY <1>6, <2>1, <3>1
  <2>3. Slot(i)' = POOL_START + IF m + i < n THEN m + i ELSE m + i - n
    <3>1. (IF Oldest' + i - 1 < n THEN Oldest' + i - 1 ELSE Oldest' + i - 1 - n)
            = IF m + i < n THEN m + i ELSE m + i - n
      BY <1>1, <1>5
    <3> QED
      BY <1>7, <2>1, <3>1
  <2>4. (IF m + i < n THEN m + i ELSE m + i - n) # m
    BY <1>1
  <2> QED
    BY <1>1, <2>2, <2>3, <2>4 DEF NextIp
<1>9. Slot(1) = NextIp /\ Slot(n)' = NextIp
  <2>1. (IF Oldest' + n - 1 < n THEN Oldest' + n - 1 ELSE Oldest' + n - 1 - n) = m
    BY <1>1, <1>5
  <2>2. (IF m + 1 - 1 < n THEN m + 1 - 1 ELSE m + 1 - 1 - n) = m /\ 1 \in 1 .. n /\ n \in 1 .. n
    BY <1>1
  <2> QED
    BY <1>6, <1>7, <2>1, <2>2 DEF NextIp
<1> DEFINE x == [domain |-> d, ip |-> NextIp]
           Entry == [domain : Domain, ip : Pool]
<1>10. /\ Live \in Seq(Entry) /\ Live' \in Seq(Entry) /\ Len(Live') = Len(Live) /\ Len(Live) = n
       /\ x \in Entry /\ Live # <<>> /\ Head(Live).ip = NextIp
  <2>1. Live \in Seq(Entry) /\ Live' \in Seq(Entry) /\ Len(Live') = n /\ Len(Live) = n /\ x \in Entry
    BY <1>2, <1>3, <1>5 DEF TableOf, AllocateEffect
  <2>2. Live[1] = [domain |-> ip_to_domain[NextIp], ip |-> NextIp]
    BY <1>1, <1>2, <1>5, <1>9 DEF TableOf
  <2>3. Live # <<>> /\ Head(Live) = Live[1]
    <3> HIDE DEF Entry
    <3> QED
      BY <1>1, <2>1
  <2> QED
    BY <2>1, <2>2, <2>3
<1>11. \A i \in 1 .. n - 1 : Live'[i] = Live[i + 1]
  <2> SUFFICES ASSUME NEW i \in 1 .. n - 1 PROVE Live'[i] = Live[i + 1]
    OBVIOUS
  <2>1. i \in 1 .. n /\ i + 1 \in 1 .. n
    BY <1>1
  <2>2. Live[i + 1] = [domain |-> ip_to_domain[Slot(i + 1)], ip |-> Slot(i + 1)]
    BY <1>2, <1>5, <2>1 DEF TableOf
  <2>3. Live'[i] = [domain |-> ip_to_domain'[Slot(i + 1)], ip |-> Slot(i + 1)]
    BY <1>2, <1>5, <1>8, <2>1 DEF TableOf
  <2>4. ip_to_domain'[Slot(i + 1)] = ip_to_domain[Slot(i + 1)]
    BY <1>2, <1>3, <1>5, <1>8, <2>1, Zenon DEF TableOf, AllocateEffect
  <2> QED
    BY <2>2, <2>3, <2>4
<1>12. Live'[n] = x
  <2>1. Live'[n] = [domain |-> ip_to_domain'[NextIp], ip |-> NextIp]
    BY <1>1, <1>2, <1>5, <1>9 DEF TableOf
  <2> QED
    BY <1>3, <2>1 DEF AllocateEffect
<1>13. Live' = Append(Tail(Live), x)
  <2> HIDE DEF x, Entry, n
  <2> QED
    BY <1>10, <1>11, <1>12, Rotated
<1> QED
  BY <1>10, <1>13

\* A domain that has no address is not in the table.
LEMMA AbsentFromTable ==
  ASSUME PoolIInv, NEW d, d \notin DOMAIN domain_to_ip
  PROVE  \A i \in 1 .. Len(Live) : Live[i].domain # d
<1>1. TableOf
  BY RingTable
<1>2. ASSUME NEW i \in 1 .. Len(Live) PROVE Live[i].domain # d
  <2>1. Slot(i) \in DOMAIN ip_to_domain /\ Live[i].domain = ip_to_domain[Slot(i)]
    BY <1>1 DEF TableOf
  <2> QED
    BY <2>1 DEF PoolIInv, MapsInverse
<1> QED
  BY <1>2

\* The pool is the bounded first-in first-out table: a domain keeps its address
\* until its entry is the oldest of a full pool, and only then does resolve()
\* pass the address on; for every pool and however often the ring wraps around.
THEOREM PoolIsFifo == PoolSpec => ImplementsFifo
<1>1. PoolInit => Fifo!Init
  <2> SUFFICES ASSUME PoolInit PROVE Live = <<>>
    BY DEF Fifo!Init
  <2>1. PoolIInv /\ DOMAIN ip_to_domain = {} /\ next_offset = 0
    BY PoolInitIInv DEF PoolInit
  <2>2. LiveCount = 0
    BY <2>1, PoolFacts DEF LiveCount
  <2>3. TableOf
    BY <2>1, RingTable
  <2> QED
    BY <2>2, <2>3 DEF TableOf
<1>2. PoolIInv /\ [PoolNext]_poolVars => [Fifo!Next]_Live
  <2> SUFFICES ASSUME PoolIInv, [PoolNext]_poolVars PROVE [Fifo!Next]_Live
    OBVIOUS
  <2>1. ASSUME UNCHANGED poolVars PROVE Live' = Live
    BY <2>1 DEF poolVars, Live, LiveCount, Slot, Oldest
  <2>2. ASSUME NEW d \in Domain, Allocate(d) PROVE Fifo!Next
    <3>1. d \in Domain \ Fifo!Domains
      BY <2>2, AbsentFromTable DEF Allocate, Fifo!Domains
    <3>2. CASE DOMAIN ip_to_domain = Pool
      <4>1. Fifo!Recycle(d)
        BY <2>2, <3>2, AllocateRecycles DEF Fifo!Recycle
      <4> QED
        BY <3>1, <4>1 DEF Fifo!Next
    <3>3. CASE DOMAIN ip_to_domain # Pool
      <4>1. Fifo!Grow(d)
        BY <2>2, <3>3, AllocateGrows, Zenon DEF Fifo!Grow, Fifo!Addresses
      <4> QED
        BY <3>1, <4>1 DEF Fifo!Next
    <3> QED
      BY <3>2, <3>3
  <2> QED
    BY <2>1, <2>2 DEF PoolNext, Resolve, Hit
<1> QED
  BY <1>1, <1>2, PoolInvariant, PTL DEF PoolSpec, ImplementsFifo, Fifo!Spec

-----------------------------------------------------------------------------
(* The interceptor.                                                        *)

\* The addresses resolve() has handed out, and what carries one of them.
Handed == DOMAIN ip_to_domain
Ack == [kind : {"ack"}, domain : Domain, ip : Handed]
Connection == [domain : Domain, ip : Handed]
AnswerWithIp == [kind : {"A"}, domain : Domain, ip : Handed]
Packet == Query \cup Ack
Answer == AnswerWithIp \cup [kind : {"other"}, domain : Domain]

\* Every address an application, a packet, an answer or a connection carries
\* has been handed out, and every connection is routed to a name.
Typed ==
  /\ tun \in Seq(Packet) /\ rx_queue \in Seq(Packet)
  /\ rx \in Seq(Query) /\ tx \in Seq(Answer)
  /\ established \subseteq Connection
  /\ learnt \in [Domain -> Handed \cup {NoIp}]
  /\ routed \in [Domain -> Domain \cup {NoTarget, Dialling}]
  /\ named \subseteq Domain /\ IsFiniteSet(named)

Elems(s) == {s[i] : i \in 1 .. Len(s)}

\* As long as the pool suffices the names resolved are the ones that have an
\* address, in as many places of the ring as there are names.
Roomy == DOMAIN domain_to_ip = named /\ Cardinality(named) = LiveCount

\* As long as the pool suffices an address still stands for the name it was
\* handed out for, wherever it is carried.
Standing ==
  /\ \A p \in Elems(tun) \cup Elems(rx_queue) : p.kind = "ack" => ip_to_domain[p.ip] = p.domain
  /\ \A p \in Elems(tx) : p.kind = "A" => ip_to_domain[p.ip] = p.domain
  /\ \A c \in established : ip_to_domain[c.ip] = c.domain
  /\ \A d \in Domain : learnt[d] # NoIp => ip_to_domain[learnt[d]] = d
  /\ \A d \in Domain : routed[d] \notin {NoTarget, Dialling} => routed[d] = d

\* The inductive invariant.
IInv == PoolIInv /\ Typed /\ (PoolSuffices => Roomy /\ Standing)

-----------------------------------------------------------------------------
(* The pool.                                                               *)

\* The pool in terms of the two maps.
LEMMA PoolMaps ==
  ASSUME PoolIInv
  PROVE  /\ Handed \subseteq POOL_START .. POOL_END
         /\ DOMAIN domain_to_ip \subseteq Domain
         /\ \A ip \in Handed : ip_to_domain[ip] \in Domain
         /\ \A d \in DOMAIN domain_to_ip : domain_to_ip[d] \in Handed /\ ip_to_domain[domain_to_ip[d]] = d
         /\ \A ip \in Handed : domain_to_ip[ip_to_domain[ip]] = ip
<1>1. PoolTypeOK /\ MapsInverse
  BY DEF PoolIInv
<1>2. /\ ip_to_domain \in [DOMAIN ip_to_domain -> Domain] /\ DOMAIN ip_to_domain \subseteq Pool
      /\ DOMAIN domain_to_ip \subseteq Domain
  BY <1>1, Typing
<1> QED
  BY <1>1, <1>2 DEF MapsInverse, Pool, Handed

\* A name that has an address has one that was handed out for it.
Resolved ==
  \A d \in DOMAIN domain_to_ip : domain_to_ip[d] \in Handed /\ ip_to_domain[domain_to_ip[d]] = d

LEMMA ResolvedHanded == PoolIInv => Resolved
BY PoolMaps DEF Resolved

\* What a call of resolve() does: the name has an address afterwards, and an
\* address once handed out stays handed out.
LEMMA ResolveEffect ==
  ASSUME PoolIInv, NEW d \in Domain, Resolve(d)
  PROVE  /\ PoolIInv'
         /\ Handed \subseteq Handed'
         /\ d \in DOMAIN domain_to_ip'
<1>1. Hit(d) \/ Allocate(d)
  BY DEF Resolve
<1>2. PoolIInv'
  BY <1>1, PoolNextIInv DEF PoolNext, Resolve
<1>3. CASE Hit(d)
  BY <1>2, <1>3 DEF Hit, poolVars, Handed
<1>4. CASE Allocate(d)
  BY <1>2, <1>4, AllocateMaps, Zenon DEF AllocateEffect, Handed
<1> QED
  BY <1>1, <1>3, <1>4

\* With one name more the pool suffices only if it sufficed before.
LEMMA NamedGrows ==
  ASSUME Typed, NEW d \in Domain, named' = named \cup {d}
  PROVE  /\ IsFiniteSet(named') /\ Cardinality(named) \in Nat
         /\ Cardinality(named') = IF d \in named THEN Cardinality(named) ELSE Cardinality(named) + 1
         /\ PoolSuffices' => PoolSuffices
<1>1. IsFiniteSet(named)
  BY DEF Typed
<1>2. /\ IsFiniteSet(named \cup {d})
      /\ Cardinality(named \cup {d}) = IF d \in named THEN Cardinality(named) ELSE Cardinality(named) + 1
  BY <1>1, FS_AddElement
<1>3. Cardinality(named) \in Nat
  BY <1>1, FS_CardinalityType
<1>4. POOL_SIZE \in Int
  BY PoolAssumption DEF POOL_SIZE
<1>5. PoolSuffices' => PoolSuffices
  BY <1>2, <1>3, <1>4 DEF PoolSuffices, POOL_SIZE
<1> QED
  BY <1>2, <1>3, <1>5

\* While the pool suffices a call of resolve() evicts nobody: no address
\* changes its name.
LEMMA ResolveKeeps ==
  ASSUME PoolIInv, Typed, Roomy, NEW d \in Domain, Resolve(d),
         named' = named \cup {d}, PoolSuffices'
  PROVE  Roomy' /\ \A ip \in Handed : ip_to_domain'[ip] = ip_to_domain[ip]
<1>1. Hit(d) \/ Allocate(d)
  BY DEF Resolve
<1>2. /\ Cardinality(named) \in Nat
      /\ Cardinality(named') = IF d \in named THEN Cardinality(named) ELSE Cardinality(named) + 1
  BY NamedGrows, Zenon
<1>3. CASE Hit(d)
  BY <1>2, <1>3 DEF Roomy, Hit, poolVars, LiveCount, Handed
<1>4. CASE Allocate(d)
  <2>1. d \notin named /\ Cardinality(named') = LiveCount + 1
    BY <1>2, <1>4 DEF Roomy, Allocate
  <2>2. Cardinality(named') <= POOL_SIZE /\ POOL_SIZE \in Nat
    BY PoolAssumption, PoolFacts DEF PoolSuffices, POOL_SIZE, POOL_SIZE
  <2>3. DOMAIN ip_to_domain # Pool
    BY <1>2, <2>1, <2>2 DEF LiveCount, Roomy
  <2>4. AllocateEffect(d) /\ TableOf /\ TableOf'
    <3>1. PoolIInv'
      BY ResolveEffect
    <3>2. TableOf /\ TableOf'
      BY <3>1, RingTable, PTL
    <3> QED
      BY <1>4, <3>2, AllocateMaps
  <2>5. LiveCount' = LiveCount + 1
    <3>1. PICK ip : Live' = Append(Live, [domain |-> d, ip |-> ip])
      BY <1>4, <2>3, AllocateGrows, Zenon
    <3>2. Len(Live') = Len(Live) + 1
      BY <2>4, <3>1 DEF TableOf
    <3> QED
      BY <2>4, <3>2 DEF TableOf
  <2>6. NextIp \notin Handed
    <3>1. /\ Handed = POOL_START .. POOL_START + next_offset - 1
          /\ next_offset \in Nat
      BY <2>3, NotFull, Typing DEF PoolIInv, Handed
    <3> QED
      BY <3>1, PoolAssumption DEF NextIp
  <2>7. Evicted = {}
    BY <2>6 DEF Evicted, Handed
  <2>8. DOMAIN domain_to_ip' = named'
    BY <2>4, <2>7 DEF AllocateEffect, Roomy
  <2>9. \A ip \in Handed : ip_to_domain'[ip] = ip_to_domain[ip]
    BY <2>4, <2>6 DEF AllocateEffect, Handed
  <2> QED
    BY <2>1, <2>5, <2>8, <2>9 DEF Roomy
<1> QED
  BY <1>1, <1>3, <1>4

-----------------------------------------------------------------------------
(* The queues.                                                             *)

LEMMA Queues ==
  ASSUME NEW S, NEW s \in Seq(S)
  PROVE  /\ Elems(s) \subseteq S
         /\ \A x \in S : Append(s, x) \in Seq(S) /\ Elems(Append(s, x)) = Elems(s) \cup {x}
         /\ s # <<>> => /\ Head(s) \in Elems(s) /\ Head(s) \in S
                        /\ Tail(s) \in Seq(S) /\ Elems(Tail(s)) \subseteq Elems(s)
         /\ \A t \in Seq(S) : s \o t \in Seq(S) /\ Elems(s \o t) = Elems(s) \cup Elems(t)
<1>1. Elems(s) \subseteq S
  BY DEF Elems
<1>2. ASSUME NEW x \in S PROVE Append(s, x) \in Seq(S) /\ Elems(Append(s, x)) = Elems(s) \cup {x}
  <2>1. Append(s, x) \in Seq(S) /\ Len(Append(s, x)) = Len(s) + 1 /\ Len(s) \in Nat
    OBVIOUS
  <2>2. \A i \in 1 .. Len(s) : Append(s, x)[i] = s[i]
    OBVIOUS
  <2>3. Append(s, x)[Len(s) + 1] = x
    OBVIOUS
  <2>4. 1 .. Len(s) + 1 = (1 .. Len(s)) \cup {Len(s) + 1}
    BY <2>1
  <2> QED
    BY <2>1, <2>2, <2>3, <2>4 DEF Elems
<1>3. ASSUME s # <<>>
      PROVE  /\ Head(s) \in Elems(s) /\ Head(s) \in S
             /\ Tail(s) \in Seq(S) /\ Elems(Tail(s)) \subseteq Elems(s)
  <2>1. Len(s) \in Nat \ {0} /\ Head(s) = s[1]
    BY <1>3
  <2>2. Tail(s) \in Seq(S) /\ Len(Tail(s)) = Len(s) - 1 /\ \A i \in 1 .. Len(s) - 1 : Tail(s)[i] = s[i + 1]
    BY <1>3
  <2>3. \A i \in 1 .. Len(s) - 1 : i + 1 \in 1 .. Len(s)
    BY <2>1
  <2>4. 1 \in 1 .. Len(s)
    BY <2>1
  <2> QED
    BY <2>1, <2>2, <2>3, <2>4 DEF Elems
<1>4. ASSUME NEW t \in Seq(S) PROVE s \o t \in Seq(S) /\ Elems(s \o t) = Elems(s) \cup Elems(t)
  <2>1. s \o t \in Seq(S) /\ Len(s \o t) = Len(s) + Len(t) /\ Len(s) \in Nat /\ Len(t) \in Nat
    OBVIOUS
  <2>2. \A i \in 1 .. Len(s) : (s \o t)[i] = s[i]
    OBVIOUS
  <2>3. \A i \in 1 .. Len(t) : (s \o t)[Len(s) + i] = t[i]
    OBVIOUS
  <2>4. \A i \in 1 .. Len(s) + Len(t) :
          i \in 1 .. Len(s) \/ \E j \in 1 .. Len(t) : i = Len(s) + j
    <3> SUFFICES ASSUME NEW i \in 1 .. Len(s) + Len(t), i \notin 1 .. Len(s)
                 PROVE  i - Len(s) \in 1 .. Len(t) /\ i = Len(s) + (i - Len(s))
      BY Zenon
    <3> QED
      BY <2>1
  <2>5. /\ \A i \in 1 .. Len(s) : i \in 1 .. Len(s) + Len(t)
        /\ \A j \in 1 .. Len(t) : Len(s) + j \in 1 .. Len(s) + Len(t)
    BY <2>1
  <2>6. Elems(s \o t) \subseteq Elems(s) \cup Elems(t)
    BY <2>1, <2>2, <2>3, <2>4 DEF Elems
  <2>7. Elems(s) \subseteq Elems(s \o t)
    BY <2>1, <2>2, <2>5 DEF Elems
  <2>8. Elems(t) \subseteq Elems(s \o t)
    BY <2>1, <2>3, <2>5 DEF Elems
  <2> QED
    BY <2>1, <2>6, <2>7, <2>8
<1> QED
  BY <1>1, <1>2, <1>3, <1>4

LEMMA WiderSeq ==
  ASSUME NEW S, NEW T, S \subseteq T, NEW s \in Seq(S)
  PROVE  s \in Seq(T)
OBVIOUS

\* A step that resolves nothing leaves the pool and what is known of it.
LEMMA QuietPool ==
  ASSUME IInv, UNCHANGED <<poolVars, named>>
  PROVE  /\ PoolIInv' /\ Handed' = Handed
         /\ PoolSuffices' => PoolSuffices /\ Roomy'
         /\ Packet' = Packet /\ Answer' = Answer /\ Connection' = Connection
<1>1. UNCHANGED <<domain_to_ip, ip_to_domain, next_offset, named>>
  BY DEF poolVars
<1>2. PoolIInv'
  BY <1>1, PoolNextIInv DEF IInv, poolVars
<1>3. Handed' = Handed
  BY <1>1 DEF Handed
<1>4. PoolSuffices' => PoolSuffices
  BY <1>1 DEF PoolSuffices, POOL_SIZE
<1>5. PoolSuffices' => Roomy'
  BY <1>1, <1>4 DEF IInv, Roomy, LiveCount
<1> QED
  BY <1>2, <1>3, <1>4, <1>5 DEF Packet, Answer, Connection, Ack, AnswerWithIp

\* A step that resolves nothing keeps the invariant if it keeps the queues
\* typed and adds nothing to them that does not stand.
Keeps == Typed' /\ (Standing => Standing')

LEMMA QuietStep ==
  ASSUME IInv, UNCHANGED <<poolVars, named>>, Keeps
  PROVE  IInv'
<1>1. PoolIInv' /\ (PoolSuffices' => PoolSuffices /\ Roomy')
  BY QuietPool
<1>2. PoolSuffices => Standing
  BY DEF IInv
<1> QED
  BY <1>1, <1>2 DEF IInv, Keeps

LEMMA Kinds ==
  /\ \A q \in Query : q.kind # "ack" /\ (q.kind \in {"A", "other"} => q.domain \in Domain)
  /\ \A p \in Ack : p.kind = "ack" /\ p.domain \in Domain /\ p.ip \in Handed
  /\ \A p \in Packet : p.kind = "ack" => p \in Ack
  /\ \A p \in Packet : p.kind # "ack" => p \in Query
  /\ \A a \in Answer : a.domain \in Domain /\ (a.kind = "A" => a.ip \in Handed)
BY DEF Query, Ack, Packet, Answer, AnswerWithIp

-----------------------------------------------------------------------------
(* The applications' steps.                                                *)

LEMMA AskKeeps ==
  ASSUME IInv, NEW q \in Query, Ask(q)
  PROVE  IInv'
<1>1. /\ tun' = Append(tun, q)
      /\ UNCHANGED <<poolVars, named>>
      /\ UNCHANGED <<domain_to_ip, ip_to_domain, rx_queue, rx, tx, established, learnt, routed, named>>
  BY DEF Ask, Sends, poolVars
<1>2. tun \in Seq(Packet) /\ q \in Packet /\ q.kind # "ack"
  BY Kinds DEF IInv, Typed, Packet
<1>3. tun' \in Seq(Packet) /\ Elems(tun') = Elems(tun) \cup {q}
  BY <1>1, <1>2, Queues
<1>4. Handed' = Handed /\ Packet' = Packet /\ Answer' = Answer /\ Connection' = Connection
  BY <1>1, QuietPool
<1>5. Typed'
  BY <1>1, <1>3, <1>4 DEF IInv, Typed, NoIp
<1>6. Standing => Standing'
  BY <1>1, <1>2, <1>3 DEF Standing, NoIp, Elems
<1> QED
  BY <1>1, <1>5, <1>6, QuietStep DEF Keeps

LEMMA DialKeeps ==
  ASSUME IInv, NEW d \in Domain, Dial(d)
  PROVE  IInv'
<1> DEFINE p == [kind |-> "ack", domain |-> d, ip |-> learnt[d]]
<1>1. /\ tun' = Append(tun, p)
      /\ learnt[d] # NoIp
      /\ routed' = [routed EXCEPT ![d] = Dialling]
      /\ UNCHANGED <<poolVars, named>>
      /\ UNCHANGED <<domain_to_ip, ip_to_domain, rx_queue, rx, tx, established, learnt, named>>
  BY DEF Dial, Sends, poolVars
<1>2. tun \in Seq(Packet) /\ p \in Packet
  <2>1. learnt[d] \in Handed /\ tun \in Seq(Packet)
    BY <1>1 DEF IInv, Typed
  <2> QED
    BY <2>1 DEF Packet, Ack
<1>3. tun' \in Seq(Packet) /\ Elems(tun') = Elems(tun) \cup {p}
  <2> HIDE DEF p
  <2> QED
    BY <1>1, <1>2, Queues
<1>4. Handed' = Handed /\ Packet' = Packet /\ Answer' = Answer /\ Connection' = Connection
  BY <1>1, QuietPool
<1>5. /\ routed \in [Domain -> Domain \cup {NoTarget, Dialling}]
      /\ routed' \in [Domain -> Domain \cup {NoTarget, Dialling}]
      /\ routed'[d] = Dialling /\ \A e \in Domain \ {d} : routed'[e] = routed[e]
  BY <1>1, Zenon DEF IInv, Typed
<1>6. Typed'
  BY <1>1, <1>3, <1>4, <1>5, Zenon DEF IInv, Typed, NoIp
<1>7. ASSUME Standing PROVE Standing'
  <2>1. p.kind = "ack" /\ p.ip = learnt[d] /\ p.domain = d /\ ip_to_domain[learnt[d]] = d
    BY <1>1, <1>7, Zenon DEF Standing
  <2>2. \A x \in Elems(tun') \cup Elems(rx_queue') : x.kind = "ack" => ip_to_domain'[x.ip] = x.domain
    <3> HIDE DEF p
    <3> QED
      BY <1>1, <1>3, <1>7, <2>1 DEF Standing
  <2>3. \A e \in Domain : routed'[e] \notin {NoTarget, Dialling} => routed'[e] = e
    BY <1>5, <1>7 DEF Standing
  <2> QED
    BY <1>1, <1>7, <2>2, <2>3, Zenon DEF Standing, NoIp
<1> QED
  BY <1>1, <1>6, <1>7, QuietStep DEF Keeps

-----------------------------------------------------------------------------
(* The tick's steps.                                                       *)

LEMMA PollReadKeeps == IInv /\ PollRead => IInv'
<1> SUFFICES ASSUME IInv, PollRead PROVE IInv'
  OBVIOUS
<1>1. /\ rx_queue' = rx_queue \o tun /\ tun' = <<>>
      /\ UNCHANGED <<poolVars, named>>
      /\ UNCHANGED <<domain_to_ip, ip_to_domain, rx, tx, established, learnt, routed, named>>
  BY DEF PollRead, poolVars
<1>2. rx_queue \in Seq(Packet) /\ tun \in Seq(Packet)
  BY DEF IInv, Typed
<1>3. /\ rx_queue' \in Seq(Packet) /\ Elems(rx_queue') = Elems(rx_queue) \cup Elems(tun)
      /\ tun' \in Seq(Packet) /\ Elems(tun') = {}
  <2>1. Elems(<<>>) = {}
    BY DEF Elems
  <2> QED
    BY <1>1, <1>2, <2>1, Queues
<1>4. Handed' = Handed /\ Packet' = Packet /\ Answer' = Answer /\ Connection' = Connection
  BY <1>1, QuietPool
<1>5. Typed'
  BY <1>1, <1>3, <1>4 DEF IInv, Typed, NoIp
<1>6. Standing => Standing'
  BY <1>1, <1>3, Zenon DEF Standing, NoIp
<1> QED
  BY <1>1, <1>5, <1>6, QuietStep DEF Keeps

LEMMA IngressKeeps == IInv /\ Ingress => IInv'
<1> SUFFICES ASSUME IInv, Ingress PROVE IInv'
  OBVIOUS
<1> DEFINE p == Head(rx_queue)
<1>1. /\ rx_queue # <<>> /\ rx_queue' = Tail(rx_queue)
      /\ \/ /\ p.kind = "ack" /\ UNCHANGED rx
            /\ established' = established \cup {[domain |-> p.domain, ip |-> p.ip]}
         \/ /\ p.kind # "ack" /\ UNCHANGED established
            /\ rx' \in {rx, Append(rx, p)}
      /\ UNCHANGED <<poolVars, named>>
      /\ UNCHANGED <<domain_to_ip, ip_to_domain, tun, tx, learnt, routed, named>>
  BY Zenon DEF Ingress, poolVars
<1>2. rx_queue \in Seq(Packet) /\ rx \in Seq(Query)
  BY DEF IInv, Typed
<1>3. /\ p \in Elems(rx_queue) /\ p \in Packet
      /\ rx_queue' \in Seq(Packet) /\ Elems(rx_queue') \subseteq Elems(rx_queue)
  BY <1>1, <1>2, Queues
<1>4. Handed' = Handed /\ Packet' = Packet /\ Answer' = Answer /\ Connection' = Connection
  BY <1>1, QuietPool
<1> HIDE DEF p
<1>5. rx' \in Seq(Query)
  <2>1. p.kind # "ack" => p \in Query
    BY <1>3, Kinds
  <2>2. p \in Query => Append(rx, p) \in Seq(Query)
    BY <1>2, Queues
  <2> QED
    BY <1>1, <1>2, <2>1, <2>2, Zenon
<1>6. established' \subseteq Connection
  <2>1. p.kind = "ack" => [domain |-> p.domain, ip |-> p.ip] \in Connection
    BY <1>3, Kinds DEF Connection
  <2>2. established \subseteq Connection
    BY DEF IInv, Typed
  <2> QED
    BY <1>1, <2>1, <2>2
<1>7. Typed'
  BY <1>1, <1>3, <1>4, <1>5, <1>6 DEF IInv, Typed, NoIp
<1>8. ASSUME Standing PROVE Standing'
  <2>1. \A c \in established' : ip_to_domain[c.ip] = c.domain
    BY <1>1, <1>3, <1>8 DEF Standing
  <2> QED
    BY <1>1, <1>3, <1>8, <2>1, Zenon DEF Standing, NoIp
<1> QED
  BY <1>1, <1>7, <1>8, QuietStep DEF Keeps

\* The datagram process() takes.
LEMMA TakenFacts ==
  ASSUME IInv, Taken
  PROVE  /\ Head(rx) \in Query /\ rx' \in Seq(Query)
         /\ Head(rx).kind \in {"A", "other"} => Head(rx).domain \in Domain
<1>1. rx \in Seq(Query) /\ rx # <<>> /\ rx' = Tail(rx)
  BY DEF IInv, Typed, Taken
<1>2. Head(rx) \in Query /\ rx' \in Seq(Query)
  BY <1>1, Queues
<1> QED
  BY <1>2, Kinds

\* An answer is queued or dropped.
LEMMA SendSliceFacts ==
  ASSUME NEW S, tx \in Seq(S), NEW a \in S, SendSlice(a)
  PROVE  tx' \in Seq(S) /\ Elems(tx') \subseteq Elems(tx) \cup {a}
<1>1. tx' = tx \/ tx' = Append(tx, a)
  BY DEF SendSlice
<1>2. CASE tx' = tx
  BY <1>2
<1>3. CASE tx' = Append(tx, a)
  BY <1>3, Queues
<1> QED
  BY <1>1, <1>2, <1>3

LEMMA AnswerEmptyKeeps == IInv /\ AnswerEmpty => IInv'
<1> SUFFICES ASSUME IInv, AnswerEmpty PROVE IInv'
  OBVIOUS
<1> DEFINE a == [kind |-> "other", domain |-> Head(rx).domain]
<1>1. /\ Taken /\ Head(rx).kind = "other" /\ SendSlice(a)
      /\ UNCHANGED <<poolVars, named>>
      /\ UNCHANGED <<domain_to_ip, ip_to_domain, tun, rx_queue, established, learnt, routed, named>>
  BY DEF AnswerEmpty, poolVars
<1>2. rx' \in Seq(Query) /\ Head(rx).domain \in Domain
  BY <1>1, TakenFacts
<1>3. a \in Answer /\ a.kind # "A" /\ tx \in Seq(Answer)
  BY <1>2 DEF Answer, IInv, Typed
<1> HIDE DEF a
<1>4. tx' \in Seq(Answer) /\ Elems(tx') \subseteq Elems(tx) \cup {a}
  BY <1>1, <1>3, SendSliceFacts
<1>5. Handed' = Handed /\ Packet' = Packet /\ Answer' = Answer /\ Connection' = Connection
  BY <1>1, QuietPool
<1>6. Typed'
  BY <1>1, <1>2, <1>4, <1>5 DEF IInv, Typed, NoIp
<1>7. Standing => Standing'
  BY <1>1, <1>3, <1>4 DEF Standing, NoIp, Elems
<1> QED
  BY <1>1, <1>6, <1>7, QuietStep DEF Keeps

\* Steps that at most take a datagram away.
LEMMA SkipKeeps ==
  ASSUME IInv, IngressDone \/ SkipMalformed \/ BreakOversized \/ ProcessDone
  PROVE  IInv'
<1>1. /\ Taken \/ UNCHANGED rx
      /\ UNCHANGED <<poolVars, named>>
      /\ UNCHANGED <<domain_to_ip, ip_to_domain, tun, rx_queue, tx, established, learnt, routed, named>>
  BY Zenon DEF IngressDone, SkipMalformed, BreakOversized, ProcessDone, poolVars
<1>2. rx' \in Seq(Query)
  BY <1>1, TakenFacts DEF IInv, Typed
<1>3. Handed' = Handed /\ Packet' = Packet /\ Answer' = Answer /\ Connection' = Connection
  BY <1>1, QuietPool
<1>4. Typed'
  BY <1>1, <1>2, <1>3 DEF IInv, Typed, NoIp
<1>5. Standing => Standing'
  BY <1>1 DEF Standing, NoIp, Elems
<1> QED
  BY <1>1, <1>4, <1>5, QuietStep DEF Keeps

\* target_for finds the name an address stands for.
LEMMA TargetFor ==
  ASSUME PoolIInv, NEW ip \in Handed
  PROVE  target_for(ip) = ip_to_domain[ip]
<1>1. POOL_START <= ip /\ ip <= POOL_END /\ ip_to_domain[ip] \in Domain
  BY PoolMaps, PoolAssumption
<1>2. lookup(ip) = {ip_to_domain[ip]}
  BY DEF lookup, Handed
<1>3. (CHOOSE d \in Domain : d \in {ip_to_domain[ip]}) = ip_to_domain[ip]
  BY <1>1
<1> QED
  BY <1>1, <1>2, <1>3 DEF target_for, is_fake_ip

LEMMA RouteKeeps == IInv /\ Route => IInv'
<1> SUFFICES ASSUME IInv, Route PROVE IInv'
  OBVIOUS
<1>1. /\ established' = {}
      /\ UNCHANGED <<poolVars, named>>
      /\ UNCHANGED <<domain_to_ip, ip_to_domain, tun, rx_queue, rx, tx, learnt, named>>
  BY DEF Route, poolVars
<1>2. Handed' = Handed /\ Packet' = Packet /\ Answer' = Answer /\ Connection' = Connection
  BY <1>1, QuietPool
<1>3. /\ DOMAIN routed' = Domain
      /\ routed' = [d \in Domain |-> routed'[d]]
      /\ \A d \in Domain :
           \/ routed'[d] = routed[d]
           \/ \E c \in established : c.domain = d /\ routed'[d] = target_for(c.ip)
  <2>1. \A d \in Domain : routed'[d] = IF \E c \in established : c.domain = d
                                       THEN target_for((CHOOSE c \in established : c.domain = d).ip)
                                       ELSE routed[d]
    BY DEF Route
  <2>2. DOMAIN routed' = Domain /\ routed' = [d \in Domain |-> routed'[d]]
    BY DEF Route
  <2> QED
    BY <2>1, <2>2
<1>4. \A c \in established : target_for(c.ip) = ip_to_domain[c.ip] /\ ip_to_domain[c.ip] \in Domain
  <2>1. PoolIInv /\ \A c \in established : c.ip \in Handed
    BY DEF IInv, Typed, Connection
  <2> QED
    BY <2>1, TargetFor, PoolMaps
<1>5. routed' \in [Domain -> Domain \cup {NoTarget, Dialling}]
  <2>1. \A d \in Domain : routed[d] \in Domain \cup {NoTarget, Dialling}
    BY DEF IInv, Typed
  <2>2. ASSUME NEW d \in Domain PROVE routed'[d] \in Domain \cup {NoTarget, Dialling}
    <3>1. CASE routed'[d] = routed[d]
      BY <2>1, <3>1
    <3>2. ASSUME NEW c \in established, routed'[d] = target_for(c.ip)
          PROVE  routed'[d] \in Domain
      BY <1>4, <3>2
    <3> QED
      BY <1>3, <3>1, <3>2
  <2> QED
    BY <1>3, <2>2, Zenon
<1>6. Typed'
  BY <1>1, <1>2, <1>5 DEF IInv, Typed, NoIp
<1>7. ASSUME Standing PROVE Standing'
  <2>1. \A d \in Domain : routed'[d] \notin {NoTarget, Dialling} => routed'[d] = d
    BY <1>3, <1>4, <1>7 DEF Standing
  <2> QED
    BY <1>1, <1>7, <2>1 DEF Standing, NoIp, Elems
<1> QED
  BY <1>1, <1>6, <1>7, QuietStep DEF Keeps

LEMMA EgressKeeps == IInv /\ Egress => IInv'
<1> SUFFICES ASSUME IInv, Egress PROVE IInv'
  OBVIOUS
<1> DEFINE a == Head(tx)
<1>1. /\ UNCHANGED <<poolVars, named>>
      /\ UNCHANGED <<domain_to_ip, ip_to_domain, tun, rx_queue, rx, established, routed, named>>
      /\ \/ UNCHANGED <<tx, learnt>>
         \/ /\ tx # <<>> /\ tx' = Tail(tx)
            /\ \/ UNCHANGED learnt
               \/ learnt' = [learnt EXCEPT ![a.domain] = IF a.kind = "A" THEN a.ip ELSE @]
  BY Zenon DEF Egress, poolVars
<1>2. Handed' = Handed /\ Packet' = Packet /\ Answer' = Answer /\ Connection' = Connection
  BY <1>1, QuietPool
<1>3. tx \in Seq(Answer) /\ learnt \in [Domain -> Handed \cup {NoIp}]
  BY DEF IInv, Typed
<1>4. tx # <<>> => /\ a \in Elems(tx) /\ a \in Answer
                   /\ Tail(tx) \in Seq(Answer) /\ Elems(Tail(tx)) \subseteq Elems(tx)
  BY <1>3, Queues
<1> HIDE DEF a
<1>5. tx' \in Seq(Answer) /\ Elems(tx') \subseteq Elems(tx)
  BY <1>1, <1>3, <1>4, Zenon
<1>6. /\ learnt' \in [Domain -> Handed \cup {NoIp}]
      /\ \A d \in Domain :
           \/ learnt'[d] = learnt[d]
           \/ tx # <<>> /\ a.kind = "A" /\ a.domain = d /\ learnt'[d] = a.ip
  <2>1. tx # <<>> => a.domain \in Domain /\ (a.kind = "A" => a.ip \in Handed)
    BY <1>4, Kinds
  <2>2. CASE UNCHANGED learnt
    BY <1>3, <2>2
  <2>3. CASE /\ tx # <<>>
             /\ learnt' = [learnt EXCEPT ![a.domain] = IF a.kind = "A" THEN a.ip ELSE @]
    BY <1>3, <2>1, <2>3
  <2> QED
    BY <1>1, <2>2, <2>3
<1>7. Typed'
  BY <1>1, <1>2, <1>5, <1>6 DEF IInv, Typed, NoIp
<1>8. ASSUME Standing PROVE Standing'
  <2>1. \A d \in Domain : learnt'[d] # NoIp => ip_to_domain[learnt'[d]] = d
    BY <1>4, <1>6, <1>8 DEF Standing
  <2> QED
    BY <1>1, <1>5, <1>8, <2>1 DEF Standing, NoIp
<1> QED
  BY <1>1, <1>7, <1>8, QuietStep DEF Keeps

\* The one step that allocates: what was handed out stays handed out, and while
\* the pool suffices nothing is taken from anybody.
LEMMA AnswerAKeeps == IInv /\ AnswerA => IInv'
<1> SUFFICES ASSUME IInv, AnswerA PROVE IInv'
  OBVIOUS
<1> DEFINE d == Head(rx).domain
           a == [kind |-> "A", domain |-> d, ip |-> domain_to_ip'[d]]
<1>1. /\ Taken /\ Head(rx).kind = "A" /\ named' = named \cup {d}
      /\ Resolve(d) /\ SendSlice(a)
      /\ UNCHANGED <<tun, rx_queue, established, learnt, routed>>
  BY Zenon DEF AnswerA
<1>2. rx' \in Seq(Query) /\ d \in Domain
  BY <1>1, TakenFacts
<1>3. a.kind = "A" /\ a.domain = d /\ a.ip = domain_to_ip'[d]
  OBVIOUS
<1>4. a \in [kind : {"A"}, domain : {d}, ip : {domain_to_ip'[d]}]
  OBVIOUS
<1> HIDE DEF d, a
<1>5. PoolIInv' /\ Handed \subseteq Handed' /\ d \in DOMAIN domain_to_ip'
  BY <1>1, <1>2, ResolveEffect DEF IInv
<1>6. domain_to_ip'[d] \in Handed' /\ ip_to_domain'[domain_to_ip'[d]] = d
  <2>1. Resolved'
    BY <1>5, ResolvedHanded, PTL
  <2> QED
    BY <1>5, <2>1 DEF Resolved
<1>7. Packet \subseteq Packet' /\ Answer \subseteq Answer' /\ Connection \subseteq Connection'
  BY <1>5 DEF Packet, Answer, Connection, Ack, AnswerWithIp, Query
<1>8. a \in Answer'
  BY <1>2, <1>4, <1>6 DEF Answer, AnswerWithIp
<1>9. tx' \in Seq(Answer') /\ Elems(tx') \subseteq Elems(tx) \cup {a}
  <2>1. tx \in Seq(Answer')
    BY <1>7, WiderSeq DEF IInv, Typed
  <2> QED
    BY <1>1, <1>8, <2>1, SendSliceFacts
<1>10. Typed'
  <2>1. tun' \in Seq(Packet') /\ rx_queue' \in Seq(Packet')
    BY <1>1, <1>7, WiderSeq DEF IInv, Typed
  <2>2. established' \subseteq Connection' /\ learnt' \in [Domain -> Handed' \cup {NoIp}]
    BY <1>1, <1>5, <1>7 DEF IInv, Typed
  <2>3. named' \subseteq Domain /\ IsFiniteSet(named')
    BY <1>1, <1>2, NamedGrows, Zenon DEF IInv, Typed
  <2>4. routed' \in [Domain -> Domain \cup {NoTarget, Dialling}]
    BY <1>1 DEF IInv, Typed
  <2> QED
    BY <1>2, <1>9, <2>1, <2>2, <2>3, <2>4 DEF Typed, NoIp
<1>11. ASSUME PoolSuffices' PROVE Roomy' /\ Standing'
  <2>1. Roomy /\ Standing
    BY <1>1, <1>2, <1>11, NamedGrows DEF IInv
  <2>2. Roomy' /\ \A ip \in Handed : ip_to_domain'[ip] = ip_to_domain[ip]
    BY <1>1, <1>2, <1>11, <2>1, ResolveKeeps DEF IInv
  <2>3. /\ \A p \in Elems(tun) \cup Elems(rx_queue) : p.kind = "ack" => p.ip \in Handed
        /\ \A p \in Elems(tx) : p.kind = "A" => p.ip \in Handed
        /\ \A c \in established : c.ip \in Handed
    <3>1. Elems(tun) \cup Elems(rx_queue) \subseteq Packet /\ Elems(tx) \subseteq Answer
      BY Queues DEF IInv, Typed
    <3> QED
      BY <3>1, Kinds DEF IInv, Typed, Connection
  <2>4. \A p \in Elems(tun') \cup Elems(rx_queue') : p.kind = "ack" => ip_to_domain'[p.ip] = p.domain
    BY <1>1, <2>1, <2>2, <2>3 DEF Standing
  <2>5. \A p \in Elems(tx') : p.kind = "A" => ip_to_domain'[p.ip] = p.domain
    BY <1>3, <1>6, <1>9, <2>1, <2>2, <2>3 DEF Standing
  <2>6. \A c \in established' : ip_to_domain'[c.ip] = c.domain
    BY <1>1, <2>1, <2>2, <2>3 DEF Standing
  <2>7. \A e \in Domain : learnt'[e] # NoIp => ip_to_domain'[learnt'[e]] = e
    BY <1>1, <2>1, <2>2, Zenon DEF Standing, IInv, Typed
  <2>8. \A e \in Domain : routed'[e] \notin {NoTarget, Dialling} => routed'[e] = e
    BY <1>1, <2>1 DEF Standing
  <2> QED
    BY <2>2, <2>4, <2>5, <2>6, <2>7, <2>8 DEF Standing, NoIp
<1> QED
  BY <1>5, <1>10, <1>11 DEF IInv

-----------------------------------------------------------------------------
LEMMA InitIInv == Init => IInv
<1> SUFFICES ASSUME Init PROVE IInv
  OBVIOUS
<1>1. /\ PoolInit /\ tun = <<>> /\ rx_queue = <<>> /\ rx = <<>> /\ tx = <<>>
      /\ established = {} /\ named = {}
      /\ learnt = [d \in Domain |-> NoIp] /\ routed = [d \in Domain |-> NoTarget]
  BY DEF Init
<1>2. PoolIInv
  BY <1>1, PoolInitIInv
<1>3. IsFiniteSet({}) /\ Cardinality({}) = 0
  BY FS_EmptySet
<1>4. Typed
  BY <1>1, <1>3 DEF Typed
<1>5. Roomy
  <2>1. DOMAIN domain_to_ip = {} /\ DOMAIN ip_to_domain = {} /\ next_offset = 0
    BY <1>1 DEF PoolInit
  <2>2. Pool # {}
    BY PoolAssumption DEF Pool
  <2> QED
    BY <1>1, <1>3, <2>1, <2>2 DEF Roomy, LiveCount
<1>6. Standing
  <2>1. Elems(<<>>) = {}
    BY DEF Elems
  <2> QED
    BY <1>1, <2>1 DEF Standing
<1> QED
  BY <1>2, <1>4, <1>5, <1>6 DEF IInv

LEMMA NextIInv == IInv /\ [Next]_vars => IInv'
<1> SUFFICES ASSUME IInv, [Next]_vars PROVE IInv'
  OBVIOUS
<1>1. CASE UNCHANGED vars
  <2>1. /\ UNCHANGED <<poolVars, named>>
        /\ UNCHANGED <<domain_to_ip, ip_to_domain, tun, rx_queue, rx, tx, established, learnt, routed, named>>
    BY <1>1 DEF vars, poolVars
  <2>2. Handed' = Handed /\ Packet' = Packet /\ Answer' = Answer /\ Connection' = Connection
    BY <2>1, QuietPool
  <2>3. Typed'
    BY <2>1, <2>2 DEF IInv, Typed, NoIp
  <2>4. Standing => Standing'
    BY <2>1 DEF Standing, NoIp, Elems
  <2> QED
    BY <2>1, <2>3, <2>4, QuietStep DEF Keeps
<1>2. ASSUME NEW q \in Query, Ask(q) PROVE IInv'
  BY <1>2, AskKeeps
<1>3. ASSUME NEW d \in Domain, Dial(d) PROVE IInv'
  BY <1>3, DialKeeps
<1>4. CASE PollRead
  BY <1>4, PollReadKeeps
<1>5. CASE Ingress
  BY <1>5, IngressKeeps
<1>6. CASE AnswerA
  BY <1>6, AnswerAKeeps
<1>7. CASE AnswerEmpty
  BY <1>7, AnswerEmptyKeeps
<1>8. CASE IngressDone \/ SkipMalformed \/ BreakOversized \/ ProcessDone
  BY <1>8, SkipKeeps
<1>9. CASE Route
  BY <1>9, RouteKeeps
<1>10. CASE Egress
  BY <1>10, EgressKeeps
<1> QED
  BY <1>1, <1>2, <1>3, <1>4, <1>5, <1>6, <1>7, <1>8, <1>9, <1>10 DEF Next, Tick, Process

LEMMA Invariance == Spec => []IInv
BY InitIInv, NextIInv, PTL DEF Spec

\* A connection to an address an answer gave is routed to the name that was
\* asked for while no more names were asked for than the pool has addresses, and
\* to some name, never to the bare fake address, even afterwards: for every pool,
\* every set of names, every loss of a question or an answer.
THEOREM AlwaysRoutedAsAsked == Spec => []RoutedAsAsked
<1>1. IInv => RoutedAsAsked
  <2> SUFFICES ASSUME IInv, NEW d \in Domain, routed[d] \notin {NoTarget, Dialling}
               PROVE  routed[d] # Numeric /\ (PoolSuffices => routed[d] = d)
    BY DEF RoutedAsAsked
  <2>1. routed[d] \in Domain
    BY DEF IInv, Typed
  <2> QED
    BY <2>1, NumericAssumption DEF IInv, Standing
<1> QED
  BY <1>1, Invariance, PTL

\* While the pool suffices, the answers waiting to be sent give one address per
\* name and one name per address, and the address the application already has,
\* so a question whose answer was dropped can be asked again.
THEOREM AnswersAlwaysAgree == Spec => []AnswersAgree
<1>1. IInv => AnswersAgree
  <2> SUFFICES ASSUME IInv, PoolSuffices PROVE AnswersAgree
    BY DEF AnswersAgree
  <2>1. Standing /\ tx \in Seq(Answer) /\ learnt \in [Domain -> Handed \cup {NoIp}]
    BY DEF IInv, Typed
  <2>2. \A ip \in Handed : domain_to_ip[ip_to_domain[ip]] = ip
    BY PoolMaps DEF IInv
  <2>3. \A i \in 1 .. Len(tx) : tx[i].kind = "A" =>
          /\ tx[i].ip \in Handed /\ tx[i].domain \in Domain
          /\ ip_to_domain[tx[i].ip] = tx[i].domain
    <3>1. \A i \in 1 .. Len(tx) : tx[i] \in Elems(tx) /\ tx[i] \in Answer
      BY <2>1 DEF Elems
    <3> QED
      BY <2>1, <3>1, Kinds DEF Standing
  <2>4. \A d \in Domain : learnt[d] # NoIp => learnt[d] \in Handed /\ ip_to_domain[learnt[d]] = d
    BY <2>1 DEF Standing
  <2> QED
    BY <2>2, <2>3, <2>4 DEF AnswersAgree
<1> QED
  BY <1>1, Invariance, PTL
=============================================================================
