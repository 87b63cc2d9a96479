------------------------------ MODULE FakeDns ------------------------------
(***************************************************************************)
(* The fake-IP pool of src/fake_dns.rs: a ring of addresses handed out to  *)
(* domain names, with one map per direction.  Addresses are numbers; the   *)
(* pool is POOL_START .. POOL_END, every other number is a real address.   *)
(***************************************************************************)
EXTENDS Naturals, Sequences

CONSTANTS Domain,      \* domain names an application may ask for
          POOL_START,  \* first fake address
          POOL_END     \* last fake address

ASSUME PoolAssumption ==
  POOL_START \in Nat /\ POOL_END \in Nat /\ POOL_START <= POOL_END

VARIABLES domain_to_ip,  \* the forward map: a function on the live domains
          ip_to_domain,  \* the reverse map: a function on the used addresses
          next_offset    \* offset of the next address to hand out

poolVars == <<domain_to_ip, ip_to_domain, next_offset>>

POOL_SIZE == POOL_END - POOL_START + 1

Pool == POOL_START .. POOL_END

is_fake_ip(ip) == POOL_START <= ip /\ ip <= POOL_END

\* HashMap::insert and HashMap::remove on a map held as a function.
Insert(f, x, v) == [y \in DOMAIN f \cup {x} |-> IF y = x THEN v ELSE f[y]]
Remove(f, S) == [y \in DOMAIN f \ S |-> f[y]]

-----------------------------------------------------------------------------
PoolInit ==
  /\ domain_to_ip = [d \in {} |-> POOL_START]
  /\ ip_to_domain = [ip \in {} |-> POOL_START]
  /\ next_offset = 0

\* The address the next allocation takes, and the domain it evicts, if any.
NextIp == POOL_START + next_offset
Evicted == {ip_to_domain[ip] : ip \in {NextIp} \cap DOMAIN ip_to_domain}

\* A bug in the ring arithmetic: one address too few.
Advance_SkipsLast == (next_offset + 1) % (POOL_SIZE - 1)

Advance == (next_offset + 1) % POOL_SIZE

\* A bug that keeps the evicted domain in the forward map.
Allocate_KeepsEvicted(d) ==
  /\ d \notin DOMAIN domain_to_ip
  /\ next_offset' = Advance
  /\ domain_to_ip' = Insert(domain_to_ip, d, NextIp)
  /\ ip_to_domain' = Insert(ip_to_domain, NextIp, d)

\* resolve() of a domain that has no address: take the next one of the ring
\* and evict whoever holds it.
Allocate(d) ==
  /\ d \notin DOMAIN domain_to_ip
  /\ next_offset' = Advance
  /\ domain_to_ip' = Insert(Remove(domain_to_ip, Evicted), d, NextIp)
  /\ ip_to_domain' = Insert(ip_to_domain, NextIp, d)

\* resolve() of a domain that has an address: the fast path changes nothing.
Hit(d) == d \in DOMAIN domain_to_ip /\ UNCHANGED poolVars

Resolve(d) == Hit(d) \/ Allocate(d)

lookup(ip) == {ip_to_domain[i] : i \in {ip} \cap DOMAIN ip_to_domain}

PoolNext == \E d \in Domain : Resolve(d)

PoolSpec == PoolInit /\ [][PoolNext]_poolVars

-----------------------------------------------------------------------------
\* The two maps are partial functions between Domain and the pool.
PoolTypeOK ==
  /\ domain_to_ip \in UNION {[D -> Pool] : D \in SUBSET Domain}
  /\ ip_to_domain \in UNION {[A -> Domain] : A \in SUBSET Pool}
  /\ next_offset \in 0 .. POOL_SIZE - 1

\* The forward and the reverse map describe the same pairs, before and after
\* any number of wrap-arounds: resolve() never leaves a domain whose address
\* looks up another domain, nor an address whose domain has moved on.
MapsInverse ==
  /\ \A d \in DOMAIN domain_to_ip :
       /\ domain_to_ip[d] \in DOMAIN ip_to_domain
       /\ ip_to_domain[domain_to_ip[d]] = d
  /\ \A ip \in DOMAIN ip_to_domain :
       /\ ip_to_domain[ip] \in DOMAIN domain_to_ip
       /\ domain_to_ip[ip_to_domain[ip]] = ip

\* Addresses are handed out in ring order: until the first wrap-around the
\* used ones are exactly those below the next one, afterwards all are used.
RingFilled ==
  \/ DOMAIN ip_to_domain = Pool
  \/ DOMAIN ip_to_domain = POOL_START .. NextIp - 1

\* The live pairs, oldest first: the ring read from the next slot onwards once
\* it is full, from the first slot until then.
Oldest == IF DOMAIN ip_to_domain = Pool THEN next_offset ELSE 0
Slot(i) == POOL_START + ((Oldest + i - 1) % POOL_SIZE)
LiveCount == IF DOMAIN ip_to_domain = Pool THEN POOL_SIZE ELSE next_offset
Live == [i \in 1 .. LiveCount |-> [domain |-> ip_to_domain[Slot(i)], ip |-> Slot(i)]]

\* resolve() implements the bounded first-in first-out table: the same domain
\* gets the same address until the wrap-around evicts it, and the wrap-around
\* evicts the oldest allocation.
Fifo == INSTANCE FifoPool WITH live <- Live, Address <- Pool, Capacity <- POOL_SIZE
ImplementsFifo == Fifo!Spec
=============================================================================
