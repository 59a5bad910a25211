-------------------------- MODULE FakeIpDnsProofs --------------------------
(***************************************************************************)
(* For every set of domains and every pool size: the maps of the fake-IP   *)
(* pool stay inverse to each other, the fallback of evictLru ("should      *)
(* never happen") is never taken, an answered address stays valid until    *)
(* POOL_SIZE other domains were used, and the pool implements the lease    *)
(* specification AddressLease.                                             *)
(*                                                                         *)
(* The first two need PoolInv only; the last two need the order of the     *)
(* LRU list (LruOrder), stated with a rank for every node.                 *)
(***************************************************************************)
EXTENDS FakeIpDns, TLAPS, FiniteSetTheorems

\* Once an offset has been handed out, the list has a tail to evict.
TailExists == lru.tail = Null => nextOffset = 1

\* Offsets not yet handed out are unbound.
FreshUnbound == \A o \in Offset : offsetToEntry[o] # NoDomain => o < nextOffset

PoolInv == TypeOK /\ MapsInverse /\ TailExists /\ FreshUnbound

LruType == [head : Link, tail : Link, prev : [Offset -> Link],
            next : [Offset -> Link], nodes : SUBSET Offset]

-----------------------------------------------------------------------------

(* removeNode keeps the list well typed. *)
LEMMA RemoveNodeType ==
  ASSUME NEW l \in LruType, NEW n \in Offset
  PROVE  removeNode(l, n) \in LruType
<1>1. /\ l.head \in Link /\ l.tail \in Link /\ l.nodes \in SUBSET Offset
      /\ l.prev \in [Offset -> Link] /\ l.next \in [Offset -> Link]
  BY DEF LruType
<1>2. Null \in Link /\ l.prev[n] \in Link /\ l.next[n] \in Link
  BY <1>1, PoolSizeAssumption DEF Link, Null
<1>3. UnlinkedNext(l, n) \in [Offset -> Link] /\ UnlinkedPrev(l, n) \in [Offset -> Link]
  BY <1>1, <1>2 DEF UnlinkedNext, UnlinkedPrev
<1> QED
  BY <1>1, <1>2, <1>3 DEF LruType, removeNode

(* insertAtHead keeps the list well typed and always leaves a tail. *)
LEMMA InsertAtHeadType ==
  ASSUME NEW l \in LruType, NEW n \in Offset
  PROVE  insertAtHead(l, n) \in LruType /\ insertAtHead(l, n).tail # Null
<1>1. /\ l.head \in Link /\ l.tail \in Link /\ l.nodes \in SUBSET Offset
      /\ l.prev \in [Offset -> Link] /\ l.next \in [Offset -> Link]
  BY DEF LruType
<1>2. n \in Link /\ Null \in Link /\ n # Null
  BY PoolSizeAssumption DEF Link, Offset, Null
<1>3. /\ [o \in Offset |-> IF o = l.head THEN n
                           ELSE IF o = n THEN Null ELSE l.prev[o]] \in [Offset -> Link]
      /\ [l.next EXCEPT ![n] = l.head] \in [Offset -> Link]
  BY <1>1, <1>2
<1> QED
  BY <1>1, <1>2, <1>3 DEF LruType, insertAtHead

(* touchLru keeps the type, and the tail of a list that has one. *)
LEMMA TouchLruType ==
  ASSUME NEW l \in LruType, NEW n \in Offset
  PROVE  /\ touchLru(l, n) \in LruType
         /\ l.tail # Null => touchLru(l, n).tail # Null
  BY RemoveNodeType, InsertAtHeadType DEF touchLru

(* appendLru keeps the type and leaves a tail. *)
LEMMA AppendLruType ==
  ASSUME NEW l \in LruType, NEW n \in Offset
  PROVE  appendLru(l, n) \in LruType /\ appendLru(l, n).tail # Null
<1>1. [l EXCEPT !.nodes = @ \cup {n}] \in LruType
  BY DEF LruType
<1> QED  BY <1>1, InsertAtHeadType DEF appendLru

(* An address translates to an offset of the pool or to none. *)
LEMMA IpToOffsetRange ==
  ASSUME NEW ip
  PROVE  ipToOffset(ip) \in Offset \cup {Null}
  BY DEF ipToOffset, ipv4ToOffset, ipv6ToOffset

-----------------------------------------------------------------------------

(* The initial pool satisfies the inductive invariant. *)
LEMMA PoolInit == DnsInit => PoolInv
  BY PoolSizeAssumption
  DEF DnsInit, Init, PoolInv, TypeOK, MapsInverse, TailExists, FreshUnbound,
      EmptyLru, Link, Offset, Null

(* A known domain keeps its offset. *)
LEMMA KnownStep ==
  ASSUME PoolInv, NEW d \in Domain, AllocateKnown(d)
  PROVE  /\ domainToOffset' \in [Domain -> Link]
         /\ offsetToEntry' \in [Offset -> Domain \cup {NoDomain}]
         /\ lru' \in LruType /\ nextOffset' \in 1..(POOL_SIZE + 1)
         /\ MapsInverse' /\ TailExists' /\ FreshUnbound'
<1>1. domainToOffset[d] \in Offset /\ lru \in LruType
  BY PoolSizeAssumption DEF PoolInv, TypeOK, AllocateKnown, LruType, Link, Offset, Null
<1>2. lru' \in LruType /\ (lru.tail # Null => lru'.tail # Null)
  BY <1>1, TouchLruType DEF AllocateKnown
<1> QED
  BY <1>2 DEF PoolInv, TypeOK, AllocateKnown, MapsInverse, TailExists, FreshUnbound

(* A fresh offset is bound to no other domain. *)
LEMMA FreshStep ==
  ASSUME PoolInv, NEW d \in Domain, AllocateFresh(d)
  PROVE  /\ domainToOffset' \in [Domain -> Link]
         /\ offsetToEntry' \in [Offset -> Domain \cup {NoDomain}]
         /\ lru' \in LruType /\ nextOffset' \in 1..(POOL_SIZE + 1)
         /\ MapsInverse' /\ TailExists' /\ FreshUnbound'
<1>1. /\ nextOffset \in Offset /\ nextOffset' = nextOffset + 1
      /\ domainToOffset \in [Domain -> Link] /\ domainToOffset[d] = Null
      /\ offsetToEntry \in [Offset -> Domain \cup {NoDomain}]
      /\ lru \in LruType
  BY PoolSizeAssumption DEF PoolInv, TypeOK, AllocateFresh, Offset, LruType
<1>2. /\ domainToOffset' = [domainToOffset EXCEPT ![d] = nextOffset]
      /\ offsetToEntry' = [offsetToEntry EXCEPT ![nextOffset] = d]
      /\ lru' = appendLru(lru, nextOffset)
  BY DEF AllocateFresh, Bind
<1>3. offsetToEntry[nextOffset] = NoDomain
  BY <1>1 DEF PoolInv, FreshUnbound, Offset
<1>4. lru' \in LruType /\ lru'.tail # Null
  BY <1>1, <1>2, AppendLruType
<1>5. \A e \in Domain : domainToOffset[e] # nextOffset
  BY <1>1, <1>3, NoDomainAssumption DEF PoolInv, MapsInverse, Offset, Null
<1>6. MapsInverse'
  BY <1>1, <1>2, <1>3, <1>5, NoDomainAssumption
  DEF PoolInv, MapsInverse, Offset, Link, Null
<1>7. FreshUnbound'
  BY <1>1, <1>2 DEF PoolInv, FreshUnbound, Offset
<1> QED
  BY <1>1, <1>2, <1>4, <1>6, <1>7, PoolSizeAssumption DEF TailExists, Offset, Link

(* An evicted offset loses its domain before it is bound again. *)
LEMMA EvictStep ==
  ASSUME PoolInv, NEW d \in Domain, AllocateEvict(d)
  PROVE  /\ domainToOffset' \in [Domain -> Link]
         /\ offsetToEntry' \in [Offset -> Domain \cup {NoDomain}]
         /\ lru' \in LruType /\ nextOffset' \in 1..(POOL_SIZE + 1)
         /\ MapsInverse' /\ TailExists' /\ FreshUnbound'
<1>1. /\ nextOffset \in 1..(POOL_SIZE + 1) /\ nextOffset' = nextOffset
      /\ nextOffset > POOL_SIZE
      /\ domainToOffset \in [Domain -> Link] /\ domainToOffset[d] = Null
      /\ offsetToEntry \in [Offset -> Domain \cup {NoDomain}]
      /\ lru \in LruType
  BY DEF PoolInv, TypeOK, AllocateEvict, LruType
<1>2. lru.tail \in Offset
  BY <1>1, PoolSizeAssumption DEF PoolInv, TailExists, LruType, Link, Offset, Null
<1> DEFINE t == lru.tail
           dto == [e \in Domain |-> IF e = offsetToEntry[t] THEN Null
                                    ELSE domainToOffset[e]]
<1>3. /\ domainToOffset' = [dto EXCEPT ![d] = t]
      /\ offsetToEntry' = [offsetToEntry EXCEPT ![t] = d]
      /\ lru' = appendLru(EvictedList, t)
  <2>1. t # Null
    BY <1>2 DEF Offset, Null
  <2>2. EvictedOffset = t /\ EvictedMap = dto
    BY <2>1 DEF EvictedOffset, EvictedMap
  <2>3. Bind(d, t, dto, EvictedList)
    BY <2>2, Zenon DEF AllocateEvict
  <2> HIDE DEF t, dto
  <2> QED  BY <2>3 DEF Bind
<1>4. EvictedList \in LruType
  <2>1. removeNode(lru, t) \in LruType
    BY <1>1, <1>2, RemoveNodeType
  <2>2. EvictedList = [removeNode(lru, t) EXCEPT !.nodes = @ \ {t}]
    BY <1>2, PoolSizeAssumption DEF EvictedList, Offset, Null
  <2> HIDE DEF t
  <2> QED  BY <2>1, <2>2 DEF LruType
<1>5. lru' \in LruType /\ lru'.tail # Null
  BY <1>2, <1>3, <1>4, AppendLruType
<1>6. dto \in [Domain -> Link] /\ dto[d] = Null
  BY <1>1, PoolSizeAssumption DEF Link, Null
<1>7. \A e \in Domain : dto[e] # t
  BY <1>1, <1>2 DEF PoolInv, MapsInverse, Offset, Null
<1>8. MapsInverse'
  <2>1. \A e \in Domain : domainToOffset'[e] # Null
                            => offsetToEntry'[domainToOffset'[e]] = e
    <3> SUFFICES ASSUME NEW e \in Domain, domainToOffset'[e] # Null
                 PROVE  offsetToEntry'[domainToOffset'[e]] = e
      OBVIOUS
    <3>1. CASE e = d
      BY <1>1, <1>2, <1>3, <1>6, <3>1
    <3>2. CASE e # d
      <4>1. domainToOffset'[e] = dto[e] /\ dto[e] = domainToOffset[e]
        BY <1>1, <1>3, <1>6, <3>2
      <4>2. offsetToEntry[domainToOffset[e]] = e /\ domainToOffset[e] \in Offset
        BY <1>1, <4>1, PoolSizeAssumption DEF PoolInv, MapsInverse, Link, Offset, Null
      <4> QED  BY <1>1, <1>3, <1>7, <4>1, <4>2
    <3> QED  BY <3>1, <3>2
  <2>2. \A o \in Offset : offsetToEntry'[o] # NoDomain
                            => domainToOffset'[offsetToEntry'[o]] = o
    <3> SUFFICES ASSUME NEW o \in Offset, offsetToEntry'[o] # NoDomain
                 PROVE  domainToOffset'[offsetToEntry'[o]] = o
      OBVIOUS
    <3>1. CASE o = t
      BY <1>1, <1>2, <1>3, <1>6, <3>1
    <3>2. CASE o # t
      <4>1. offsetToEntry'[o] = offsetToEntry[o] /\ offsetToEntry[o] \in Domain
        BY <1>1, <1>2, <1>3, <3>2
      <4>2. domainToOffset[offsetToEntry[o]] = o
        BY <4>1, NoDomainAssumption DEF PoolInv, MapsInverse
      <4>3. offsetToEntry[o] # d /\ offsetToEntry[o] # offsetToEntry[t]
        BY <1>1, <1>2, <4>1, <4>2, <3>2, NoDomainAssumption
        DEF PoolInv, MapsInverse, Offset, Null
      <4> QED  BY <1>1, <1>3, <1>6, <4>1, <4>2, <4>3
    <3> QED  BY <3>1, <3>2
  <2> QED  BY <2>1, <2>2 DEF MapsInverse
<1>9. FreshUnbound'
  BY <1>1, PoolSizeAssumption DEF FreshUnbound, Offset
<1> QED
  BY <1>1, <1>2, <1>3, <1>5, <1>6, <1>8, <1>9, PoolSizeAssumption
  DEF TailExists, Offset, Link

(* Every step of the stack preserves the inductive invariant. *)
LEMMA PoolNext == PoolInv /\ [Next]_vars => PoolInv'
<1> SUFFICES ASSUME PoolInv, [Next]_vars PROVE PoolInv'
  OBVIOUS
<1>1. ASSUME NEW d \in Domain, NEW qtype \in {A, AAAA}, handleDnsQuery(d, qtype)
      PROVE  PoolInv'
  <2>1. /\ domainToOffset' \in [Domain -> Link]
        /\ offsetToEntry' \in [Offset -> Domain \cup {NoDomain}]
        /\ lru' \in LruType /\ nextOffset' \in 1..(POOL_SIZE + 1)
        /\ MapsInverse' /\ TailExists' /\ FreshUnbound'
    BY <1>1, KnownStep, FreshStep, EvictStep DEF handleDnsQuery, allocate
  <2>2. since' \in [Domain -> SUBSET Domain]
    <3>1. since' = [e \in Domain |-> IF e = d THEN {} ELSE since[e] \cup {d}]
      BY <1>1 DEF handleDnsQuery, Used
    <3>2. since \in [Domain -> SUBSET Domain]
      BY DEF PoolInv, TypeOK
    <3> QED  BY <3>1, <3>2
  <2>3. answered' \in [Domain -> Link]
    <3> DEFINE a == IF qtype = A \/ ipv6DNSEnabled THEN domainToOffset'[d]
                    ELSE IF domainToOffset[d] = Null THEN Null ELSE answered[d]
    <3>1. answered \in [Domain -> Link] /\ Null \in Link
      BY PoolSizeAssumption DEF PoolInv, TypeOK, Link, Null
    <3>2. a \in Link
      BY <2>1, <3>1
    <3>3. answered' = [answered EXCEPT ![d] = a]
      BY <1>1, Zenon DEF handleDnsQuery
    <3> HIDE DEF a
    <3> QED  BY <3>1, <3>2, <3>3
  <2> QED
    BY <1>1, <2>1, <2>2, <2>3 DEF handleDnsQuery, PoolInv, TypeOK, LruType
<1>2. ASSUME NEW ip \in Address, resolveFakeIp(ip) PROVE PoolInv'
  <2>1. /\ UNCHANGED <<domainToOffset, offsetToEntry, nextOffset>>
        /\ UNCHANGED <<ipv6DNSEnabled, answered>>
    BY <1>2 DEF resolveFakeIp, lookup, poolVars
  <2>2. lru' \in LruType /\ (lru.tail # Null => lru'.tail # Null)
    <3>1. lru \in LruType
      BY DEF PoolInv, TypeOK, LruType
    <3>2. CASE lru' = lru
      BY <3>1, <3>2
    <3>3. CASE lru' # lru
      <4>1. lru' = touchLru(lru, ipToOffset(ip)) /\ LookupResult(ip) # NoDomain
        BY <1>2, <3>3 DEF resolveFakeIp, lookup, poolVars
      <4>2. ipToOffset(ip) \in Offset
        BY <4>1, IpToOffsetRange DEF LookupResult
      <4> QED  BY <3>1, <4>1, <4>2, TouchLruType
    <3> QED  BY <3>2, <3>3
  <2>3. since' \in [Domain -> SUBSET Domain]
    BY <1>2 DEF resolveFakeIp, Used, PoolInv, TypeOK
  <2> QED
    BY <2>1, <2>2, <2>3
    DEF PoolInv, TypeOK, LruType, MapsInverse, TailExists, FreshUnbound
<1>3. ASSUME NEW v6 \in BOOLEAN, restartStackNow(v6) PROVE PoolInv'
  BY <1>3
  DEF restartStackNow, poolVars, PoolInv, TypeOK, MapsInverse, TailExists, FreshUnbound
<1>4. ASSUME stop PROVE PoolInv'
  BY <1>4, PoolSizeAssumption
  DEF stop, reset, PoolInv, TypeOK, MapsInverse, TailExists, FreshUnbound,
      EmptyLru, Link, Offset, Null
<1>5. ASSUME UNCHANGED vars PROVE PoolInv'
  BY <1>5 DEF vars, PoolInv, TypeOK, MapsInverse, TailExists, FreshUnbound
<1> QED
  BY <1>1, <1>2, <1>3, <1>4, <1>5 DEF Next

(* The state of the pool is well typed in every reachable state. *)
THEOREM PoolTypeCorrect == Spec => []TypeOK
<1>1. PoolInv => TypeOK
  BY DEF PoolInv
<1> QED  BY PoolInit, PoolNext, <1>1, PTL DEF Spec

(* No address ever stands for two domains and no domain for two addresses, *)
(* for any number of domains and any pool size.                            *)
THEOREM PoolMapsInverse == Spec => []MapsInverse
<1>1. PoolInv => MapsInverse
  BY DEF PoolInv
<1> QED  BY PoolInit, PoolNext, <1>1, PTL DEF Spec

(* evictLru never finds the list empty: its fallback is unreachable. *)
EvictFindsTail == nextOffset > POOL_SIZE => lru.tail # Null

(* The branch of evictLru whose comment says it should never happen indeed *)
(* never does.                                                             *)
THEOREM FallbackUnreachable == Spec => []EvictFindsTail
<1>1. PoolInv => EvictFindsTail
  BY PoolSizeAssumption DEF PoolInv, TailExists, TypeOK, EvictFindsTail
<1> QED  BY PoolInit, PoolNext, <1>1, PTL DEF Spec

-----------------------------------------------------------------------------
(* The order of the list.  rank places the nodes of S, k of them, at the  *)
(* distances 1..k from the head; next and prev lead to the neighbours.    *)
(* (A rank instead of induction along the links.)                          *)
Chain(l, S, k, rank) ==
  /\ k \in Nat
  /\ rank \in [S -> 1..k]
  /\ \A o, p \in S : rank[o] = rank[p] => o = p
  /\ S = {} => k = 0 /\ l.head = Null /\ l.tail = Null
  /\ S # {} => /\ l.head \in S /\ rank[l.head] = 1
               /\ l.tail \in S /\ rank[l.tail] = k
  /\ \A o \in S :
       /\ rank[o] = k => l.next[o] = Null
       /\ rank[o] < k => l.next[o] \in S /\ rank[l.next[o]] = rank[o] + 1
       /\ rank[o] = 1 => l.prev[o] = Null
       /\ rank[o] > 1 => l.prev[o] \in S /\ rank[l.prev[o]] = rank[o] - 1

\* The ranks after n was taken out, and after n was put first.
Closer(S, n, rank) ==
  [o \in S \ {n} |-> IF rank[o] > rank[n] THEN rank[o] - 1 ELSE rank[o]]
Farther(S, n, rank) ==
  [o \in S \cup {n} |-> IF o = n THEN 1 ELSE rank[o] + 1]


(* The node of a lower rank was used later: its domain is among those used *)
(* since the domain of the higher one.                                     *)
Recent(S, rank, entry, used) ==
  \A o, p \in S : rank[o] < rank[p] => entry[o] \in used[entry[p]]

\* The list is one chain through the bound offsets, in the order of use.
LruOrder ==
  \E rank \in [lru.nodes -> 1..Cardinality(lru.nodes)] :
    /\ Chain(lru, lru.nodes, Cardinality(lru.nodes), rank)
    /\ Recent(lru.nodes, rank, offsetToEntry, since)

\* A node for each binding; every offset handed out stays bound.
NodesBound == lru.nodes = {o \in Offset : offsetToEntry[o] # NoDomain}
HandedOutBound == \A o \in Offset : o < nextOffset => offsetToEntry[o] # NoDomain

\* The answer a domain got last is its binding, or POOL_SIZE other domains
\* were used since that binding was last used.
AnswerInv(d) ==
  /\ IsFiniteSet(since[d])
  /\ domainToOffset[d] # Null => answered[d] \in {Null, domainToOffset[d]}
  /\ domainToOffset[d] = Null /\ answered[d] # Null => Cardinality(since[d]) >= POOL_SIZE

DnsInv ==
  /\ PoolInv /\ LruOrder /\ NodesBound /\ HandedOutBound
  /\ \A d \in Domain : AnswerInv(d)

-----------------------------------------------------------------------------
(* The order is a matter of the pointers only. *)
LEMMA ChainSame ==
  ASSUME NEW l, NEW m, NEW S, NEW k, NEW rank, Chain(m, S, k, rank),
         l.head = m.head, l.tail = m.tail, l.next = m.next, l.prev = m.prev
  PROVE  Chain(l, S, k, rank)
  BY DEF Chain

(* removeNode leaves one chain through the other nodes. *)
LEMMA RemoveNodeChain ==
  ASSUME NEW l \in LruType, NEW S \in SUBSET Offset, NEW k, NEW rank,
         Chain(l, S, k, rank), NEW n \in S
  PROVE  Chain(removeNode(l, n), S \ {n}, k - 1, Closer(S, n, rank))
<1> DEFINE T == S \ {n}
           m == removeNode(l, n)
           r == Closer(S, n, rank)
<1>1. /\ k \in Nat /\ k >= 1 /\ rank \in [S -> 1..k] /\ n \in Offset
      /\ \A o, p \in S : rank[o] = rank[p] => o = p
      /\ l.head \in S /\ rank[l.head] = 1
      /\ l.tail \in S /\ rank[l.tail] = k
      /\ \A o \in S :
           /\ rank[o] = k => l.next[o] = Null
           /\ rank[o] < k => l.next[o] \in S /\ rank[l.next[o]] = rank[o] + 1
           /\ rank[o] = 1 => l.prev[o] = Null
           /\ rank[o] > 1 => l.prev[o] \in S /\ rank[l.prev[o]] = rank[o] - 1
  BY DEF Chain
<1>2. /\ m.head = IF n = l.head THEN l.next[n] ELSE l.head
      /\ m.tail = IF n = l.tail THEN l.prev[n] ELSE l.tail
      /\ \A o \in T : m.next[o] = IF o = l.prev[n] THEN l.next[n] ELSE l.next[o]
      /\ \A o \in T : m.prev[o] = IF o = l.next[n] THEN l.prev[n] ELSE l.prev[o]
  BY DEF removeNode, UnlinkedNext, UnlinkedPrev
<1>3. /\ \A o \in T : r[o] = IF rank[o] > rank[n] THEN rank[o] - 1 ELSE rank[o]
      /\ DOMAIN r = T
      /\ r = [o \in T |-> r[o]]
  BY DEF Closer
<1> HIDE DEF m, r
<1>4. \A o \in T : rank[o] # rank[n] /\ rank[o] \in 1..k /\ rank[n] \in 1..k
  BY <1>1
<1>5. r \in [T -> 1..(k-1)]
  BY <1>1, <1>3, <1>4
<1>6. \A o, p \in T : r[o] = r[p] => o = p
  BY <1>1, <1>3, <1>4
<1>7. Null \notin S
  BY DEF Offset, Null
<1>8. T = {} => k - 1 = 0 /\ m.head = Null /\ m.tail = Null
  <2> SUFFICES ASSUME T = {} PROVE k = 1 /\ m.head = Null /\ m.tail = Null
    BY <1>1
  <2>1. n = l.head /\ n = l.tail /\ k = 1
    BY <1>1
  <2>2. l.next[n] = Null /\ l.prev[n] = Null
    BY <2>1, <1>1
  <2> QED BY <2>1, <2>2, <1>2
<1>9. T # {} => /\ m.head \in T /\ r[m.head] = 1
                /\ m.tail \in T /\ r[m.tail] = k - 1
  <2> SUFFICES ASSUME T # {} PROVE /\ m.head \in T /\ r[m.head] = 1
                /\ m.tail \in T /\ r[m.tail] = k - 1
    OBVIOUS
  <2>0. k > 1
    <3>1. PICK o \in T : TRUE
      OBVIOUS
    <3> QED BY <1>1, <1>4, <3>1
  <2>1. m.head \in T /\ r[m.head] = 1
    BY <2>0, <1>1, <1>2, <1>3, <1>4
  <2>2. m.tail \in T /\ r[m.tail] = k - 1
    BY <2>0, <1>1, <1>2, <1>3, <1>4
  <2> QED BY <2>1, <2>2
<1>10. ASSUME NEW o \in T
       PROVE  /\ r[o] = k - 1 => m.next[o] = Null
              /\ r[o] < k - 1 => m.next[o] \in T /\ r[m.next[o]] = r[o] + 1
  <2>1. CASE o = l.prev[n]
    BY <2>1, <1>1, <1>2, <1>3, <1>4, <1>7
  <2>2. CASE o # l.prev[n]
    <3>1. rank[n] > 1 => rank[o] # rank[n] - 1
      BY <1>1, <2>2
    <3>2. rank[o] # rank[n] - 1
      BY <1>1, <3>1
    <3>3. m.next[o] = l.next[o]
      BY <1>2, <2>2
    <3> QED BY <3>2, <3>3, <1>1, <1>3, <1>4, <1>7
  <2> QED BY <2>1, <2>2
<1>11. ASSUME NEW o \in T
       PROVE  /\ r[o] = 1 => m.prev[o] = Null
              /\ r[o] > 1 => m.prev[o] \in T /\ r[m.prev[o]] = r[o] - 1
  <2>1. CASE o = l.next[n]
    <3>1. m.prev[o] = l.prev[n]
      BY <2>1, <1>2
    <3>2. rank[n] < k /\ rank[o] = rank[n] + 1
      BY <2>1, <1>1, <1>4, <1>7
    <3>3. r[o] = rank[n]
      BY <3>2, <1>3, <1>4
    <3>4. rank[n] > 1 => l.prev[n] \in T /\ r[l.prev[n]] = rank[n] - 1
      BY <1>1, <1>3, <1>4
    <3> QED BY <3>1, <3>3, <3>4, <1>1
  <2>2. CASE o # l.next[n]
    <3>1. rank[n] < k => rank[o] # rank[n] + 1
      BY <1>1, <2>2
    <3>2. rank[o] # rank[n] + 1
      BY <1>1, <3>1
    <3>3. m.prev[o] = l.prev[o]
      BY <1>2, <2>2
    <3> QED BY <3>2, <3>3, <1>1, <1>3, <1>4, <1>7
  <2> QED BY <2>1, <2>2
<1> QED
  <2>1. k - 1 \in Nat
    BY <1>1
  <2>2. Chain(m, T, k - 1, r)
    BY <2>1, <1>5, <1>6, <1>8, <1>9, <1>10, <1>11 DEF Chain
  <2> QED BY <2>2 DEF m, r

(* insertAtHead puts a new node before a chain. *)
LEMMA InsertAtHeadChain ==
  ASSUME NEW l \in LruType, NEW S \in SUBSET Offset, NEW k, NEW rank,
         Chain(l, S, k, rank), NEW n \in Offset, n \notin S
  PROVE  Chain(insertAtHead(l, n), S \cup {n}, k + 1, Farther(S, n, rank))
<1> DEFINE T == S \cup {n}
           m == insertAtHead(l, n)
           r == Farther(S, n, rank)
<1>1. /\ k \in Nat /\ rank \in [S -> 1..k]
      /\ \A o, p \in S : rank[o] = rank[p] => o = p
      /\ S = {} => k = 0 /\ l.head = Null /\ l.tail = Null
      /\ S # {} => /\ l.head \in S /\ rank[l.head] = 1
                   /\ l.tail \in S /\ rank[l.tail] = k
      /\ \A o \in S :
           /\ rank[o] = k => l.next[o] = Null
           /\ rank[o] < k => l.next[o] \in S /\ rank[l.next[o]] = rank[o] + 1
           /\ rank[o] = 1 => l.prev[o] = Null
           /\ rank[o] > 1 => l.prev[o] \in S /\ rank[l.prev[o]] = rank[o] - 1
  BY DEF Chain
<1>2. /\ m.head = n
      /\ m.tail = IF l.tail = Null THEN n ELSE l.tail
      /\ \A o \in T : m.next[o] = IF o = n THEN l.head ELSE l.next[o]
      /\ \A o \in T : m.prev[o] = IF o = l.head THEN n ELSE IF o = n THEN Null ELSE l.prev[o]
  BY DEF insertAtHead, LruType
<1>3. /\ \A o \in T : r[o] = IF o = n THEN 1 ELSE rank[o] + 1
      /\ DOMAIN r = T
      /\ r = [o \in T |-> r[o]]
  BY DEF Farther
<1> HIDE DEF m, r
<1>4. /\ n \in T /\ r[n] = 1 /\ S \subseteq T
      /\ \A o \in S : o # n /\ r[o] = rank[o] + 1 /\ rank[o] \in 1..k /\ r[o] > 1
      /\ \A o \in T : o # n => o \in S
  <2>1. k \in Nat /\ rank \in [S -> 1..k]
    BY <1>1
  <2>2. \A o \in S : o # n /\ o \in T /\ rank[o] \in 1..k
    BY <2>1
  <2> QED  BY <2>1, <2>2, <1>3
<1>5. Null \notin T
  BY DEF Offset, Null
<1>6. /\ m.next[n] = l.head /\ (n # l.head => m.prev[n] = Null)
      /\ \A o \in S : m.next[o] = l.next[o]
      /\ \A o \in S : m.prev[o] = IF o = l.head THEN n ELSE l.prev[o]
  BY <1>2, <1>4
<1> HIDE DEF T
<1>7. r \in [T -> 1..(k + 1)]
  <2>1. \A o \in T : r[o] \in 1..(k + 1)
    BY <1>1, <1>4
  <2> QED BY <2>1, <1>3
<1>8. \A o, p \in T : r[o] = r[p] => o = p
  BY <1>1, <1>4
<1>9. m.head \in T /\ r[m.head] = 1 /\ m.tail \in T /\ r[m.tail] = k + 1
  <2>1. CASE S = {}
    BY <2>1, <1>1, <1>2, <1>4
  <2>2. CASE S # {}
    <3>1. l.tail \in S /\ rank[l.tail] = k
      BY <1>1, <2>2
    <3>2. m.tail = l.tail
      BY <3>1, <1>2, <1>5, <1>4
    <3> QED BY <3>1, <3>2, <1>2, <1>4
  <2> QED BY <2>1, <2>2
<1>10. ASSUME NEW o \in T
       PROVE  /\ r[o] = k + 1 => m.next[o] = Null
              /\ r[o] < k + 1 => m.next[o] \in T /\ r[m.next[o]] = r[o] + 1
  <2>1. CASE o = n
    <3>1. CASE S = {}
      BY <2>1, <3>1, <1>1, <1>4, <1>6
    <3>2. CASE S # {}
      <4>1. l.head \in S /\ rank[l.head] = 1 /\ k >= 1
        BY <3>2, <1>1, <1>4
      <4> QED BY <2>1, <4>1, <1>1, <1>4, <1>6
    <3> QED BY <3>1, <3>2
  <2>2. CASE o # n
    <3>1. o \in S
      BY <2>2, <1>4
    <3> QED BY <3>1, <1>1, <1>4, <1>6
  <2> QED BY <2>1, <2>2
<1>11. ASSUME NEW o \in T
       PROVE  /\ r[o] = 1 => m.prev[o] = Null
              /\ r[o] > 1 => m.prev[o] \in T /\ r[m.prev[o]] = r[o] - 1
  <2>1. CASE o = n
    <3>1. n # l.head
      BY <1>1, <1>5, <1>4
    <3> QED BY <2>1, <3>1, <1>4, <1>6
  <2>2. CASE o # n
    <3>1. o \in S
      BY <2>2, <1>4
    <3>2. CASE o = l.head
      BY <3>1, <3>2, <1>1, <1>4, <1>6
    <3>3. CASE o # l.head
      <4>1. rank[o] > 1
        BY <3>1, <3>3, <1>1, <1>4
      <4> QED BY <3>1, <3>3, <4>1, <1>1, <1>4, <1>6
    <3> QED BY <3>2, <3>3
  <2> QED BY <2>1, <2>2
<1> QED
  <2>1. k + 1 \in Nat /\ T # {}
    BY <1>1, <1>4
  <2>2. Chain(m, T, k + 1, r)
    BY <2>1, <1>7, <1>8, <1>9, <1>10, <1>11 DEF Chain
  <2> QED BY <2>2 DEF m, r, T

(* Taking a node out keeps the others in the order of their use. *)
LEMMA RemoveKeepsRecent ==
  ASSUME NEW S, NEW k \in Nat, NEW rank \in [S -> 1..k], NEW entry, NEW used, NEW n \in S,
         \A o, p \in S : rank[o] = rank[p] => o = p,
         Recent(S, rank, entry, used)
  PROVE  Recent(S \ {n}, Closer(S, n, rank), entry, used)
<1> DEFINE r == Closer(S, n, rank)
<1> SUFFICES ASSUME NEW o \in S \ {n}, NEW p \in S \ {n}, r[o] < r[p]
             PROVE  rank[o] < rank[p]
  BY DEF Recent
<1>1. /\ r[o] = IF rank[o] > rank[n] THEN rank[o] - 1 ELSE rank[o]
      /\ r[p] = IF rank[p] > rank[n] THEN rank[p] - 1 ELSE rank[p]
  BY DEF Closer
<1>2. rank[o] \in Int /\ rank[p] \in Int /\ rank[n] \in Int
  OBVIOUS
<1> QED  BY <1>1, <1>2

(* The node put first is that of the domain just used. *)
LEMMA InsertKeepsRecent ==
  ASSUME NEW S, NEW k \in Nat, NEW rank \in [S -> 1..k], NEW n, n \notin S,
         NEW d \in Domain, NEW entry, NEW entry1, NEW used \in [Domain -> SUBSET Domain],
         Recent(S, rank, entry, used),
         entry1[n] = d, \A o \in S : entry1[o] = entry[o] /\ entry[o] \in Domain \ {d}
  PROVE  Recent(S \cup {n}, Farther(S, n, rank), entry1,
                [e \in Domain |-> IF e = d THEN {} ELSE used[e] \cup {d}])
<1> DEFINE r == Farther(S, n, rank)
           used1 == [e \in Domain |-> IF e = d THEN {} ELSE used[e] \cup {d}]
<1> SUFFICES ASSUME NEW o \in S \cup {n}, NEW p \in S \cup {n}, r[o] < r[p]
             PROVE  entry1[o] \in used1[entry1[p]]
  BY DEF Recent
<1>1. /\ r[o] = IF o = n THEN 1 ELSE rank[o] + 1
      /\ r[p] = IF p = n THEN 1 ELSE rank[p] + 1
  BY DEF Farther
<1>2. p # n
  <2>1. CASE o = n
    BY <1>1, <2>1
  <2>2. CASE o # n
    <3>1. rank[o] \in 1..k
      BY <2>2
    <3> QED  BY <1>1, <2>2, <3>1
  <2> QED  BY <2>1, <2>2
<1>3. entry1[p] = entry[p] /\ entry[p] \in Domain \ {d} /\ used1[entry[p]] = used[entry[p]] \cup {d}
  BY <1>2
<1>4. CASE o = n
  BY <1>3, <1>4
<1>5. CASE o # n
  <2>1. rank[o] \in Int /\ rank[p] \in Int
    BY <1>2, <1>5
  <2>2. rank[o] < rank[p]
    BY <1>1, <1>2, <1>5, <2>1
  <2> QED  BY <1>2, <1>3, <1>5, <2>2 DEF Recent
<1> QED  BY <1>4, <1>5

(* Offsets are finitely many, so the list has a length. *)
LEMMA NodesFinite ==
  ASSUME NEW S \in SUBSET Offset
  PROVE  IsFiniteSet(S) /\ Cardinality(S) \in Nat
<1>1. IsFiniteSet(Offset)
  BY FS_Interval, PoolSizeAssumption DEF Offset
<1> QED  BY <1>1, FS_Subset, FS_CardinalityType

(* A used domain moves to the front: the order of the list stays the order *)
(* of use.                                                                 *)
LEMMA TouchOrder ==
  ASSUME DnsInv, NEW d \in Domain, domainToOffset[d] # Null,
         lru' = touchLru(lru, domainToOffset[d]), offsetToEntry' = offsetToEntry, Used(d)
  PROVE  LruOrder' /\ lru'.nodes = lru.nodes
<1> DEFINE n == domainToOffset[d]
           S == lru.nodes
           k == Cardinality(S)
           T == S \ {n}
<1>1. /\ lru \in LruType /\ S \in SUBSET Offset /\ n \in Offset
      /\ offsetToEntry[n] = d /\ n \in S
      /\ offsetToEntry \in [Offset -> Domain \cup {NoDomain}]
      /\ since \in [Domain -> SUBSET Domain]
  BY PoolSizeAssumption, NoDomainAssumption, SMTT(30)
  DEF DnsInv, PoolInv, TypeOK, LruType, MapsInverse, NodesBound, Link, Offset, Null
<1>2. PICK rank \in [S -> 1..k] : Chain(lru, S, k, rank) /\ Recent(S, rank, offsetToEntry, since)
  BY DEF DnsInv, LruOrder
<1>3. k \in Nat /\ IsFiniteSet(S)
  BY <1>1, NodesFinite
<1> DEFINE r1 == Closer(S, n, rank)
           l1 == removeNode(lru, n)
           r2 == Farther(T, n, r1)
           l2 == insertAtHead(l1, n)
<1>4. Chain(l1, T, k - 1, r1) /\ l1 \in LruType
  BY <1>1, <1>2, RemoveNodeChain, RemoveNodeType
<1>5. Recent(T, r1, offsetToEntry, since)
  BY <1>1, <1>2, <1>3, RemoveKeepsRecent DEF Chain
<1>6. T \in SUBSET Offset /\ n \notin T /\ S = T \cup {n}
  BY <1>1
<1>7. Chain(l2, S, k, r2)
  <2>1. Chain(l2, T \cup {n}, (k - 1) + 1, r2)
    BY <1>1, <1>4, <1>6, InsertAtHeadChain
  <2>2. (k - 1) + 1 = k
    BY <1>3
  <2> QED  BY <2>1, <2>2, <1>6
<1>8. Recent(S, r2, offsetToEntry, since')
  <2>1. \A o \in T : offsetToEntry[o] \in Domain \ {d}
    BY <1>1 DEF DnsInv, PoolInv, MapsInverse, NodesBound
  <2>2. k - 1 \in Nat /\ r1 \in [T -> 1..(k - 1)]
    BY <1>4 DEF Chain
  <2>3. since' = [e \in Domain |-> IF e = d THEN {} ELSE since[e] \cup {d}]
    BY DEF Used
  <2> HIDE DEF r1, T, k, n, S
  <2>4. Recent(T \cup {n}, r2, offsetToEntry, since')
    BY <1>1, <1>5, <1>6, <2>1, <2>2, <2>3, InsertKeepsRecent
  <2> QED  BY <2>4, <1>6
<1>9. lru' = l2 /\ lru'.nodes = S
  <2>1. lru' = l2
    BY <1>1 DEF touchLru
  <2> QED  BY <2>1 DEF insertAtHead, removeNode
<1>10. r2 \in [S -> 1..k]
  BY <1>7 DEF Chain
<1> HIDE DEF r2, l2, S, k
<1>11. Chain(lru', S, k, r2) /\ Recent(S, r2, offsetToEntry', since')
  BY <1>7, <1>8, <1>9
<1>12. lru'.nodes = S /\ Cardinality(lru'.nodes) = k
  BY <1>9 DEF k
<1> QED  BY <1>10, <1>11, <1>12 DEF LruOrder, S

(* A bound offset joins the front of a list that is in order. *)
LEMMA AppendOrder ==
  ASSUME NEW l \in LruType, NEW rank \in [l.nodes -> 1..Cardinality(l.nodes)],
         Chain(l, l.nodes, Cardinality(l.nodes), rank),
         Recent(l.nodes, rank, offsetToEntry, since),
         since \in [Domain -> SUBSET Domain],
         NEW n \in Offset, n \notin l.nodes, NEW d \in Domain,
         lru' = appendLru(l, n), Used(d), offsetToEntry'[n] = d,
         \A o \in l.nodes : offsetToEntry'[o] = offsetToEntry[o] /\ offsetToEntry[o] \in Domain \ {d}
  PROVE  LruOrder' /\ lru'.nodes = l.nodes \cup {n}
<1> DEFINE S == l.nodes
           k == Cardinality(S)
           l1 == [l EXCEPT !.nodes = @ \cup {n}]
           r == Farther(S, n, rank)
<1>1. S \in SUBSET Offset /\ l1 \in LruType
  BY DEF LruType
<1>2. IsFiniteSet(S) /\ k \in Nat
  BY <1>1, NodesFinite
<1>3. /\ l1.head = l.head /\ l1.tail = l.tail /\ l1.next = l.next /\ l1.prev = l.prev
      /\ l1.nodes = S \cup {n}
  BY DEF LruType
<1>4. Chain(l1, S, k, rank)
  <2> HIDE DEF l1
  <2> QED  BY <1>3, ChainSame
<1>5. Chain(lru', S \cup {n}, k + 1, r)
  BY <1>1, <1>4, InsertAtHeadChain DEF appendLru
<1>6. since' = [e \in Domain |-> IF e = d THEN {} ELSE since[e] \cup {d}]
  BY DEF Used
<1>7. Recent(S \cup {n}, r, offsetToEntry', since')
  <2> HIDE DEF k, r
  <2>1. rank \in [S -> 1..k]
    BY DEF k
  <2>2. \A o \in S : offsetToEntry'[o] = offsetToEntry[o] /\ offsetToEntry[o] \in Domain \ {d}
    OBVIOUS
  <2> HIDE DEF S
  <2> QED  BY <1>2, <1>6, <2>1, <2>2, InsertKeepsRecent DEF r, S
<1>8. lru'.nodes = S \cup {n}
  BY <1>3 DEF appendLru, insertAtHead
<1>9. Cardinality(S \cup {n}) = k + 1
  BY <1>2, FS_AddElement
<1>10. r \in [S \cup {n} -> 1..(k + 1)]
  BY <1>5 DEF Chain
<1> HIDE DEF r, k, S
<1> QED  BY <1>5, <1>7, <1>8, <1>9, <1>10 DEF LruOrder, S

(* Allocation keeps the list in order, whichever way it finds the offset. *)
LEMMA AllocateOrder ==
  ASSUME DnsInv, NEW d \in Domain, allocate(d), Used(d)
  PROVE  LruOrder' /\ NodesBound' /\ HandedOutBound'
<1>1. /\ lru \in LruType /\ lru.nodes \in SUBSET Offset
      /\ offsetToEntry \in [Offset -> Domain \cup {NoDomain}]
      /\ since \in [Domain -> SUBSET Domain]
      /\ domainToOffset \in [Domain -> Link] /\ nextOffset \in 1..(POOL_SIZE + 1)
      /\ \A o \in lru.nodes : offsetToEntry[o] \in Domain
      /\ lru.nodes = {o \in Offset : offsetToEntry[o] # NoDomain}
  BY DEF DnsInv, PoolInv, TypeOK, LruType, NodesBound
<1>2. PICK rank \in [lru.nodes -> 1..Cardinality(lru.nodes)] :
           /\ Chain(lru, lru.nodes, Cardinality(lru.nodes), rank)
           /\ Recent(lru.nodes, rank, offsetToEntry, since)
  BY DEF DnsInv, LruOrder
<1>3. CASE AllocateKnown(d)
  <2>1. LruOrder' /\ lru'.nodes = lru.nodes
    BY <1>3, TouchOrder DEF AllocateKnown
  <2> QED  BY <1>3, <2>1 DEF AllocateKnown, DnsInv, NodesBound, HandedOutBound
<1>4. CASE AllocateFresh(d)
  <2>1. /\ offsetToEntry' = [offsetToEntry EXCEPT ![nextOffset] = d]
        /\ lru' = appendLru(lru, nextOffset) /\ nextOffset' = nextOffset + 1
        /\ nextOffset \in Offset /\ domainToOffset[d] = Null
    BY <1>1, <1>4, PoolSizeAssumption DEF AllocateFresh, Bind, Offset
  <2>2. nextOffset \notin lru.nodes
    BY <1>1, <2>1 DEF DnsInv, PoolInv, FreshUnbound, NodesBound, Offset
  <2>3. \A o \in lru.nodes : offsetToEntry'[o] = offsetToEntry[o]
                               /\ offsetToEntry[o] \in Domain \ {d}
    BY <1>1, <2>1, <2>2 DEF DnsInv, PoolInv, MapsInverse, Offset, Null
  <2>4. LruOrder' /\ lru'.nodes = lru.nodes \cup {nextOffset}
    BY <1>1, <1>2, <2>1, <2>2, <2>3, AppendOrder, ZenonT(30)
  <2>5. NodesBound'
    BY <1>1, <2>1, <2>4, NoDomainAssumption DEF NodesBound
  <2>6. HandedOutBound'
    BY <1>1, <2>1, NoDomainAssumption DEF DnsInv, HandedOutBound, Offset
  <2> QED  BY <2>4, <2>5, <2>6
<1>5. CASE AllocateEvict(d)
  <2> DEFINE t == lru.tail
             l == EvictedList
             k == Cardinality(lru.nodes)
             r == Closer(lru.nodes, t, rank)
  <2>1. t \in Offset /\ t # Null /\ nextOffset' = nextOffset /\ domainToOffset[d] = Null
    BY <1>1, <1>5, PoolSizeAssumption
    DEF DnsInv, PoolInv, TailExists, LruType, Link, Offset, Null, AllocateEvict
  <2>2. t \in lru.nodes
    BY <1>1, <1>2, <2>1 DEF Chain
  <2>3. /\ offsetToEntry' = [offsetToEntry EXCEPT ![t] = d]
        /\ lru' = appendLru(l, t)
    <3>1. EvictedOffset = t
      BY <2>1 DEF EvictedOffset
    <3>2. Bind(d, t, EvictedMap, l)
      BY <3>1, <1>5, Zenon DEF AllocateEvict
    <3> HIDE DEF t, l
    <3> QED  BY <3>2 DEF Bind
  <2>4. l = [removeNode(lru, t) EXCEPT !.nodes = @ \ {t}]
    BY <2>1 DEF EvictedList
  <2>5. removeNode(lru, t) \in LruType /\ removeNode(lru, t).nodes = lru.nodes
    BY <1>1, <2>1, RemoveNodeType DEF removeNode
  <2> DEFINE m == removeNode(lru, t)
  <2>6. /\ l \in LruType /\ l.nodes = lru.nodes \ {t}
        /\ l.head = m.head /\ l.tail = m.tail /\ l.next = m.next /\ l.prev = m.prev
    <3> HIDE DEF l, t, m
    <3> QED  BY <2>4, <2>5 DEF LruType, m
  <2>7. IsFiniteSet(lru.nodes) /\ k \in Nat
    BY <1>1, NodesFinite
  <2>8. Cardinality(l.nodes) = k - 1
    BY <2>2, <2>6, <2>7, FS_RemoveElement
  <2>9. Chain(m, lru.nodes \ {t}, k - 1, r)
    BY <1>1, <1>2, <2>2, RemoveNodeChain
  <2>10. Recent(l.nodes, r, offsetToEntry, since)
    <3>1. \A o, p \in lru.nodes : rank[o] = rank[p] => o = p
      BY <1>2 DEF Chain
    <3> HIDE DEF r, t, l
    <3> QED  BY <1>2, <2>2, <2>6, <2>7, <3>1, RemoveKeepsRecent DEF r
  <2>11. r \in [l.nodes -> 1..Cardinality(l.nodes)] /\ Chain(l, l.nodes, Cardinality(l.nodes), r)
    <3> HIDE DEF r, l, m, t, k
    <3>1. Chain(l, lru.nodes \ {t}, k - 1, r)
      BY <2>6, <2>9, ChainSame
    <3>2. Chain(l, l.nodes, Cardinality(l.nodes), r)
      BY <2>6, <2>8, <3>1
    <3> QED  BY <3>2 DEF Chain
  <2>12. \A o \in l.nodes : offsetToEntry'[o] = offsetToEntry[o]
                             /\ offsetToEntry[o] \in Domain \ {d}
    <3> HIDE DEF l, t
    <3> QED  BY <1>1, <2>1, <2>3, <2>6 DEF DnsInv, PoolInv, MapsInverse, Offset, Null
  <2>13. LruOrder' /\ lru'.nodes = l.nodes \cup {t}
    <3> HIDE DEF l, t, r
    <3> QED  BY <1>1, <2>1, <2>3, <2>6, <2>10, <2>11, <2>12, AppendOrder, ZenonT(30)
  <2>14. NodesBound'
    <3> HIDE DEF l, t
    <3> QED  BY <1>1, <2>1, <2>2, <2>3, <2>6, <2>13, NoDomainAssumption DEF NodesBound
  <2>15. HandedOutBound'
    <3> HIDE DEF t
    <3> QED  BY <1>1, <2>1, <2>3, NoDomainAssumption DEF DnsInv, HandedOutBound
  <2> QED  BY <2>13, <2>14, <2>15
<1> QED  BY <1>3, <1>4, <1>5 DEF allocate

\* The domain that evictLru takes the address from.
Victim == offsetToEntry[lru.tail]

(* An eviction happens only when every address is bound; its victim is the *)
(* domain that all other holders were used after.                          *)
LEMMA EvictionFacts ==
  ASSUME DnsInv, NEW d \in Domain, AllocateEvict(d)
  PROVE  /\ Victim \in Domain /\ domainToOffset[Victim] \in Offset
         /\ domainToOffset[d] = Null
         /\ \A o \in Offset : offsetToEntry[o] \in Domain /\ domainToOffset[offsetToEntry[o]] = o
         /\ \A e \in Domain \ {Victim} : domainToOffset[e] # Null => e \in since[Victim]
         /\ domainToOffset' = [domainToOffset EXCEPT ![d] = domainToOffset[Victim],
                                                     ![Victim] = Null]
<1> DEFINE t == lru.tail
<1>1. /\ lru \in LruType
      /\ offsetToEntry \in [Offset -> Domain \cup {NoDomain}]
      /\ domainToOffset \in [Domain -> Link] /\ nextOffset \in 1..(POOL_SIZE + 1)
      /\ lru.nodes = {o \in Offset : offsetToEntry[o] # NoDomain}
      /\ nextOffset > POOL_SIZE /\ domainToOffset[d] = Null
  BY DEF DnsInv, PoolInv, TypeOK, LruType, NodesBound, AllocateEvict
<1>2. \A o \in Offset : offsetToEntry[o] \in Domain /\ domainToOffset[offsetToEntry[o]] = o
  BY <1>1, PoolSizeAssumption, NoDomainAssumption
  DEF DnsInv, HandedOutBound, PoolInv, MapsInverse, Offset
<1>3. t \in Offset /\ t # Null /\ t \in lru.nodes
  BY <1>1, <1>2, PoolSizeAssumption, NoDomainAssumption
  DEF DnsInv, PoolInv, TailExists, LruType, Link, Offset, Null
<1>4. Victim \in Domain /\ domainToOffset[Victim] = t /\ Victim # d
  BY <1>1, <1>2, <1>3 DEF Victim
<1>5. PICK rank \in [lru.nodes -> 1..Cardinality(lru.nodes)] :
           /\ Chain(lru, lru.nodes, Cardinality(lru.nodes), rank)
           /\ Recent(lru.nodes, rank, offsetToEntry, since)
  BY DEF DnsInv, LruOrder
<1>6. ASSUME NEW e \in Domain \ {Victim}, domainToOffset[e] # Null
      PROVE  e \in since[Victim]
  <2>1. domainToOffset[e] \in Offset /\ offsetToEntry[domainToOffset[e]] = e
    BY <1>1, <1>6, PoolSizeAssumption DEF DnsInv, PoolInv, MapsInverse, Link, Offset, Null
  <2>2. domainToOffset[e] \in lru.nodes /\ domainToOffset[e] # t
    BY <1>1, <1>4, <2>1, NoDomainAssumption DEF Victim
  <2>3. rank[domainToOffset[e]] < rank[t]
    <3>1. Cardinality(lru.nodes) \in Nat /\ rank[t] = Cardinality(lru.nodes)
          /\ \A o, p \in lru.nodes : rank[o] = rank[p] => o = p
      BY <1>3, <1>5 DEF Chain
    <3>2. rank[domainToOffset[e]] \in 1..Cardinality(lru.nodes)
      BY <2>2
    <3> QED  BY <1>3, <2>2, <3>1, <3>2
  <2> QED  BY <1>3, <1>5, <2>1, <2>2, <2>3 DEF Recent, Victim
<1>7. domainToOffset' = [domainToOffset EXCEPT ![d] = t, ![Victim] = Null]
  <2>1. EvictedOffset = t
    BY <1>3 DEF EvictedOffset
  <2>2. EvictedMap = [e \in Domain |-> IF e = Victim THEN Null ELSE domainToOffset[e]]
    BY <1>3 DEF EvictedMap, Victim
  <2>3. domainToOffset' = [EvictedMap EXCEPT ![d] = t]
    BY <2>1 DEF AllocateEvict, Bind
  <2> HIDE DEF t
  <2> QED  BY <1>1, <1>4, <2>2, <2>3
<1> QED  BY <1>1, <1>2, <1>3, <1>4, <1>6, <1>7

(* So the victim and the newcomer together put POOL_SIZE other domains     *)
(* between the victim's last use and the loss of its address.              *)
LEMMA EvictionNeedsUses ==
  ASSUME DnsInv, NEW d \in Domain, AllocateEvict(d)
  PROVE  Cardinality(since[Victim] \cup {d}) >= POOL_SIZE
<1> DEFINE H == {e \in Domain : domainToOffset[e] # Null}
           f == [o \in Offset |-> offsetToEntry[o]]
           B == (H \ {Victim}) \cup {d}
<1>1. /\ Victim \in H /\ d \notin H
      /\ \A o \in Offset : offsetToEntry[o] \in Domain /\ domainToOffset[offsetToEntry[o]] = o
      /\ \A e \in Domain \ {Victim} : domainToOffset[e] # Null => e \in since[Victim]
  BY EvictionFacts DEF Offset, Null
<1>2. f \in [Offset -> H]
  BY <1>1 DEF Offset, Null
<1>3. \A e \in H : \E o \in Offset : f[o] = e
  BY PoolSizeAssumption DEF DnsInv, PoolInv, TypeOK, MapsInverse, Link, Offset, Null
<1>4. \A o, p \in Offset : f[o] = f[p] => o = p
  BY <1>1
<1>5. f \in Bijection(Offset, H)
  BY <1>2, <1>3, <1>4 DEF Bijection, Injection, Surjection, IsInjective
<1>6. IsFiniteSet(Offset) /\ Cardinality(Offset) = POOL_SIZE
  BY FS_Interval, PoolSizeAssumption DEF Offset
<1>7. IsFiniteSet(H) /\ Cardinality(H) = POOL_SIZE
  <2>1. ExistsBijection(Offset, H)
    BY <1>5, Zenon DEF ExistsBijection
  <2> HIDE DEF H
  <2> QED  BY <2>1, <1>6, FS_Bijection
<1>8. IsFiniteSet(H \ {Victim}) /\ Cardinality(H \ {Victim}) = POOL_SIZE - 1
  BY <1>1, <1>7, FS_RemoveElement
<1>9. IsFiniteSet(B) /\ Cardinality(B) = POOL_SIZE
  <2>1. Cardinality(B) = Cardinality(H \ {Victim}) + 1
    BY <1>1, <1>8, FS_AddElement
  <2> QED  BY <1>8, <2>1, FS_AddElement, PoolSizeAssumption
<1>10. B \in SUBSET (since[Victim] \cup {d})
  BY <1>1
<1>11. IsFiniteSet(since[Victim] \cup {d})
  BY <1>1, FS_AddElement DEF DnsInv, AnswerInv
<1> HIDE DEF B
<1> QED  BY <1>9, <1>10, <1>11, FS_Subset

(* A query leaves every answer either bound or out of use. *)
LEMMA QueryAnswers ==
  ASSUME DnsInv, NEW d \in Domain, NEW qtype, handleDnsQuery(d, qtype), NEW e \in Domain
  PROVE  AnswerInv(e)'
<1>1. /\ domainToOffset \in [Domain -> Link] /\ since \in [Domain -> SUBSET Domain]
      /\ answered \in [Domain -> Link]
  BY DEF DnsInv, PoolInv, TypeOK
<1>2. since' = [x \in Domain |-> IF x = d THEN {} ELSE since[x] \cup {d}]
  BY DEF handleDnsQuery, Used
<1>3. domainToOffset'[d] # Null /\ (domainToOffset[d] # Null => domainToOffset'[d] = domainToOffset[d])
  <2>1. CASE AllocateKnown(d)
    BY <2>1 DEF AllocateKnown
  <2>2. CASE AllocateFresh(d)
    BY <1>1, <2>2 DEF AllocateFresh, Bind, DnsInv, PoolInv, TypeOK, Null
  <2>3. CASE AllocateEvict(d)
    <3>1. domainToOffset'[d] \in Offset /\ domainToOffset[d] = Null
      BY <1>1, <2>3, EvictionFacts DEF Offset, Null
    <3> QED  BY <3>1 DEF Offset, Null
  <2> QED  BY <2>1, <2>2, <2>3 DEF handleDnsQuery, allocate
<1>4. CASE e = d
  <2>1. since'[e] = {}
    BY <1>2, <1>4
  <2>2. answered'[e] \in {Null, domainToOffset'[e]}
    <3> DEFINE a == IF qtype = A \/ ipv6DNSEnabled THEN domainToOffset'[d]
                    ELSE IF domainToOffset[d] = Null THEN Null ELSE answered[d]
    <3>1. answered' = [answered EXCEPT ![d] = a]
      BY Zenon DEF handleDnsQuery
    <3>2. a \in {Null, domainToOffset'[d]}
      BY <1>3 DEF DnsInv, AnswerInv
    <3> HIDE DEF a
    <3> QED  BY <1>1, <1>4, <3>1, <3>2
  <2> QED  BY <1>3, <1>4, <2>1, <2>2, FS_EmptySet DEF AnswerInv
<1>5. CASE e # d
  <2>1. since'[e] = since[e] \cup {d} /\ answered'[e] = answered[e]
    BY <1>1, <1>2, <1>5 DEF handleDnsQuery
  <2>2. /\ IsFiniteSet(since[e])
        /\ IsFiniteSet(since'[e]) /\ Cardinality(since'[e]) >= Cardinality(since[e])
        /\ Cardinality(since'[e]) \in Nat /\ Cardinality(since[e]) \in Nat
    <3>1. IsFiniteSet(since[e])
      BY DEF DnsInv, AnswerInv
    <3>2. IsFiniteSet(since'[e])
      BY <2>1, <3>1, FS_AddElement
    <3>3. since[e] \in SUBSET since'[e]
      BY <2>1
    <3> QED  BY <3>1, <3>2, <3>3, FS_Subset, FS_CardinalityType
  <2>3. CASE AllocateEvict(d) /\ e = Victim
    <3>1. domainToOffset'[e] = Null
      BY <1>1, <1>5, <2>3, EvictionFacts, PoolSizeAssumption DEF Offset, Null, Link
    <3>2. Cardinality(since'[e]) >= POOL_SIZE
      BY <2>1, <2>3, EvictionNeedsUses
    <3> QED  BY <2>2, <3>1, <3>2 DEF AnswerInv
  <2>4. CASE ~(AllocateEvict(d) /\ e = Victim)
    <3>1. domainToOffset'[e] = domainToOffset[e]
      <4>1. CASE AllocateKnown(d)
        BY <4>1 DEF AllocateKnown
      <4>2. CASE AllocateFresh(d)
        BY <1>1, <1>5, <4>2 DEF AllocateFresh, Bind
      <4>3. CASE AllocateEvict(d)
        BY <1>1, <1>5, <2>4, <4>3, EvictionFacts
      <4> QED  BY <4>1, <4>2, <4>3 DEF handleDnsQuery, allocate
    <3> QED  BY <2>1, <2>2, <3>1, PoolSizeAssumption DEF DnsInv, AnswerInv
  <2> QED  BY <2>3, <2>4
<1> QED  BY <1>4, <1>5

(* What a connection does to the pool: nothing, or a use of a bound domain. *)
LEMMA ResolveCases ==
  ASSUME DnsInv, NEW ip, resolveFakeIp(ip)
  PROVE  /\ UNCHANGED <<domainToOffset, offsetToEntry, nextOffset, answered, ipv6DNSEnabled>>
         /\ \/ UNCHANGED <<lru, since>>
            \/ \E d \in Domain : /\ domainToOffset[d] # Null /\ Used(d)
                                  /\ lru' = touchLru(lru, domainToOffset[d])
<1>1. UNCHANGED <<domainToOffset, offsetToEntry, nextOffset, answered, ipv6DNSEnabled>>
  BY DEF resolveFakeIp, lookup, poolVars
<1> DEFINE d == LookupResult(ip)
<1>2. CASE isFakeIp(ip) /\ d # NoDomain
  <2>1. ipToOffset(ip) \in Offset /\ d = offsetToEntry[ipToOffset(ip)]
    BY <1>2, IpToOffsetRange DEF LookupResult
  <2>2. d \in Domain /\ domainToOffset[d] = ipToOffset(ip)
    BY <1>2, <2>1 DEF DnsInv, PoolInv, TypeOK, MapsInverse
  <2>3. Resolution(ip) = d /\ domainToOffset[d] # Null
    BY <1>2, <2>1, <2>2 DEF Resolution, Offset, Null
  <2>4. Used(d) /\ lru' = touchLru(lru, domainToOffset[d])
    BY <1>2, <2>2, <2>3 DEF resolveFakeIp, lookup
  <2> QED  BY <1>1, <2>2, <2>3, <2>4
<1>3. CASE ~isFakeIp(ip) \/ d = NoDomain
  <2>1. Resolution(ip) \notin Domain
    BY <1>3, OutcomesAssumption DEF Resolution
  <2> QED  BY <1>1, <1>3, <2>1 DEF resolveFakeIp, lookup, poolVars
<1> QED  BY <1>2, <1>3

\* The pool after its creation and after reset.
EmptyPool ==
  /\ domainToOffset = [d \in Domain |-> Null]
  /\ lru = EmptyLru /\ offsetToEntry = [o \in Offset |-> NoDomain] /\ nextOffset = 1
  /\ since = [d \in Domain |-> {}] /\ answered = [d \in Domain |-> Null]

(* An empty pool is in order. *)
LEMMA EmptyOrder ==
  EmptyPool => LruOrder /\ NodesBound /\ HandedOutBound /\ \A d \in Domain : AnswerInv(d)
<1> SUFFICES ASSUME EmptyPool
             PROVE  LruOrder /\ NodesBound /\ HandedOutBound /\ \A d \in Domain : AnswerInv(d)
  OBVIOUS
<1> USE DEF EmptyPool
<1>1. lru.nodes = {} /\ lru.head = Null /\ lru.tail = Null
  BY DEF EmptyLru
<1>2. Cardinality(lru.nodes) = 0
  BY <1>1, FS_EmptySet
<1> DEFINE r == [o \in {} |-> 0]
<1>3. r \in [lru.nodes -> 1..Cardinality(lru.nodes)]
  BY <1>1
<1>4. Chain(lru, lru.nodes, Cardinality(lru.nodes), r)
  BY <1>1, <1>2, <1>3 DEF Chain
<1>5. LruOrder
  BY <1>1, <1>3, <1>4 DEF LruOrder, Recent
<1>6. \A d \in Domain : AnswerInv(d)
  BY FS_EmptySet DEF AnswerInv
<1> QED  BY <1>1, <1>5, <1>6 DEF NodesBound, HandedOutBound, Offset

(* The inductive invariant holds before the first query. *)
LEMMA DnsInvInit == DnsInit => DnsInv
  BY PoolInit, EmptyOrder DEF DnsInit, Init, DnsInv, EmptyPool

(* Every step keeps the list in the order of use and the answers valid. *)
LEMMA DnsInvNext == DnsInv /\ [Next]_vars => DnsInv'
<1> SUFFICES ASSUME DnsInv, [Next]_vars PROVE DnsInv'
  OBVIOUS
<1>0. PoolInv'
  BY PoolNext DEF DnsInv
<1>1. ASSUME NEW d \in Domain, NEW qtype \in {A, AAAA}, handleDnsQuery(d, qtype)
      PROVE  DnsInv'
  <2>1. LruOrder' /\ NodesBound' /\ HandedOutBound'
    BY <1>1, AllocateOrder DEF handleDnsQuery
  <2>2. \A e \in Domain : AnswerInv(e)'
    BY <1>1, QueryAnswers
  <2> QED  BY <1>0, <2>1, <2>2 DEF DnsInv
<1>2. ASSUME NEW ip \in Address, resolveFakeIp(ip) PROVE DnsInv'
  <2>1. UNCHANGED <<domainToOffset, offsetToEntry, nextOffset, answered, ipv6DNSEnabled>>
    BY <1>2, ResolveCases
  <2>2. CASE UNCHANGED <<lru, since>>
    BY <1>0, <2>1, <2>2
    DEF DnsInv, LruOrder, Recent, NodesBound, HandedOutBound, AnswerInv
  <2>3. ASSUME NEW d \in Domain, domainToOffset[d] # Null, Used(d),
               lru' = touchLru(lru, domainToOffset[d])
        PROVE  DnsInv'
    <3>1. LruOrder' /\ lru'.nodes = lru.nodes
      BY <2>1, <2>3, TouchOrder
    <3>2. NodesBound' /\ HandedOutBound'
      BY <2>1, <3>1 DEF DnsInv, NodesBound, HandedOutBound
    <3>3. ASSUME NEW e \in Domain PROVE AnswerInv(e)'
      <4>1. since'[e] = IF e = d THEN {} ELSE since[e] \cup {d}
        BY <2>3 DEF Used
      <4>2. AnswerInv(e) /\ IsFiniteSet(since[e])
        BY DEF DnsInv, AnswerInv
      <4>3. CASE e = d
        BY <2>1, <2>3, <4>1, <4>2, <4>3, FS_EmptySet DEF AnswerInv
      <4>4. CASE e # d
        <5>1. since'[e] = since[e] \cup {d}
          BY <4>1, <4>4
        <5>2. IsFiniteSet(since'[e]) /\ since[e] \in SUBSET since'[e]
          BY <4>2, <5>1, FS_AddElement
        <5>3. Cardinality(since'[e]) >= Cardinality(since[e])
              /\ Cardinality(since'[e]) \in Nat /\ Cardinality(since[e]) \in Nat
          BY <4>2, <5>2, FS_Subset, FS_CardinalityType
        <5> QED  BY <2>1, <4>2, <5>2, <5>3, PoolSizeAssumption DEF AnswerInv
      <4> QED  BY <4>3, <4>4
    <3> QED  BY <1>0, <3>1, <3>2, <3>3 DEF DnsInv
  <2> QED  BY <1>2, <2>2, <2>3, ResolveCases
<1>3. ASSUME NEW v6 \in BOOLEAN, restartStackNow(v6) PROVE DnsInv'
  BY <1>0, <1>3
  DEF restartStackNow, poolVars, DnsInv, LruOrder, Recent, NodesBound, HandedOutBound,
      AnswerInv
<1>4. ASSUME stop PROVE DnsInv'
  <2>1. (LruOrder /\ NodesBound /\ HandedOutBound /\ \A d \in Domain : AnswerInv(d))'
    <3>1. EmptyPool'
      BY <1>4 DEF stop, reset, EmptyPool
    <3> QED  BY <3>1, EmptyOrder, PTL
  <2> QED  BY <1>0, <2>1 DEF DnsInv
<1>5. ASSUME UNCHANGED vars PROVE DnsInv'
  BY <1>0, <1>5
  DEF vars, DnsInv, LruOrder, Recent, NodesBound, HandedOutBound, AnswerInv
<1> QED  BY <1>1, <1>2, <1>3, <1>4, <1>5 DEF Next

-----------------------------------------------------------------------------
(* The addresses of a pool offset, in either family, translate back to it. *)
LEMMA AddressesOfOffset ==
  ASSUME NEW o \in Offset
  PROVE  /\ isFakeIp(ipv4Bytes(o)) /\ ipToOffset(ipv4Bytes(o)) = o
         /\ isFakeIp(ipv6Bytes(o)) /\ ipToOffset(ipv6Bytes(o)) = o
<1>1. o \div 65536 = 0 /\ o % 65536 = o
  <2>1. o \in Int /\ 0 < o /\ o < 65536
    BY PoolSizeAssumption DEF Offset
  <2>2. o % 65536 = o
    BY <2>1
  <2> QED  BY <2>1, <2>2
<1>2. ipv4Bytes(o) = <<BaseHigh, o>> /\ ipv6Bytes(o) = <<Fc00, 0, 0, 0, 0, 0, 0, o>>
  BY <1>1 DEF ipv4Bytes, ipv6Bytes, BaseHigh
<1>3. isFakeIp(ipv4Bytes(o)) /\ ipToOffset(ipv4Bytes(o)) = o
  BY <1>2 DEF isFakeIp, ipToOffset, ipv4ToOffset
<1> DEFINE ip == <<Fc00, 0, 0, 0, 0, 0, 0, o>>
<1>4. /\ Len(ip) = 8 /\ ip[1] = Fc00 /\ ip[2] = 0 /\ ip[3] = 0 /\ ip[4] = 0
      /\ ip[5] = 0 /\ ip[6] = 0 /\ ip[7] = 0 /\ ip[8] = o
  OBVIOUS
<1> HIDE DEF ip
<1>5. ZeroRun(ip, 2, 6)
  <2>1. ASSUME NEW i \in 2..(2 + 6 - 1) PROVE ip[i] = 0
    <3>1. i = 2 \/ i = 3 \/ i = 4 \/ i = 5 \/ i = 6 \/ i = 7
      OBVIOUS
    <3> QED  BY <1>4, <3>1
  <2> QED  BY <2>1 DEF ZeroRun
<1>6. \A i \in 3..8 : ~ZeroRun(ip, i, 6 + 1)
  BY DEF ZeroRun
<1>7. StartsFc00(ip)
  BY <1>4, <1>5, <1>6 DEF StartsFc00
<1>8. ipToOffset(ip) = o
  <2>1. \A i \in 2..6 : ip[i] = 0
    <3> TAKE i \in 2..6
    <3>1. i = 2 \/ i = 3 \/ i = 4 \/ i = 5 \/ i = 6
      OBVIOUS
    <3> QED  BY <1>4, <3>1
  <2> QED  BY <1>4, <2>1 DEF ipToOffset, ipv6ToOffset
<1> QED  BY <1>2, <1>3, <1>4, <1>7, <1>8 DEF isFakeIp, ip

(* An answered address, in either family, resolves to its own domain until *)
(* POOL_SIZE other domains were used: for any number of domains, any pool  *)
(* size and any order of queries, connections and restarts.                *)
THEOREM AnswersStayValid == Spec => []AnswerStaysValid
<1>1. DnsInv => AnswerStaysValid
  <2> SUFFICES ASSUME DnsInv, NEW d \in Domain, answered[d] # Null,
                      Cardinality(since[d]) < POOL_SIZE
               PROVE  /\ Resolution(ipv4Bytes(answered[d])) = d
                      /\ Resolution(ipv6Bytes(answered[d])) = d
    BY DEF AnswerStaysValid
  <2>1. Cardinality(since[d]) \in Nat
    BY FS_CardinalityType DEF DnsInv, AnswerInv
  <2>2. domainToOffset[d] = answered[d]
    BY <2>1, PoolSizeAssumption DEF DnsInv, AnswerInv
  <2>3. answered[d] \in Offset /\ offsetToEntry[answered[d]] = d
    BY <2>2, PoolSizeAssumption DEF DnsInv, PoolInv, TypeOK, MapsInverse, Link, Offset, Null
  <2> QED
    BY <2>3, AddressesOfOffset, NoDomainAssumption
    DEF Resolution, LookupResult, Offset, Null
<1> QED  BY DnsInvInit, DnsInvNext, <1>1, PTL DEF Spec

-----------------------------------------------------------------------------
(* A query is a grant, a renewal or a reassignment of a lease. *)
LEMMA QueryRefines ==
  ASSUME DnsInv, NEW d \in Domain, NEW qtype, handleDnsQuery(d, qtype)
  PROVE  Lease!Next
<1>1. Lease!Used(d) /\ domainToOffset \in [Domain -> Link]
  BY DEF handleDnsQuery, Used, Lease!Used, DnsInv, PoolInv, TypeOK
<1>2. CASE AllocateKnown(d)
  <2>1. Lease!Renew(d)
    BY <1>1, <1>2 DEF AllocateKnown, Lease!Renew, Lease!Holders, Null
  <2> QED  BY <2>1 DEF Lease!Next
<1>3. CASE AllocateFresh(d)
  <2>1. /\ nextOffset \in Offset /\ domainToOffset[d] = Null
        /\ domainToOffset' = [domainToOffset EXCEPT ![d] = nextOffset]
    BY <1>3, PoolSizeAssumption DEF AllocateFresh, Bind, DnsInv, PoolInv, TypeOK, Offset
  <2>2. \A e \in Domain : domainToOffset[e] # nextOffset
    <3>1. offsetToEntry[nextOffset] = NoDomain
      BY <2>1 DEF DnsInv, PoolInv, FreshUnbound, Offset
    <3> QED  BY <2>1, <3>1, NoDomainAssumption DEF DnsInv, PoolInv, MapsInverse, Offset, Null
  <2>3. Lease!Grant(d)
    BY <1>1, <2>1, <2>2 DEF Lease!Grant, Lease!Holders, Lease!Free, Offset, Null
  <2> QED  BY <2>3 DEF Lease!Next
<1>4. CASE AllocateEvict(d)
  <2>1. /\ Victim \in Domain /\ domainToOffset[Victim] \in Offset
        /\ domainToOffset[d] = Null
        /\ \A o \in Offset : offsetToEntry[o] \in Domain /\ domainToOffset[offsetToEntry[o]] = o
        /\ \A e \in Domain \ {Victim} : domainToOffset[e] # Null => e \in since[Victim]
        /\ domainToOffset' = [domainToOffset EXCEPT ![d] = domainToOffset[Victim],
                                                    ![Victim] = Null]
    BY <1>4, EvictionFacts
  <2>2. d \notin Lease!Holders /\ Victim \in Lease!Holders
    BY <2>1 DEF Lease!Holders, Offset, Null
  <2>3. Lease!Free = {}
    BY <2>1 DEF Lease!Free, Offset
  <2>4. Lease!Holders \ {Victim} \subseteq since[Victim]
    BY <2>1 DEF Lease!Holders, Null
  <2>5. Lease!Reassign(Victim, d)
    BY <1>1, <2>1, <2>2, <2>3, <2>4 DEF Lease!Reassign, Null
  <2> QED  BY <2>1, <2>5 DEF Lease!Next
<1> QED  BY <1>2, <1>3, <1>4 DEF handleDnsQuery, allocate

(* The pool implements the lease specification, for any number of domains  *)
(* and any pool size: allocate, evictLru and touchLru never share an       *)
(* address and reassign only the least recently used one, and only when    *)
(* the pool is full.                                                       *)
THEOREM PoolImplementsLease == Spec => ImplementsLease
<1>1. DnsInit => Lease!Init
  BY DEF DnsInit, Init, Lease!Init, Null
<1>2. DnsInv /\ [Next]_vars => [Lease!Next]_(Lease!vars)
  <2> SUFFICES ASSUME DnsInv, [Next]_vars
               PROVE  Lease!Next \/ UNCHANGED Lease!vars
    OBVIOUS
  <2>1. ASSUME NEW d \in Domain, NEW qtype \in {A, AAAA}, handleDnsQuery(d, qtype)
        PROVE  Lease!Next
    BY <2>1, QueryRefines
  <2>2. ASSUME NEW ip \in Address, resolveFakeIp(ip)
        PROVE  Lease!Next \/ UNCHANGED Lease!vars
    <3>1. UNCHANGED domainToOffset
      BY <2>2, ResolveCases
    <3>2. CASE UNCHANGED <<lru, since>>
      BY <3>1, <3>2 DEF Lease!vars
    <3>3. ASSUME NEW d \in Domain, domainToOffset[d] # Null, Used(d)
          PROVE  Lease!Next
      <4>1. Lease!Renew(d)
        BY <3>1, <3>3 DEF Lease!Renew, Lease!Holders, Lease!Used, Used, Null
      <4> QED  BY <4>1 DEF Lease!Next
    <3> QED  BY <2>2, <3>2, <3>3, ResolveCases
  <2>3. ASSUME NEW v6 \in BOOLEAN, restartStackNow(v6) PROVE UNCHANGED Lease!vars
    BY <2>3 DEF restartStackNow, poolVars, Lease!vars
  <2>4. ASSUME stop PROVE Lease!Next
    BY <2>4 DEF stop, reset, Lease!Next, Lease!Clear, Null
  <2>5. ASSUME UNCHANGED vars PROVE UNCHANGED Lease!vars
    BY <2>5 DEF vars, Lease!vars
  <2> QED  BY <2>1, <2>2, <2>3, <2>4, <2>5 DEF Next
<1> QED  BY DnsInvInit, DnsInvNext, <1>1, <1>2, PTL DEF Spec, ImplementsLease, Lease!Spec
=============================================================================
