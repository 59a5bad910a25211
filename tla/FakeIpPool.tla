----------------------------- MODULE FakeIpPool -----------------------------
(***************************************************************************)
(* vpn/FakeIpPool.kt: the pool of synthetic addresses handed out by the    *)
(* DNS interception.  An offset in 1..POOL_SIZE is bound to a domain; the  *)
(* least recently used binding is evicted when the pool is full.           *)
(*                                                                         *)
(* The two hash maps are total functions whose absent keys map to Null or  *)
(* NoDomain.  An LruNode is named by its offset: at most one node of an    *)
(* offset is reachable at a time, and an unlinked one is garbage.  Every   *)
(* public method runs under stateLock, so each is one action.              *)
(***************************************************************************)
EXTENDS Integers, Sequences, FiniteSets

CONSTANTS Domain, NoDomain, POOL_SIZE

ASSUME NoDomainAssumption == NoDomain \notin Domain
\* TunnelConstants.fakeIPPoolSize is 16384: offsets fit 16 bits, positive.
ASSUME PoolSizeAssumption == POOL_SIZE \in Nat /\ POOL_SIZE >= 1 /\ POOL_SIZE < 65536

VARIABLES
  domainToOffset,  \* [Domain -> 0..POOL_SIZE], Null when absent
  offsetToEntry,   \* [Offset -> Domain \cup {NoDomain}]
  lru,             \* [head, tail, prev, next, nodes]: the doubly linked list
  nextOffset

poolVars == <<domainToOffset, offsetToEntry, lru, nextOffset>>

Null == 0
Offset == 1..POOL_SIZE
Link == 0..POOL_SIZE

-----------------------------------------------------------------------------
(* Addresses, as their 16-bit groups: two for IPv4, eight for IPv6. *)

BaseHigh == 50706        \* 0xC612, the upper half of fakeIPPoolBaseIPv4
Fc00 == 64512            \* 0xFC00

ipv4Bytes(offset) == <<BaseHigh + offset \div 65536, offset % 65536>>
ipv6Bytes(offset) ==
  <<Fc00, 0, 0, 0, 0, 0, offset \div 65536, offset % 65536>>

\* Long.toInt() wraps, but no IPv4 address differs from the base by a
\* multiple of 2^32, so only the base's own /16 yields an offset in range.
ipv4ToOffset(ip) ==
  IF ip[1] = BaseHigh /\ ip[2] \in Offset THEN ip[2] ELSE Null

ipv6ToOffset(ip) ==
  IF /\ ip[1] = Fc00
     /\ \A i \in 2..6 : ip[i] = 0
     /\ ip[7] = 0
     /\ ip[8] \in Offset
  THEN ip[8] ELSE Null

ipToOffset(ip) == IF Len(ip) = 8 THEN ipv6ToOffset(ip) ELSE ipv4ToOffset(ip)

\* The zero run inet_ntop prints as "::" is the first of the longest ones;
\* the text starts with "fc00::" when that run begins at the second group.
ZeroRun(ip, i, n) == i + n <= 9 /\ \A k \in i..(i + n - 1) : ip[k] = 0
StartsFc00(ip) ==
  /\ ip[1] = Fc00
  /\ \E n \in 2..7 : /\ ZeroRun(ip, 2, n)
                     /\ \A i \in 3..8 : ~ZeroRun(ip, i, n + 1)

isFakeIp(ip) ==
  IF Len(ip) = 8 THEN StartsFc00(ip) ELSE ip[1] \in {BaseHigh, BaseHigh + 1}

-----------------------------------------------------------------------------
(* The doubly linked list.  head is the most recently used node. *)

EmptyLru == [head  |-> Null, tail |-> Null,
             prev  |-> [o \in Offset |-> Null],
             next  |-> [o \in Offset |-> Null],
             nodes |-> {}]

UnlinkedNext(l, n) ==
  [o \in Offset |-> IF o = n THEN Null
                    ELSE IF o = l.prev[n] THEN l.next[n] ELSE l.next[o]]
UnlinkedPrev(l, n) ==
  [o \in Offset |-> IF o = n THEN Null
                    ELSE IF o = l.next[n] THEN l.prev[n] ELSE l.prev[o]]

removeNode(l, n) ==
  [head  |-> IF n = l.head THEN l.next[n] ELSE l.head,
   tail  |-> IF n = l.tail THEN l.prev[n] ELSE l.tail,
   prev  |-> UnlinkedPrev(l, n),
   next  |-> UnlinkedNext(l, n),
   nodes |-> l.nodes]

insertAtHead(l, n) ==
  [head  |-> n,
   tail  |-> IF l.tail = Null THEN n ELSE l.tail,
   prev  |-> [o \in Offset |-> IF o = l.head THEN n
                               ELSE IF o = n THEN Null ELSE l.prev[o]],
   next  |-> [l.next EXCEPT ![n] = l.head],
   nodes |-> l.nodes]

touchLru(l, n) == IF n \in l.nodes THEN insertAtHead(removeNode(l, n), n) ELSE l

appendLru(l, n) == insertAtHead([l EXCEPT !.nodes = @ \cup {n}], n)

-----------------------------------------------------------------------------

Init ==
  /\ domainToOffset = [d \in Domain |-> Null]
  /\ offsetToEntry = [o \in Offset |-> NoDomain]
  /\ lru = EmptyLru
  /\ nextOffset = 1

\* The common end of allocate for a new domain: dto and list are the map and
\* the list after a possible eviction.
Bind(d, o, dto, list) ==
  /\ domainToOffset' = [dto EXCEPT ![d] = o]
  /\ offsetToEntry' = [offsetToEntry EXCEPT ![o] = d]
  /\ lru' = appendLru(list, o)

\* Mutant: a repeated query does not refresh the domain's position.
MutantKnownNotTouched(d) ==
  domainToOffset[d] # Null /\ UNCHANGED poolVars

AllocateKnown(d) ==
  /\ domainToOffset[d] # Null
  /\ lru' = touchLru(lru, domainToOffset[d])
  /\ UNCHANGED <<domainToOffset, offsetToEntry, nextOffset>>

AllocateFresh(d) ==
  /\ domainToOffset[d] = Null
  /\ nextOffset <= POOL_SIZE
  /\ nextOffset' = nextOffset + 1
  /\ Bind(d, nextOffset, domainToOffset, lru)

(* evictLru: the offset it returns, and the map and list it leaves.  On an *)
(* empty list the code logs, evicts nothing and falls back to offset 1.    *)
EvictedOffset == IF lru.tail = Null THEN 1 ELSE lru.tail

\* Mutant: eviction forgets to remove the old domain's direction.
MutantEvictedMapKept == domainToOffset

EvictedMap ==
  IF lru.tail = Null THEN domainToOffset
  ELSE [d \in Domain |-> IF d = offsetToEntry[lru.tail] THEN Null
                         ELSE domainToOffset[d]]

EvictedList ==
  IF lru.tail = Null THEN lru
  ELSE [removeNode(lru, lru.tail) EXCEPT !.nodes = @ \ {lru.tail}]

AllocateEvict(d) ==
  /\ domainToOffset[d] = Null
  /\ nextOffset > POOL_SIZE
  /\ Bind(d, EvictedOffset, EvictedMap, EvictedList)
  /\ UNCHANGED nextOffset

allocate(d) == AllocateKnown(d) \/ AllocateFresh(d) \/ AllocateEvict(d)

\* What lookup(ip) returns: the domain, or NoDomain for null.
LookupResult(ip) ==
  LET o == ipToOffset(ip)
  IN  IF o = Null THEN NoDomain ELSE offsetToEntry[o]

\* Mutant: a connection does not count as a use of its domain.
MutantLookupNotTouched(ip) == UNCHANGED poolVars

lookup(ip) ==
  /\ lru' = IF LookupResult(ip) = NoDomain THEN lru ELSE touchLru(lru, ipToOffset(ip))
  /\ UNCHANGED <<domainToOffset, offsetToEntry, nextOffset>>

reset ==
  /\ domainToOffset' = [d \in Domain |-> Null]
  /\ offsetToEntry' = [o \in Offset |-> NoDomain]
  /\ lru' = EmptyLru
  /\ nextOffset' = 1
=============================================================================
