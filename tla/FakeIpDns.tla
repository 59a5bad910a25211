------------------------------ MODULE FakeIpDns ------------------------------
(***************************************************************************)
(* The fake-IP pool driven by its two callers in vpn/LwipStack.kt: the DNS *)
(* interception (handleDnsQuery), which allocates and answers, and the     *)
(* accept and UDP paths (resolveFakeIp), which look addresses up.  Apps    *)
(* keep an answered address as long as they like and connect to it later.  *)
(***************************************************************************)
EXTENDS FakeIpPool

CONSTANT Address          \* the destinations apps connect to

VARIABLES
  ipv6DNSEnabled,
  answered,  \* history: the offset last answered for a domain, or Null
  since      \* history: the domains used since the last use of a domain

vars == <<domainToOffset, offsetToEntry, lru, nextOffset,
          ipv6DNSEnabled, answered, since>>

A == 1
AAAA == 28

DnsInit ==
  /\ Init
  /\ ipv6DNSEnabled \in BOOLEAN
  /\ answered = [d \in Domain |-> Null]
  /\ since = [d \in Domain |-> {}]

Used(d) == since' = [e \in Domain |-> IF e = d THEN {} ELSE since[e] \cup {d}]

\* An AAAA query with IPv6 off still allocates, but is answered NODATA: an
\* address answered under an earlier, evicted binding is then superseded.
handleDnsQuery(d, qtype) ==
  /\ allocate(d)
  /\ answered' = [answered EXCEPT ![d] =
                    IF qtype = A \/ ipv6DNSEnabled THEN domainToOffset'[d]
                    ELSE IF domainToOffset[d] = Null THEN Null ELSE @]
  /\ Used(d)
  /\ UNCHANGED ipv6DNSEnabled

\* resolveFakeIp: what the accept path learns of a destination.
Passthrough == "passthrough"
Unreachable == "unreachable"
ASSUME OutcomesAssumption == Passthrough \notin Domain /\ Unreachable \notin Domain
Resolution(ip) ==
  IF ~isFakeIp(ip) THEN Passthrough
  ELSE IF LookupResult(ip) = NoDomain THEN Unreachable ELSE LookupResult(ip)

resolveFakeIp(ip) ==
  /\ IF isFakeIp(ip) THEN lookup(ip) ELSE UNCHANGED poolVars
  /\ IF Resolution(ip) \in Domain THEN Used(Resolution(ip)) ELSE UNCHANGED since
  /\ UNCHANGED <<ipv6DNSEnabled, answered>>

\* A stack restart brings the new IPv6 setting and keeps the pool.
restartStackNow(ipv6Dns) ==
  /\ ipv6DNSEnabled' = ipv6Dns
  /\ UNCHANGED <<poolVars, answered, since>>

\* stop() empties the pool; the next start() drives a pool that is empty.
stop ==
  /\ reset
  /\ answered' = [d \in Domain |-> Null]
  /\ since' = [d \in Domain |-> {}]
  /\ UNCHANGED ipv6DNSEnabled

Next ==
  \/ \E d \in Domain, qtype \in {A, AAAA} : handleDnsQuery(d, qtype)
  \/ \E ip \in Address : resolveFakeIp(ip)
  \/ \E v6 \in BOOLEAN : restartStackNow(v6)
  \/ stop

Spec == DnsInit /\ [][Next]_vars

-----------------------------------------------------------------------------

\* The types of the maps, of the list's pointers and of the history.
TypeOK ==
  /\ domainToOffset \in [Domain -> Link]
  /\ offsetToEntry \in [Offset -> Domain \cup {NoDomain}]
  /\ lru \in [head : Link, tail : Link, prev : [Offset -> Link],
              next : [Offset -> Link], nodes : SUBSET Offset]
  /\ nextOffset \in 1..(POOL_SIZE + 1)
  /\ ipv6DNSEnabled \in BOOLEAN
  /\ answered \in [Domain -> Link]
  /\ since \in [Domain -> SUBSET Domain]

(* The two maps are inverse to each other, so no address ever stands for   *)
(* two domains: an eviction removes both directions of the old binding     *)
(* before the offset is bound again (evictLru, allocate).                  *)
MapsInverse ==
  /\ \A d \in Domain :
       domainToOffset[d] # Null => offsetToEntry[domainToOffset[d]] = d
  /\ \A o \in Offset :
       offsetToEntry[o] # NoDomain => domainToOffset[offsetToEntry[o]] = o

(* An app that connects to an answered address reaches the domain it asked *)
(* for, in either address family, unless POOL_SIZE other domains have been *)
(* used since: the address is recognised as fake and looks up to its own   *)
(* domain (handleDnsQuery, isFakeIp, lookup, evictLru together).           *)
AnswerStaysValid ==
  \A d \in Domain :
    (answered[d] # Null /\ Cardinality(since[d]) < POOL_SIZE) =>
      /\ Resolution(ipv4Bytes(answered[d])) = d
      /\ Resolution(ipv6Bytes(answered[d])) = d

(* The pool implements the lease specification: addresses are never        *)
(* shared, and only the least recently used one is reassigned, only when   *)
(* the pool is full (allocate, evictLru, touchLru).                        *)
Lease == INSTANCE AddressLease
           WITH lease <- domainToOffset, N <- POOL_SIZE, since <- since
ImplementsLease == Lease!Spec
=============================================================================
