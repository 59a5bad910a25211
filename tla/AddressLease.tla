---------------------------- MODULE AddressLease ----------------------------
(***************************************************************************)
(* What the fake-IP pool promises its callers, without its data            *)
(* structures: a domain leases one of N addresses, no two domains lease    *)
(* the same one, and a lease is taken away only when all N are leased and  *)
(* every other leaseholder has been used more recently.                    *)
(***************************************************************************)
EXTENDS Naturals

CONSTANTS Domain, N

VARIABLES
  lease,   \* [Domain -> 0..N], 0 when the domain holds none
  since    \* [Domain -> SUBSET Domain]: the domains used since d's last use

vars == <<lease, since>>

Init == /\ lease = [d \in Domain |-> 0]
        /\ since = [d \in Domain |-> {}]

Used(d) == since' = [e \in Domain |-> IF e = d THEN {} ELSE since[e] \cup {d}]

Holders == {d \in Domain : lease[d] # 0}
Free == {a \in 1..N : \A d \in Domain : lease[d] # a}

\* A leaseholder is used again: through DNS or through a connection.
Renew(d) == d \in Holders /\ Used(d) /\ UNCHANGED lease

Grant(d) == /\ d \notin Holders
            /\ \E a \in Free : lease' = [lease EXCEPT ![d] = a]
            /\ Used(d)

\* v is the least recently used holder.
Reassign(v, d) ==
  /\ d \notin Holders /\ v \in Holders
  /\ Free = {}
  /\ Holders \ {v} \subseteq since[v]
  /\ lease' = [lease EXCEPT ![d] = lease[v], ![v] = 0]
  /\ Used(d)

Clear == /\ lease' = [d \in Domain |-> 0]
         /\ since' = [d \in Domain |-> {}]

Next == \/ \E d \in Domain : Renew(d) \/ Grant(d)
        \/ \E v, d \in Domain : Reassign(v, d)
        \/ Clear

Spec == Init /\ [][Next]_vars
=============================================================================
