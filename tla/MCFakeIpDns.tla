---------------------------- MODULE MCFakeIpDns ----------------------------
(* Four domains over a pool of three: every eviction and reuse happens.    *)
EXTENDS FakeIpDns

\* Every pool address in both families, their neighbours just outside the
\* pool, the rest of 198.18.0.0/15, and addresses that only look similar.
MCAddress ==
  {ipv4Bytes(o) : o \in 0..(POOL_SIZE + 1)} \cup
  {ipv6Bytes(o) : o \in 0..(POOL_SIZE + 1)} \cup
  {<<BaseHigh + 1, 1>>, <<2056, 2056>>,
   <<Fc00, 0, 0, 1, 0, 0, 0, 1>>, <<Fc00, 0, 1, 0, 0, 0, 0, 1>>,
   <<Fc00, 0, 0, 0, 0, 0, 1, 1>>}
=============================================================================
