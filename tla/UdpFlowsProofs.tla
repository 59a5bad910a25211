--------------------------- MODULE UdpFlowsProofs ---------------------------
(***************************************************************************)
(* For every set of keys, every limit and any number of flows: a closed    *)
(* flow is not in the table, a buffered datagram has an outcome to wait    *)
(* for, and a closed flow keeps no end that its dial came back with.       *)
(*                                                                         *)
(* None of these is inductive.  TableInv adds that a flow is listed under  *)
(* its own key only and that a listed flow is past connectProxy, FlowInv   *)
(* what each flow's flags say about the tasks still queued for it.         *)
(***************************************************************************)
EXTENDS UdpFlows, TLAPS, FiniteSetTheorems, SequenceTheorems

Has(q, t) == \E i \in DOMAIN q : q[i] = t

\* What one flow r, number f, relies on when q is the executor's queue.
FlowInv(r, f, q) ==
  /\ r.closed => ~r.held
  /\ r.open => r.held \/ Has(q, Task("connected", f))
  /\ (~r.closed /\ r.proxyConnecting) =>
       \/ r.dialing
       \/ Has(q, Task("connected", f))
       \/ Has(q, Task("connectFailed", f))
  /\ (~r.closed /\ r.pendingData > 0) => r.proxyConnecting

\* What the table relies on: entry k, when it is not empty.
EntryInv(k) ==
  udpFlows[k] # 0 =>
    /\ udpFlows[k] <= created
    /\ flow[udpFlows[k]].key = k
    /\ ~flow[udpFlows[k]].closed
    /\ flow[udpFlows[k]].proxyConnecting \/ flow[udpFlows[k]].held

UdpInv ==
  /\ TypeOK
  /\ \A k \in Keys : EntryInv(k)
  /\ \A f \in Ids : FlowInv(flow[f], f, queue)

-----------------------------------------------------------------------------
(* The queue. *)

(* A task stays queued when others are appended. *)
LEMMA HasConcat ==
  ASSUME NEW q \in Seq(TaskRecord), NEW p \in Seq(TaskRecord), NEW t, Has(q, t)
  PROVE  q \o p \in Seq(TaskRecord) /\ Has(q \o p, t)
<1>1. PICK i \in 1..Len(q) : q[i] = t
  BY LenProperties DEF Has
<1>2. /\ q \o p \in Seq(TaskRecord)
      /\ Len(q \o p) = Len(q) + Len(p)
      /\ \A j \in 1..Len(q) + Len(p) : (q \o p)[j] = IF j <= Len(q) THEN q[j] ELSE p[j - Len(q)]
  BY ConcatProperties
<1>3. i \in 1..Len(q) + Len(p) /\ Len(q) \in Nat /\ Len(p) \in Nat
  BY LenProperties
<1>4. DOMAIN (q \o p) = 1..Len(q \o p)
  BY <1>2, LenProperties
<1> QED
  BY <1>1, <1>2, <1>3, <1>4 DEF Has

(* A task that is not the first stays queued when the first is taken. *)
LEMMA HasTail ==
  ASSUME NEW q \in Seq(TaskRecord), q # <<>>, NEW t, Has(q, t), Head(q) # t
  PROVE  Has(Tail(q), t)
<1>1. PICK i \in 1..Len(q) : q[i] = t
  BY LenProperties DEF Has
<1>2. /\ Tail(q) \in Seq(TaskRecord)
      /\ Len(Tail(q)) = Len(q) - 1
      /\ \A j \in 1..Len(Tail(q)) : Tail(q)[j] = q[j + 1]
  BY HeadTailProperties
<1>3. Len(q) \in Nat /\ DOMAIN Tail(q) = 1..Len(Tail(q))
  BY <1>2, LenProperties
<1>4. i # 1
  BY <1>1
<1>5. i - 1 \in 1..Len(Tail(q)) /\ Tail(q)[i - 1] = q[i]
  BY <1>1, <1>2, <1>3, <1>4
<1> QED
  BY <1>1, <1>3, <1>5 DEF Has

(* An appended task is queued. *)
LEMMA HasAppend ==
  ASSUME NEW q \in Seq(TaskRecord), NEW t \in TaskRecord
  PROVE  /\ Append(q, t) \in Seq(TaskRecord)
         /\ Has(Append(q, t), t)
         /\ \A u : Has(q, u) => Has(Append(q, t), u)
<1>1. /\ Append(q, t) \in Seq(TaskRecord)
      /\ Len(Append(q, t)) = Len(q) + 1
      /\ Append(q, t)[Len(q) + 1] = t
      /\ \A j \in 1..Len(q) : Append(q, t)[j] = q[j]
  OBVIOUS
<1>2. /\ DOMAIN q = 1..Len(q) /\ Len(q) \in Nat
      /\ DOMAIN Append(q, t) = 1..Len(q) + 1
  BY <1>1, LenProperties
<1> QED
  BY <1>1, <1>2 DEF Has

(* A function on 1..n is a sequence. *)
LEMMA FunctionIsSeq ==
  ASSUME NEW R, NEW n \in Nat, NEW s \in [1..n -> R]
  PROVE  s \in Seq(R)
  OBVIOUS

(* The close handlers of a set of flows are a sequence of tasks. *)
LEMMA CloseHandlersType ==
  ASSUME NEW S \in SUBSET Ids
  PROVE  CloseHandlers(S) \in Seq(TaskRecord)
<1> DEFINE calling == {f \in S : ~flow[f].closed /\ flow[f].path = "mux"
                                 /\ flow[f].held /\ ~flow[f].gone}
           T == {Task("ended", f) : f \in calling}
           g == [f \in calling |-> Task("ended", f)]
<1>1. IsFiniteSet(calling)
  <2>1. IsFiniteSet(Ids)
    BY FS_Interval, LimitAssumption DEF Ids
  <2> QED
    BY <2>1, FS_Subset
<1>2. g \in Surjection(calling, T)
  BY DEF Surjection
<1>3. IsFiniteSet(T)
  BY <1>1, <1>2, FS_Surjection
<1>4. /\ Cardinality(T) \in Nat
      /\ \E h \in [1..Cardinality(T) -> T] : IsInjective(h)
  BY <1>3, FS_CardinalityType DEF ExistsBijection, Bijection, Injection
<1>5. SetToSeq(T) \in [1..Cardinality(T) -> T]
  BY <1>4 DEF SetToSeq
<1>6. T \subseteq TaskRecord
  BY DEF TaskRecord, Task
<1>7. SetToSeq(T) \in [1..Cardinality(T) -> TaskRecord]
  BY <1>5, <1>6
<1>8. SetToSeq(T) \in Seq(TaskRecord)
  BY <1>4, <1>7, FunctionIsSeq
<1> QED
  BY <1>8 DEF CloseHandlers

-----------------------------------------------------------------------------
(* One flow. *)

(* A flow that relies on a queue relies on every queue that keeps the      *)
(* outcome of its dial.                                                    *)
LEMMA FlowInvQueue ==
  ASSUME NEW r \in FlowRecord, NEW f, NEW q, NEW p, FlowInv(r, f, q),
         Has(q, Task("connected", f)) => Has(p, Task("connected", f)),
         Has(q, Task("connectFailed", f)) => Has(p, Task("connectFailed", f))
  PROVE  FlowInv(r, f, p)
  BY DEF FlowInv

(* releaseProtocol leaves nothing held, dialed, connecting or buffered. *)
LEMMA ReleaseProtocolInv ==
  ASSUME NEW r \in FlowRecord, NEW f, NEW q, FlowInv(r, f, q)
  PROVE  /\ releaseProtocol(r) \in FlowRecord
         /\ releaseProtocol(r).closed = r.closed
         /\ releaseProtocol(r).key = r.key
         /\ FlowInv(releaseProtocol(r), f, q)
<1> DEFINE s == releaseProtocol(r)
<1>1. /\ s.held = FALSE /\ s.proxyConnecting = FALSE /\ s.dialing = FALSE
      /\ s.pendingData = 0 /\ s.closed = r.closed /\ s.key = r.key
      /\ s.open = (IF r.held THEN FALSE ELSE r.open)
  BY DEF releaseProtocol, FlowRecord
<1>2. s \in FlowRecord
  <2>1. 0 \in 0..udpMaxBufferSize
    BY LimitAssumption
  <2>2. (IF r.held THEN FALSE ELSE r.open) \in BOOLEAN
    BY DEF FlowRecord
  <2>3. (IF r.receiver = "live" THEN "cancelled" ELSE r.receiver) \in {"none", "live", "cancelled"}
    BY DEF FlowRecord
  <2>4. ASSUME NEW o \in BOOLEAN, NEW v \in {"none", "live", "cancelled"}, NEW c \in BOOLEAN
        PROVE  [r EXCEPT !.held = FALSE, !.proxyConnecting = FALSE, !.dialing = FALSE, !.pendingData = 0,
                         !.open = o, !.receiver = v, !.cut = c] \in FlowRecord
    BY <2>1 DEF FlowRecord
  <2>5. (r.cut \/ (r.dialing /\ r.path = "direct")) \in BOOLEAN
    OBVIOUS
  <2> QED
    BY <2>2, <2>3, <2>4, <2>5, Zenon DEF releaseProtocol
<1>3. FlowInv(s, f, q)
  <2> HIDE DEF s
  <2> QED  BY <1>1 DEF FlowInv
<1> QED
  BY <1>1, <1>2, <1>3

(* close keeps what the flow relies on. *)
LEMMA CloseInv ==
  ASSUME NEW r \in FlowRecord, NEW f, NEW q, FlowInv(r, f, q)
  PROVE  /\ close(r) \in FlowRecord
         /\ close(r).closed
         /\ close(r).key = r.key
         /\ FlowInv(close(r), f, q)
<1>1. CASE r.closed
  BY <1>1 DEF close
<1>2. CASE ~r.closed
  <2> DEFINE s == releaseProtocol(r)
             c == [s EXCEPT !.closed = TRUE]
  <2>1. s \in FlowRecord /\ s.key = r.key /\ FlowInv(s, f, q)
    BY ReleaseProtocolInv
  <2>2. /\ s.held = FALSE /\ s.open = (IF r.held THEN FALSE ELSE r.open)
    BY DEF releaseProtocol, FlowRecord
  <2>3. /\ c.closed = TRUE /\ c.held = s.held /\ c.open = s.open /\ c.key = s.key
    BY <2>1 DEF FlowRecord
  <2>4. c \in FlowRecord
    BY <2>1 DEF FlowRecord
  <2>5. FlowInv(c, f, q)
    BY <2>1, <2>2, <2>3 DEF FlowInv
  <2>6. close(r) = c
    BY <1>2 DEF close
  <2> QED
    BY <2>1, <2>3, <2>4, <2>5, <2>6
<1> QED
  BY <1>1, <1>2

-----------------------------------------------------------------------------
(* One step. *)

\* The dial outcomes queued for f in q are queued in p.
KeepsOutcome(f, q, p) ==
  /\ Has(q, Task("connected", f)) => Has(p, Task("connected", f))
  /\ Has(q, Task("connectFailed", f)) => Has(p, Task("connectFailed", f))

(* A step that changes one flow, keeps the outcomes queued for the others, *)
(* and at most empties entries of the table.                               *)
LEMMA FlowStep ==
  ASSUME UdpInv, NEW f \in Ids, NEW r \in FlowRecord,
         flow' = [flow EXCEPT ![f] = r],
         r.key = flow[f].key,
         FlowInv(r, f, queue'),
         queue' \in Seq(TaskRecord),
         \A g \in Ids \ {f} : KeepsOutcome(g, queue, queue'),
         udpFlows' \in [Keys -> 0..MaxFlows],
         \A k \in Keys : \/ udpFlows'[k] = 0
                         \/ /\ udpFlows'[k] = udpFlows[k]
                            /\ udpFlows[k] = f =>
                                 ~r.closed /\ (r.proxyConnecting \/ r.held),
         created' = created
  PROVE  UdpInv'
<1>1. /\ flow \in [Ids -> FlowRecord] /\ flow'[f] = r
      /\ \A g \in Ids \ {f} : flow'[g] = flow[g]
      /\ flow' \in [Ids -> FlowRecord]
  BY DEF UdpInv, TypeOK
<1>2. TypeOK'
  BY <1>1 DEF UdpInv, TypeOK
<1>3. ASSUME NEW g \in Ids  PROVE FlowInv(flow'[g], g, queue')
  <2>1. CASE g = f
    BY <1>1, <2>1
  <2>2. CASE g # f
    <3>1. flow'[g] = flow[g] /\ flow[g] \in FlowRecord /\ FlowInv(flow[g], g, queue)
      BY <1>1, <2>2 DEF UdpInv
    <3>2. KeepsOutcome(g, queue, queue')
      BY <2>2
    <3> QED
      BY <3>1, <3>2, FlowInvQueue DEF KeepsOutcome
  <2> QED
    BY <2>1, <2>2
<1>4. ASSUME NEW k \in Keys, udpFlows'[k] # 0
      PROVE  /\ udpFlows'[k] <= created'
             /\ flow'[udpFlows'[k]].key = k
             /\ ~flow'[udpFlows'[k]].closed
             /\ flow'[udpFlows'[k]].proxyConnecting \/ flow'[udpFlows'[k]].held
  <2>1. /\ udpFlows'[k] = udpFlows[k]
        /\ udpFlows[k] = f => ~r.closed /\ (r.proxyConnecting \/ r.held)
    BY <1>4
  <2>2. EntryInv(k)
    BY DEF UdpInv
  <2>3. udpFlows[k] \in Ids
    BY <1>4, <2>1, LimitAssumption DEF UdpInv, TypeOK, Ids
  <2>4. CASE udpFlows[k] = f
    BY <1>1, <1>4, <2>1, <2>2, <2>4 DEF EntryInv
  <2>5. CASE udpFlows[k] # f
    <3>1. flow'[udpFlows[k]] = flow[udpFlows[k]]
      BY <1>1, <2>3, <2>5
    <3> QED
      BY <1>4, <2>1, <2>2, <3>1 DEF EntryInv
  <2> QED
    BY <2>4, <2>5
<1>5. \A k \in Keys : EntryInv(k)'
  BY <1>4 DEF EntryInv
<1> QED
  BY <1>2, <1>3, <1>5 DEF UdpInv

(* Closing a set of flows and emptying their entries.                      *)
LEMMA CloseStep ==
  ASSUME UdpInv, NEW S \in SUBSET Ids,
         CloseFlows(S), Forget(S),
         queue' = queue \o CloseHandlers(S),
         created' = created
  PROVE  UdpInv'
<1>1. /\ flow \in [Ids -> FlowRecord] /\ queue \in Seq(TaskRecord)
      /\ udpFlows \in [Keys -> 0..MaxFlows] /\ created \in 0..MaxFlows
      /\ \A f \in Ids : FlowInv(flow[f], f, queue)
      /\ \A k \in Keys : EntryInv(k)
  BY DEF UdpInv, TypeOK
<1>2. CloseHandlers(S) \in Seq(TaskRecord)
  BY CloseHandlersType
<1>3. queue' \in Seq(TaskRecord)
  BY <1>1, <1>2, ConcatProperties
<1>4. \A f \in Ids : KeepsOutcome(f, queue, queue')
  BY <1>1, <1>2, HasConcat DEF KeepsOutcome
<1>5. ASSUME NEW f \in Ids
      PROVE  /\ flow'[f] \in FlowRecord
             /\ flow'[f].key = flow[f].key
             /\ FlowInv(flow'[f], f, queue')
  <2>1. flow'[f] = IF f \in S THEN close(flow[f]) ELSE flow[f]
    BY DEF CloseFlows
  <2>2. flow[f] \in FlowRecord /\ FlowInv(flow[f], f, queue)
    BY <1>1
  <2>3. /\ flow'[f] \in FlowRecord /\ flow'[f].key = flow[f].key
        /\ FlowInv(flow'[f], f, queue)
    BY <2>1, <2>2, CloseInv
  <2> QED
    BY <1>4, <2>3, FlowInvQueue DEF KeepsOutcome
<1>6. TypeOK'
  <2>1. flow' \in [Ids -> FlowRecord]
    BY <1>5 DEF CloseFlows
  <2>2. udpFlows' \in [Keys -> 0..MaxFlows]
    BY <1>1, LimitAssumption DEF Forget
  <2> QED
    BY <1>1, <1>3, <2>1, <2>2 DEF TypeOK
<1>7. ASSUME NEW k \in Keys, udpFlows'[k] # 0
      PROVE  /\ udpFlows'[k] <= created'
             /\ flow'[udpFlows'[k]].key = k
             /\ ~flow'[udpFlows'[k]].closed
             /\ flow'[udpFlows'[k]].proxyConnecting \/ flow'[udpFlows'[k]].held
  <2>1. udpFlows'[k] = udpFlows[k] /\ udpFlows[k] \notin S /\ EntryInv(k)
    BY <1>1, <1>7 DEF Forget
  <2>2. udpFlows[k] \in Ids
    BY <1>1, <1>7, <2>1, LimitAssumption DEF Ids
  <2>3. flow'[udpFlows[k]] = flow[udpFlows[k]]
    BY <2>1, <2>2 DEF CloseFlows
  <2> QED
    BY <1>7, <2>1, <2>3 DEF EntryInv
<1>8. \A k \in Keys : EntryInv(k)'
  BY <1>7 DEF EntryInv
<1> QED
  BY <1>5, <1>6, <1>8 DEF UdpInv

-----------------------------------------------------------------------------
(* The actions. *)

(* A datagram for a listed flow is sent or buffered: a listed flow never   *)
(* gets as far as connectProxy again.                                      *)
LEMMA DatagramToFlowInv == ASSUME UdpInv, DatagramToFlow  PROVE UdpInv'
<1>1. PICK k \in Keys : /\ udpFlows[k] # 0
                        /\ flow' = [flow EXCEPT ![udpFlows[k]] = handleReceivedData(@)]
                        /\ UNCHANGED <<udpFlows, created, queue>>
  BY DEF DatagramToFlow
<1> DEFINE f == udpFlows[k]
           r == flow[f]
           s == handleReceivedData(r)
<1>2. f \in Ids /\ EntryInv(k)
  BY <1>1, LimitAssumption DEF UdpInv, TypeOK, Ids
<1>3. r \in FlowRecord /\ FlowInv(r, f, queue)
  BY <1>2 DEF UdpInv, TypeOK
<1>4. ~r.closed /\ (r.proxyConnecting \/ r.held)
  BY <1>1, <1>2 DEF EntryInv
<1>5. s = IF r.proxyConnecting THEN bufferPayload(r) ELSE r
  BY <1>4 DEF handleReceivedData
<1>6. /\ s \in FlowRecord /\ s.key = r.key /\ FlowInv(s, f, queue)
      /\ ~s.closed /\ (s.proxyConnecting \/ s.held)
  <2>1. CASE ~r.proxyConnecting
    BY <1>3, <1>4, <1>5, <2>1
  <2>2. CASE r.proxyConnecting /\ r.pendingData + 1 > udpMaxBufferSize
    BY <1>3, <1>4, <1>5, <2>2 DEF bufferPayload
  <2>3. CASE r.proxyConnecting /\ ~(r.pendingData + 1 > udpMaxBufferSize)
    <3> DEFINE b == [r EXCEPT !.pendingData = r.pendingData + 1]
    <3>1. s = b
      BY <1>5, <2>3 DEF bufferPayload
    <3>2. r.pendingData + 1 \in 0..udpMaxBufferSize
      BY <1>3, <2>3, LimitAssumption DEF FlowRecord
    <3>3. b \in FlowRecord
      BY <1>3, <3>2 DEF FlowRecord
    <3>4. /\ b.key = r.key /\ b.closed = r.closed /\ b.held = r.held /\ b.open = r.open
          /\ b.proxyConnecting = r.proxyConnecting /\ b.dialing = r.dialing
      BY <1>3 DEF FlowRecord
    <3>5. FlowInv(b, f, queue)
      <4> HIDE DEF b, r
      <4> QED  BY <1>3, <2>3, <3>4 DEF FlowInv
    <3> QED
      BY <1>4, <3>1, <3>3, <3>4, <3>5
  <2> QED
    BY <2>1, <2>2, <2>3
<1>7. flow' = [flow EXCEPT ![f] = s]
  BY <1>1
<1>8. /\ queue' = queue /\ udpFlows' = udpFlows /\ created' = created
      /\ queue \in Seq(TaskRecord) /\ udpFlows \in [Keys -> 0..MaxFlows]
  BY <1>1 DEF UdpInv, TypeOK
<1>9. \A g \in Ids : KeepsOutcome(g, queue, queue')
  BY <1>8 DEF KeepsOutcome
<1> HIDE DEF s, r, f
<1> QED
  BY <1>2, <1>6, <1>7, <1>8, <1>9, FlowStep DEF r

(* What handleReceivedData makes of a flow just created. *)
LEMMA NewFlowInv ==
  ASSUME NEW k \in Keys, NEW path \in AllPaths, NEW f, NEW q
  PROVE  LET r == handleReceivedData(NewFlow(k, path))
         IN  /\ r \in FlowRecord /\ r.key = k /\ FlowInv(r, f, q)
             /\ ~r.closed => r.proxyConnecting \/ r.held
<1> DEFINE n == NewFlow(k, path)
           b == [key |-> k, path |-> path, closed |-> FALSE, proxyConnecting |-> FALSE,
                 dialing |-> FALSE, held |-> FALSE, open |-> FALSE, gone |-> FALSE,
                 receiver |-> "none", pendingData |-> 1, stray |-> FALSE, cut |-> FALSE]
           r == handleReceivedData(n)
<1>1. udpMaxBufferSize \in Nat /\ udpMaxBufferSize >= 1
  BY LimitAssumption
<1>2. /\ n.closed = FALSE /\ n.proxyConnecting = FALSE /\ n.held = FALSE
      /\ n.pendingData = 0 /\ n.path = path
  BY DEF NewFlow
<1>3. bufferPayload(n) = b
  <2>1. bufferPayload(n) = [n EXCEPT !.pendingData = 1]
    BY <1>1, <1>2 DEF bufferPayload
  <2>2. n = [key |-> k, path |-> path, closed |-> FALSE, proxyConnecting |-> FALSE,
             dialing |-> FALSE, held |-> FALSE, open |-> FALSE, gone |-> FALSE,
             receiver |-> "none", pendingData |-> 0, stray |-> FALSE, cut |-> FALSE]
    BY DEF NewFlow
  <2>3. ASSUME NEW x, x = [n EXCEPT !.pendingData = 1]  PROVE x = b
    <3>1. x = [[key |-> k, path |-> path, closed |-> FALSE, proxyConnecting |-> FALSE,
                dialing |-> FALSE, held |-> FALSE, open |-> FALSE, gone |-> FALSE,
                receiver |-> "none", pendingData |-> 0, stray |-> FALSE, cut |-> FALSE] EXCEPT !.pendingData = 1]
      BY <2>2, <2>3
    <3> QED  BY <3>1
  <2> QED
    BY <2>1, <2>3
<1>4. r = connectProxy(b)
  BY <1>2, <1>3 DEF handleReceivedData
<1>5. b \in FlowRecord /\ b.path = path
  BY <1>1 DEF FlowRecord
<1> HIDE DEF n, b, r
<1>6. CASE path = "direct"
  <2>1. r = [b EXCEPT !.proxyConnecting = TRUE, !.dialing = TRUE, !.held = TRUE]
    BY <1>4, <1>5, <1>6 DEF connectProxy, connectDirectUdp
  <2>2. r = [key |-> k, path |-> path, closed |-> FALSE, proxyConnecting |-> TRUE,
             dialing |-> TRUE, held |-> TRUE, open |-> FALSE, gone |-> FALSE,
             receiver |-> "none", pendingData |-> 1, stray |-> FALSE, cut |-> FALSE]
    BY <2>1 DEF b
  <2> QED
    BY <1>1, <2>2 DEF FlowRecord, FlowInv, r, n
<1>7. CASE path \in {"proxy", "mux"}
  <2>1. r = [b EXCEPT !.proxyConnecting = TRUE, !.dialing = TRUE]
    BY <1>4, <1>5, <1>7 DEF connectProxy, connectProxyNonMux
  <2>2. r = [key |-> k, path |-> path, closed |-> FALSE, proxyConnecting |-> TRUE,
             dialing |-> TRUE, held |-> FALSE, open |-> FALSE, gone |-> FALSE,
             receiver |-> "none", pendingData |-> 1, stray |-> FALSE, cut |-> FALSE]
    BY <2>1 DEF b
  <2> QED
    BY <1>1, <2>2 DEF FlowRecord, FlowInv, r, n
<1>8. CASE path = "shadowsocks"
  <2>1. r = [b EXCEPT !.held = TRUE, !.open = TRUE, !.pendingData = 0]
    BY <1>4, <1>5, <1>8 DEF connectProxy, connectShadowsocksUdp
  <2>2. r = [key |-> k, path |-> path, closed |-> FALSE, proxyConnecting |-> FALSE,
             dialing |-> FALSE, held |-> TRUE, open |-> TRUE, gone |-> FALSE,
             receiver |-> "none", pendingData |-> 0, stray |-> FALSE, cut |-> FALSE]
    BY <2>1 DEF b
  <2> QED
    BY <1>1, <2>2 DEF FlowRecord, FlowInv, r, n
<1>9. CASE path = "vision443"
  <2>1. r = [b EXCEPT !.closed = TRUE]
    BY <1>4, <1>5, <1>9 DEF connectProxy
  <2>2. r = [key |-> k, path |-> path, closed |-> TRUE, proxyConnecting |-> FALSE,
             dialing |-> FALSE, held |-> FALSE, open |-> FALSE, gone |-> FALSE,
             receiver |-> "none", pendingData |-> 1, stray |-> FALSE, cut |-> FALSE]
    BY <2>1 DEF b
  <2> QED
    BY <1>1, <2>2 DEF FlowRecord, FlowInv, r, n
<1>10. CASE path = "badCredentials"
  <2>1. r = close(b)
    BY <1>4, <1>5, <1>10 DEF connectProxy, connectShadowsocksUdp
  <2>2. r = [key |-> k, path |-> path, closed |-> TRUE, proxyConnecting |-> FALSE,
             dialing |-> FALSE, held |-> FALSE, open |-> FALSE, gone |-> FALSE,
             receiver |-> "none", pendingData |-> 0, stray |-> FALSE, cut |-> FALSE]
    BY <2>1 DEF b, close, releaseProtocol
  <2> QED
    BY <1>1, <2>2 DEF FlowRecord, FlowInv, r, n
<1> QED
  BY <1>6, <1>7, <1>8, <1>9, <1>10 DEF AllPaths

(* A new flow takes an unused number, so no entry refers to it yet. *)
LEMMA DatagramNewFlowInv == ASSUME UdpInv, DatagramNewFlow  PROVE UdpInv'
<1> DEFINE f == created + 1
<1>1. PICK k \in Keys, path \in Paths :
        /\ udpFlows[k] = 0
        /\ flow' = [flow EXCEPT ![created'] = handleReceivedData(NewFlow(k, path))]
        /\ udpFlows' = [udpFlows EXCEPT ![k] =
             IF handleReceivedData(NewFlow(k, path)).closed THEN 0 ELSE created']
  BY DEF DatagramNewFlow
<1> DEFINE r == handleReceivedData(NewFlow(k, path))
<1>2. created' = f /\ f \in Ids /\ created < f /\ created \in 0..MaxFlows /\ queue' = queue
  BY LimitAssumption DEF DatagramNewFlow, UdpInv, TypeOK, Ids
<1>3. /\ r \in FlowRecord /\ r.key = k /\ FlowInv(r, f, queue)
      /\ ~r.closed => r.proxyConnecting \/ r.held
  BY NewFlowInv, PathAssumption
<1> HIDE DEF r
<1>4. /\ flow \in [Ids -> FlowRecord] /\ udpFlows \in [Keys -> 0..MaxFlows]
      /\ \A j \in Keys : EntryInv(j)
  BY DEF UdpInv, TypeOK
<1>5. /\ flow' = [flow EXCEPT ![f] = r] /\ flow' \in [Ids -> FlowRecord] /\ flow'[f] = r
      /\ \A g \in Ids \ {f} : flow'[g] = flow[g]
  BY <1>1, <1>2, <1>3, <1>4 DEF r
<1>6. /\ udpFlows' = [udpFlows EXCEPT ![k] = IF r.closed THEN 0 ELSE f]
      /\ udpFlows' \in [Keys -> 0..MaxFlows]
  <2>1. (IF r.closed THEN 0 ELSE f) \in 0..MaxFlows
    BY <1>2, LimitAssumption DEF Ids
  <2> QED
    BY <1>1, <1>2, <1>4, <2>1 DEF r
<1>7. TypeOK'
  BY <1>2, <1>5, <1>6 DEF UdpInv, TypeOK, Ids
<1>8. \A g \in Ids : FlowInv(flow'[g], g, queue')
  BY <1>2, <1>3, <1>5 DEF UdpInv
<1>9. ASSUME NEW j \in Keys, udpFlows'[j] # 0
      PROVE  /\ udpFlows'[j] <= created'
             /\ flow'[udpFlows'[j]].key = j
             /\ ~flow'[udpFlows'[j]].closed
             /\ flow'[udpFlows'[j]].proxyConnecting \/ flow'[udpFlows'[j]].held
  <2>1. CASE j = k
    <3>1. udpFlows'[j] = f /\ ~r.closed
      BY <1>4, <1>6, <1>9, <2>1
    <3> QED
      BY <1>2, <1>3, <1>5, <2>1, <3>1
  <2>2. CASE j # k
    <3>1. udpFlows'[j] = udpFlows[j] /\ EntryInv(j) /\ udpFlows[j] \in 0..MaxFlows
      BY <1>4, <1>6, <2>2
    <3>2. udpFlows[j] <= created
      BY <1>9, <3>1 DEF EntryInv
    <3>3. udpFlows[j] \in Ids \ {f}
      BY <1>2, <1>9, <3>1, <3>2, LimitAssumption DEF Ids
    <3>4. flow'[udpFlows[j]] = flow[udpFlows[j]]
      BY <1>5, <3>3
    <3>5. udpFlows[j] <= created'
      BY <1>2, <3>1, <3>2
    <3> QED
      BY <1>9, <3>1, <3>4, <3>5 DEF EntryInv
  <2> QED
    BY <2>1, <2>2
<1>10. \A j \in Keys : EntryInv(j)'
  BY <1>9 DEF EntryInv
<1> QED
  BY <1>7, <1>8, <1>10 DEF UdpInv

(* The outcome of a dial is queued when the dial ends. *)
LEMMA DialInv == ASSUME UdpInv, DialSucceeds \/ DialFails  PROVE UdpInv'
<1>1. PICK f \in Ids, kind \in {"connected", "connectFailed"} :
        /\ flow' = [flow EXCEPT ![f] = [flow[f] EXCEPT !.dialing = FALSE,
                      !.open = IF kind = "connected" THEN TRUE ELSE flow[f].open,
                      !.stray = flow[f].stray /\ (kind = "connected" => flow[f].path = "direct")]]
        /\ queue' = Append(queue, Task(kind, f))
        /\ UNCHANGED <<udpFlows, created>>
  <2>1. CASE DialSucceeds
    BY <2>1 DEF DialSucceeds, UdpInv, TypeOK, FlowRecord
  <2>2. CASE DialFails
    <3>1. PICK f \in Ids : /\ flow' = [flow EXCEPT ![f].dialing = FALSE]
                           /\ queue' = Append(queue, Task("connectFailed", f))
                           /\ UNCHANGED <<udpFlows, created>>
      BY <2>2 DEF DialFails
    <3>2. flow[f] \in FlowRecord
      BY DEF UdpInv, TypeOK
    <3>3. [flow[f] EXCEPT !.dialing = FALSE]
            = [flow[f] EXCEPT !.dialing = FALSE, !.open = flow[f].open, !.stray = flow[f].stray]
      BY <3>2 DEF FlowRecord
    <3>4. flow[f].stray = (flow[f].stray /\ ("connectFailed" = "connected" => flow[f].path = "direct"))
      BY <3>2 DEF FlowRecord
    <3> QED
      BY <3>1, <3>3, <3>4
  <2> QED
    BY <2>1, <2>2
<1> DEFINE r == flow[f]
           s == [r EXCEPT !.dialing = FALSE,
                          !.open = IF kind = "connected" THEN TRUE ELSE r.open,
                          !.stray = r.stray /\ (kind = "connected" => r.path = "direct")]
<1>2. /\ r \in FlowRecord /\ FlowInv(r, f, queue) /\ queue \in Seq(TaskRecord)
      /\ udpFlows \in [Keys -> 0..MaxFlows] /\ \A k \in Keys : EntryInv(k)
  BY DEF UdpInv, TypeOK
<1>3. Task(kind, f) \in TaskRecord
  BY DEF Task, TaskRecord
<1>4. /\ queue' \in Seq(TaskRecord) /\ Has(queue', Task(kind, f))
      /\ \A g \in Ids : KeepsOutcome(g, queue, queue')
  BY <1>1, <1>2, <1>3, HasAppend DEF KeepsOutcome
<1>5. /\ s \in FlowRecord /\ s.key = r.key /\ s.closed = r.closed /\ s.held = r.held
      /\ s.proxyConnecting = r.proxyConnecting /\ s.pendingData = r.pendingData
      /\ s.open => r.open \/ kind = "connected"
  BY <1>2 DEF FlowRecord
<1>6. FlowInv(s, f, queue')
  <2> HIDE DEF s, r
  <2> QED  BY <1>2, <1>4, <1>5 DEF FlowInv, KeepsOutcome
<1>7. ASSUME NEW k \in Keys
      PROVE  \/ udpFlows'[k] = 0
             \/ /\ udpFlows'[k] = udpFlows[k]
                /\ udpFlows[k] = f => ~s.closed /\ (s.proxyConnecting \/ s.held)
  <2>1. udpFlows'[k] = udpFlows[k] /\ EntryInv(k)
    BY <1>1, <1>2
  <2> HIDE DEF s
  <2> QED
    BY <1>5, <2>1 DEF EntryInv
<1>8. flow' = [flow EXCEPT ![f] = s] /\ udpFlows' = udpFlows /\ created' = created
  BY <1>1
<1> HIDE DEF s
<1> QED
  BY <1>2, <1>4, <1>5, <1>6, <1>7, <1>8, FlowStep

(* A session or a receive loop that ends, and an end that only a dial      *)
(* knows of, change no flag of the flow that matters here, and queue at    *)
(* most a notice.                                                          *)
LEMMA EndOfSessionInv ==
  ASSUME UdpInv,
         DialOpens \/ CutDialOpens \/ MuxSessionEnds \/ ShadowsocksSessionFails \/ ReceiverEnds
  PROVE  UdpInv'
<1>1. PICK f \in Ids, s \in FlowRecord :
        /\ flow' = [flow EXCEPT ![f] = s]
        /\ s.key = flow[f].key /\ s.closed = flow[f].closed /\ s.held = flow[f].held
        /\ s.proxyConnecting = flow[f].proxyConnecting /\ s.dialing = flow[f].dialing
        /\ s.open = flow[f].open /\ s.pendingData = flow[f].pendingData
        /\ queue' = Append(queue, Task("ended", f)) \/ queue' = queue
        /\ udpFlows' = udpFlows /\ created' = created
  <2>1. CASE MuxSessionEnds
    <3>1. PICK f \in Ids : /\ flow' = [flow EXCEPT ![f].gone = TRUE]
                           /\ queue' = Append(queue, Task("ended", f)) \/ queue' = queue
                           /\ udpFlows' = udpFlows /\ created' = created
      BY <2>1 DEF MuxSessionEnds
    <3>2. [flow[f] EXCEPT !.gone = TRUE] \in FlowRecord /\ flow[f] \in FlowRecord
      BY DEF UdpInv, TypeOK, FlowRecord
    <3>3. flow' = [flow EXCEPT ![f] = [flow[f] EXCEPT !.gone = TRUE]]
      BY <3>1
    <3> QED
      BY <3>1, <3>2, <3>3 DEF FlowRecord
  <2>2. CASE ShadowsocksSessionFails
    <3>1. PICK f \in Ids : /\ queue' = Append(queue, Task("ended", f))
                           /\ flow' = flow /\ udpFlows' = udpFlows /\ created' = created
      BY <2>2 DEF ShadowsocksSessionFails
    <3>2. flow' = [flow EXCEPT ![f] = flow[f]] /\ flow[f] \in FlowRecord
      BY <3>1 DEF UdpInv, TypeOK
    <3> QED
      BY <3>1, <3>2
  <2>3. CASE ReceiverEnds
    <3>1. PICK f \in Ids : /\ flow' = [flow EXCEPT ![f].receiver = "none"]
                           /\ queue' = Append(queue, Task("ended", f))
                           /\ udpFlows' = udpFlows /\ created' = created
      BY <2>3 DEF ReceiverEnds
    <3>2. [flow[f] EXCEPT !.receiver = "none"] \in FlowRecord /\ flow[f] \in FlowRecord
      BY DEF UdpInv, TypeOK, FlowRecord
    <3>3. flow' = [flow EXCEPT ![f] = [flow[f] EXCEPT !.receiver = "none"]]
      BY <3>1
    <3> QED
      BY <3>1, <3>2, <3>3 DEF FlowRecord
  <2>4. CASE DialOpens \/ CutDialOpens
    <3>1. PICK f \in Ids, c \in BOOLEAN :
            /\ flow' = [flow EXCEPT ![f] = [flow[f] EXCEPT !.cut = c, !.stray = TRUE]]
            /\ queue' = queue /\ udpFlows' = udpFlows /\ created' = created
      <4>1. CASE DialOpens
        <5>1. PICK f \in Ids : flow' = [flow EXCEPT ![f].stray = TRUE] /\ UNCHANGED <<udpFlows, created, queue>>
          BY <4>1 DEF DialOpens
        <5>2. flow[f] \in FlowRecord
          BY DEF UdpInv, TypeOK
        <5>3. /\ [flow[f] EXCEPT !.stray = TRUE] = [flow[f] EXCEPT !.cut = flow[f].cut, !.stray = TRUE]
              /\ flow[f].cut \in BOOLEAN
          BY <5>2 DEF FlowRecord
        <5> QED
          BY <5>1, <5>3
      <4>2. CASE CutDialOpens
        <5>1. PICK f \in Ids : /\ flow' = [flow EXCEPT ![f].cut = FALSE, ![f].stray = TRUE]
                               /\ UNCHANGED <<udpFlows, created, queue>>
          BY <4>2 DEF CutDialOpens
        <5>2. flow \in [Ids -> FlowRecord] /\ flow[f] \in FlowRecord
          BY DEF UdpInv, TypeOK
        <5>3. flow' = [flow EXCEPT ![f] = [flow[f] EXCEPT !.cut = FALSE, !.stray = TRUE]]
          BY <5>1, <5>2 DEF FlowRecord
        <5> QED
          BY <5>1, <5>3
      <4> QED
        BY <2>4, <4>1, <4>2
    <3>2. flow[f] \in FlowRecord
      BY DEF UdpInv, TypeOK
    <3>3. [flow[f] EXCEPT !.cut = c, !.stray = TRUE] \in FlowRecord
      BY <3>2 DEF FlowRecord
    <3> QED
      BY <3>1, <3>2, <3>3 DEF FlowRecord
  <2> QED
    BY <2>1, <2>2, <2>3, <2>4
<1>2. /\ FlowInv(flow[f], f, queue) /\ queue \in Seq(TaskRecord)
      /\ udpFlows \in [Keys -> 0..MaxFlows] /\ \A k \in Keys : EntryInv(k)
  BY DEF UdpInv, TypeOK
<1>3. queue' \in Seq(TaskRecord) /\ \A g \in Ids : KeepsOutcome(g, queue, queue')
  <2>1. Task("ended", f) \in TaskRecord
    BY DEF Task, TaskRecord
  <2>2. CASE queue' = queue
    BY <1>2, <2>2 DEF KeepsOutcome
  <2>3. CASE queue' = Append(queue, Task("ended", f))
    BY <1>2, <2>1, <2>3, HasAppend DEF KeepsOutcome
  <2> QED
    BY <1>1, <2>2, <2>3
<1>4. FlowInv(s, f, queue')
  BY <1>1, <1>2, <1>3 DEF FlowInv, KeepsOutcome
<1>5. ASSUME NEW k \in Keys
      PROVE  udpFlows[k] = f => ~s.closed /\ (s.proxyConnecting \/ s.held)
  <2>1. EntryInv(k) /\ f # 0
    BY <1>2 DEF Ids
  <2> QED
    BY <1>1, <2>1 DEF EntryInv
<1> QED
  BY <1>1, <1>2, <1>3, <1>4, <1>5, FlowStep

(* Taking the first task keeps every other task queued. *)
LEMMA TakeTask ==
  ASSUME UdpInv, queue # <<>>
  PROVE  /\ Subject \in Ids
         /\ Head(queue) = Task(Head(queue).task, Subject)
         /\ Tail(queue) \in Seq(TaskRecord)
         /\ \A t : Has(queue, t) /\ t # Head(queue) => Has(Tail(queue), t)
<1>1. queue \in Seq(TaskRecord)
  BY DEF UdpInv, TypeOK
<1>2. Head(queue) \in TaskRecord /\ Tail(queue) \in Seq(TaskRecord)
  BY <1>1, HeadTailProperties
<1>3. Subject \in Ids /\ Head(queue) = Task(Head(queue).task, Subject)
  BY <1>2 DEF Subject, Task, TaskRecord
<1> QED
  BY <1>1, <1>2, <1>3, HasTail

(* Tasks of different flows differ. *)
LEMMA TaskOf ==
  ASSUME NEW a, NEW b, NEW f, NEW g, Task(a, f) = Task(b, g)
  PROVE  a = b /\ f = g
<1>1. Task(a, f).task = Task(b, g).task /\ Task(a, f).id = Task(b, g).id
  OBVIOUS
<1> QED
  BY <1>1 DEF Task

(* Emptying one entry of the table. *)
LEMMA EmptyEntry ==
  ASSUME udpFlows \in [Keys -> 0..MaxFlows], NEW k
  PROVE  [udpFlows EXCEPT ![k] = 0] \in [Keys -> 0..MaxFlows]
<1>1. 0 \in 0..MaxFlows
  BY LimitAssumption
<1> QED
  BY <1>1

(* The task of a completed dial: the flow takes the connection, or ends it *)
(* when the flow was closed or the session is gone.                        *)
LEMMA TaskConnectedInv == ASSUME UdpInv, TaskConnected  PROVE UdpInv'
<1> DEFINE f == Subject
           r == flow[f]
           s == IF r.closed THEN ConnectedTooLate(r)
                ELSE IF r.gone THEN ConnectedGone(r) ELSE Connected(r)
<1>1. /\ queue # <<>> /\ Head(queue).task = "connected" /\ queue' = Tail(queue)
      /\ flow' = [flow EXCEPT ![f] = s] /\ created' = created
      /\ udpFlows' = IF ~r.closed /\ r.gone THEN [udpFlows EXCEPT ![r.key] = 0] ELSE udpFlows
  BY DEF TaskConnected, Take
<1>2. /\ f \in Ids /\ queue' \in Seq(TaskRecord)
      /\ Head(queue) = Task("connected", f)
      /\ \A t : Has(queue, t) /\ t # Task("connected", f) => Has(queue', t)
  BY <1>1, TakeTask
<1>3. /\ r \in FlowRecord /\ FlowInv(r, f, queue)
      /\ udpFlows \in [Keys -> 0..MaxFlows] /\ \A k \in Keys : EntryInv(k)
  BY <1>2 DEF UdpInv, TypeOK
<1>4. \A g \in Ids \ {f} : KeepsOutcome(g, queue, queue')
  BY <1>2, TaskOf DEF KeepsOutcome
<1>5. /\ s \in FlowRecord /\ s.key = r.key /\ s.closed = r.closed
      /\ ~s.closed /\ ~r.gone => s.held
      /\ FlowInv(s, f, queue')
  <2>1. CASE r.closed
    <3> DEFINE c == [r EXCEPT !.proxyConnecting = FALSE, !.open = FALSE]
    <3>1. s = c
      BY <2>1 DEF ConnectedTooLate
    <3>2. /\ c \in FlowRecord /\ c.key = r.key /\ c.closed = r.closed /\ c.held = r.held
          /\ c.open = FALSE
      BY <1>3 DEF FlowRecord
    <3>3. FlowInv(c, f, queue')
      <4> HIDE DEF c, r
      <4> QED  BY <1>3, <2>1, <3>2 DEF FlowInv
    <3> QED
      BY <2>1, <3>1, <3>2, <3>3
  <2>2. CASE ~r.closed /\ r.gone
    <3> DEFINE e == releaseProtocol(r)
               c == [e EXCEPT !.open = FALSE]
    <3>1. s = c
      BY <2>2 DEF ConnectedGone
    <3>2. e \in FlowRecord /\ e.closed = r.closed /\ e.key = r.key
      BY <1>3, ReleaseProtocolInv
    <3>3. e.held = FALSE /\ e.proxyConnecting = FALSE /\ e.pendingData = 0
      BY <1>3 DEF releaseProtocol, FlowRecord
    <3> HIDE DEF e
    <3>4. /\ c \in FlowRecord /\ c.key = r.key /\ c.closed = r.closed /\ c.held = FALSE
          /\ c.open = FALSE /\ c.proxyConnecting = FALSE /\ c.pendingData = 0
      BY <3>2, <3>3 DEF FlowRecord
    <3>5. FlowInv(c, f, queue')
      <4> HIDE DEF c, r
      <4> QED  BY <3>4 DEF FlowInv
    <3> QED
      BY <2>2, <3>1, <3>4, <3>5
  <2>3. CASE ~r.closed /\ ~r.gone
    <3> DEFINE c == Connected(r)
    <3>1. s = c
      BY <2>3
    <3>2. /\ c.key = r.key /\ c.closed = r.closed /\ c.held = TRUE
          /\ c.proxyConnecting = FALSE /\ c.pendingData = 0
      BY <1>3 DEF FlowRecord, Connected
    <3>3. c \in FlowRecord
      <4>1. 0 \in 0..udpMaxBufferSize
        BY LimitAssumption
      <4>2. (IF r.path = "proxy" THEN "live" ELSE r.receiver) \in {"none", "live", "cancelled"}
        BY <1>3 DEF FlowRecord
      <4> QED
        BY <1>3, <4>1, <4>2 DEF FlowRecord, Connected
    <3>4. FlowInv(c, f, queue')
      <4> HIDE DEF c, r
      <4> QED  BY <2>3, <3>2 DEF FlowInv
    <3> QED
      BY <2>3, <3>1, <3>2, <3>3, <3>4
  <2> QED
    BY <2>1, <2>2, <2>3
<1>6. udpFlows' \in [Keys -> 0..MaxFlows]
  BY <1>1, <1>3, EmptyEntry
<1>7. ASSUME NEW k \in Keys
      PROVE  \/ udpFlows'[k] = 0
             \/ /\ udpFlows'[k] = udpFlows[k]
                /\ udpFlows[k] = f => ~s.closed /\ (s.proxyConnecting \/ s.held)
  <2> HIDE DEF s
  <2>1. EntryInv(k) /\ f # 0
    BY <1>2, <1>3 DEF Ids
  <2>2. CASE ~r.closed /\ r.gone /\ r.key = k
    BY <1>1, <1>3, <2>2
  <2>3. CASE ~r.closed /\ r.gone /\ r.key # k
    BY <1>1, <1>3, <2>1, <2>3 DEF EntryInv
  <2>4. CASE ~(~r.closed /\ r.gone)
    BY <1>1, <1>5, <2>1, <2>4 DEF EntryInv
  <2> QED
    BY <2>2, <2>3, <2>4
<1> HIDE DEF s, f
<1> QED
  BY <1>1, <1>2, <1>3, <1>4, <1>5, <1>6, <1>7, FlowStep

(* The task of a failed dial: the flow is released or closed and unlisted. *)
LEMMA TaskConnectFailedInv == ASSUME UdpInv, TaskConnectFailed  PROVE UdpInv'
<1> DEFINE f == Subject
           r == flow[f]
<1>1. /\ queue # <<>> /\ Head(queue).task = "connectFailed" /\ queue' = Tail(queue)
      /\ created' = created
  BY DEF TaskConnectFailed, Take
<1>2. /\ f \in Ids /\ queue' \in Seq(TaskRecord)
      /\ Head(queue) = Task("connectFailed", f)
      /\ \A t : Has(queue, t) /\ t # Task("connectFailed", f) => Has(queue', t)
  BY <1>1, TakeTask
<1>3. /\ r \in FlowRecord /\ FlowInv(r, f, queue)
      /\ udpFlows \in [Keys -> 0..MaxFlows] /\ \A k \in Keys : EntryInv(k)
  BY <1>2 DEF UdpInv, TypeOK
<1>4. \A g \in Ids \ {f} : KeepsOutcome(g, queue, queue')
  BY <1>2, TaskOf DEF KeepsOutcome
<1>5. Has(queue, Task("connected", f)) => Has(queue', Task("connected", f))
  <2>1. Task("connected", f) # Task("connectFailed", f)
    BY TaskOf
  <2> QED
    BY <1>2, <2>1
<1>6. CASE r.closed
  <2> DEFINE c == [r EXCEPT !.proxyConnecting = FALSE]
  <2>1. flow' = [flow EXCEPT ![f] = c] /\ udpFlows' = udpFlows
    BY <1>6 DEF TaskConnectFailed
  <2>2. /\ c \in FlowRecord /\ c.key = r.key /\ c.closed = r.closed /\ c.held = r.held
        /\ c.open = r.open
    BY <1>3 DEF FlowRecord
  <2>3. FlowInv(c, f, queue')
    <3> HIDE DEF c, r
    <3> QED  BY <1>3, <1>5, <1>6, <2>2 DEF FlowInv
  <2>4. \A k \in Keys : udpFlows[k] # f
    BY <1>2, <1>3, <1>6 DEF EntryInv, Ids
  <2> HIDE DEF c, f
  <2> QED
    BY <1>1, <1>2, <1>3, <1>4, <2>1, <2>2, <2>3, <2>4, FlowStep
<1>7. CASE ~r.closed
  <2> DEFINE e == releaseProtocol(r)
             c == IF r.path = "direct" THEN close(r) ELSE releaseProtocol(r)
  <2>1. flow' = [flow EXCEPT ![f] = c] /\ udpFlows' = [udpFlows EXCEPT ![r.key] = 0]
    BY <1>7 DEF TaskConnectFailed
  <2>2. /\ e \in FlowRecord /\ e.key = r.key /\ e.closed = r.closed
        /\ e.held = FALSE /\ e.proxyConnecting = FALSE /\ e.pendingData = 0
        /\ e.open = (IF r.held THEN FALSE ELSE r.open)
    <3>1. e \in FlowRecord /\ e.key = r.key /\ e.closed = r.closed
      BY <1>3, ReleaseProtocolInv
    <3>2. /\ e.held = FALSE /\ e.proxyConnecting = FALSE /\ e.pendingData = 0
          /\ e.open = (IF r.held THEN FALSE ELSE r.open)
      BY <1>3 DEF releaseProtocol, FlowRecord
    <3> QED
      BY <3>1, <3>2
  <2>3. FlowInv(e, f, queue')
    <3> HIDE DEF e, r
    <3> QED  BY <1>3, <1>5, <2>2 DEF FlowInv
  <2>4. c \in FlowRecord /\ c.key = r.key /\ FlowInv(c, f, queue')
    <3>1. CASE r.path = "direct"
      <4> DEFINE d == [e EXCEPT !.closed = TRUE]
      <4>1. c = d
        BY <1>7, <3>1 DEF close
      <4> HIDE DEF e
      <4>2. /\ d \in FlowRecord /\ d.key = r.key /\ d.closed = TRUE /\ d.held = e.held
            /\ d.open = e.open
        BY <2>2 DEF FlowRecord
      <4>3. FlowInv(d, f, queue')
        <5> HIDE DEF d, r
        <5> QED  BY <2>2, <2>3, <4>2 DEF FlowInv
      <4> QED
        BY <4>1, <4>2, <4>3
    <3>2. CASE r.path # "direct"
      BY <2>2, <2>3, <3>2
    <3> QED
      BY <3>1, <3>2
  <2>5. udpFlows' \in [Keys -> 0..MaxFlows]
    BY <1>3, <2>1, EmptyEntry
  <2>6. ASSUME NEW k \in Keys
        PROVE  udpFlows'[k] = 0 \/ (udpFlows'[k] = udpFlows[k] /\ udpFlows[k] # f)
    <3>1. EntryInv(k) /\ f # 0
      BY <1>2, <1>3 DEF Ids
    <3> QED
      BY <1>3, <2>1, <3>1 DEF EntryInv
  <2> HIDE DEF c, f
  <2> QED
    BY <1>1, <1>2, <1>3, <1>4, <2>1, <2>4, <2>5, <2>6, FlowStep
<1> QED
  BY <1>6, <1>7

(* The task of an ended session or receive loop. *)
LEMMA TaskEndedInv == ASSUME UdpInv, TaskEnded  PROVE UdpInv'
<1> DEFINE f == Subject
           r == flow[f]
           s == IF r.path = "shadowsocks" /\ r.closed THEN r ELSE close(r)
<1>1. /\ queue # <<>> /\ Head(queue).task = "ended" /\ created' = created
      /\ queue' = Tail(queue) \o CloseHandlers({f})
  BY DEF TaskEnded, Take
<1>2. /\ f \in Ids /\ Tail(queue) \in Seq(TaskRecord)
      /\ \A t : Has(queue, t) /\ t # Task("ended", f) => Has(Tail(queue), t)
  BY <1>1, TakeTask
<1>3. CloseHandlers({f}) \in Seq(TaskRecord)
  BY <1>2, CloseHandlersType
<1>4. queue' \in Seq(TaskRecord)
  BY <1>1, <1>2, <1>3, ConcatProperties
<1>5. ASSUME NEW g \in Ids  PROVE KeepsOutcome(g, queue, queue')
  <2>1. Task("connected", g) # Task("ended", f) /\ Task("connectFailed", g) # Task("ended", f)
    BY TaskOf
  <2> HIDE DEF f
  <2> QED
    BY <1>1, <1>2, <1>3, <2>1, HasConcat DEF KeepsOutcome
<1>6. /\ r \in FlowRecord /\ FlowInv(r, f, queue)
      /\ udpFlows \in [Keys -> 0..MaxFlows] /\ \A k \in Keys : EntryInv(k)
      /\ flow \in [Ids -> FlowRecord]
  BY <1>2 DEF UdpInv, TypeOK
<1>7. /\ flow' = [flow EXCEPT ![f] = s]
      /\ udpFlows' = IF r.path = "shadowsocks" /\ r.closed THEN udpFlows
                     ELSE [udpFlows EXCEPT ![r.key] = 0]
  <2>1. CASE r.path = "shadowsocks" /\ r.closed
    BY <1>2, <1>6, <2>1 DEF TaskEnded
  <2>2. CASE ~(r.path = "shadowsocks" /\ r.closed)
    <3>1. /\ flow' = [g \in Ids |-> IF g \in {f} THEN close(flow[g]) ELSE flow[g]]
          /\ udpFlows' = [udpFlows EXCEPT ![r.key] = 0]
      BY <2>2 DEF TaskEnded, CloseFlows
    <3>2. flow' = [flow EXCEPT ![f] = close(r)]
      BY <1>2, <1>6, <3>1
    <3> QED
      BY <2>2, <3>1, <3>2
  <2> QED
    BY <2>1, <2>2
<1>8. /\ s \in FlowRecord /\ s.key = r.key /\ s.closed /\ FlowInv(s, f, queue)
  BY <1>6, CloseInv
<1>9. FlowInv(s, f, queue')
  <2> HIDE DEF s, f
  <2> QED  BY <1>2, <1>5, <1>8, FlowInvQueue DEF KeepsOutcome
<1>10. udpFlows' \in [Keys -> 0..MaxFlows]
  BY <1>6, <1>7, EmptyEntry
<1>11. ASSUME NEW k \in Keys
       PROVE  udpFlows'[k] = 0 \/ (udpFlows'[k] = udpFlows[k] /\ udpFlows[k] # f)
  <2>1. EntryInv(k) /\ f # 0
    BY <1>2, <1>6 DEF Ids
  <2> HIDE DEF s
  <2> QED
    BY <1>6, <1>7, <2>1 DEF EntryInv
<1> HIDE DEF s, f
<1> QED
  BY <1>1, <1>2, <1>4, <1>5, <1>6, <1>7, <1>8, <1>9, <1>10, <1>11, FlowStep

(* The cleanup timer and the teardown close listed flows. *)
LEMMA TableCloseInv == ASSUME UdpInv, udpCleanup \/ TearDown  PROVE UdpInv'
<1>1. Listed \subseteq Ids
  BY LimitAssumption DEF UdpInv, TypeOK, Listed, Ids
<1>2. CASE udpCleanup
  BY <1>1, <1>2, CloseStep DEF udpCleanup
<1>3. CASE TearDown
  <2>1. Forget(Listed)
    BY <1>3 DEF TearDown, Forget, Listed, UdpInv, TypeOK
  <2> QED
    BY <1>1, <1>3, <2>1, CloseStep DEF TearDown
<1> QED
  BY <1>2, <1>3

-----------------------------------------------------------------------------
(* The theorems. *)

(* No flow exists at first. *)
LEMMA UdpInvInit == Init => UdpInv
<1> SUFFICES ASSUME Init PROVE UdpInv
  OBVIOUS
<1> DEFINE n == NewFlow(CHOOSE k \in Keys : TRUE, "direct")
<1>1. (CHOOSE k \in Keys : TRUE) \in Keys
  BY KeyAssumption
<1>2. n \in FlowRecord
  BY <1>1, LimitAssumption DEF NewFlow, FlowRecord, AllPaths
<1>3. \A f \in Ids : flow[f] = n
  BY DEF Init
<1>4. TypeOK
  BY <1>2, LimitAssumption DEF Init, TypeOK
<1>5. /\ n.closed = FALSE /\ n.open = FALSE /\ n.proxyConnecting = FALSE /\ n.pendingData = 0
      /\ n.held = FALSE
  BY DEF NewFlow
<1>6. \A f \in Ids : FlowInv(n, f, queue)
  <2> HIDE DEF n
  <2> QED  BY <1>5 DEF FlowInv
<1>7. \A k \in Keys : EntryInv(k)
  BY DEF Init, EntryInv
<1> QED
  BY <1>3, <1>4, <1>6, <1>7 DEF UdpInv

(* Every step of a flow, of the network and of the executor keeps UdpInv. *)
LEMMA UdpInvStep == UdpInv /\ [Next]_vars => UdpInv'
<1> SUFFICES ASSUME UdpInv, [Next]_vars PROVE UdpInv'
  OBVIOUS
<1>1. CASE onUdpRecv
  BY <1>1, DatagramToFlowInv, DatagramNewFlowInv DEF onUdpRecv
<1>2. CASE Network
  BY <1>2, DialInv, EndOfSessionInv DEF Network
<1>3. CASE RunTask
  BY <1>3, TaskConnectedInv, TaskConnectFailedInv, TaskEndedInv DEF RunTask
<1>4. CASE udpCleanup \/ TearDown
  BY <1>4, TableCloseInv
<1>5. CASE UNCHANGED vars
  BY <1>5 DEF vars, UdpInv, TypeOK, EntryInv, FlowInv, Has
<1> QED
  BY <1>1, <1>2, <1>3, <1>4, <1>5 DEF Next

(* The inductive invariant holds in every state. *)
THEOREM UdpInvariant == Spec => []UdpInv
  BY UdpInvInit, UdpInvStep, PTL DEF Spec

(* Records, table and queue are well typed for every set of keys and every *)
(* limit; in particular a buffer never exceeds udpMaxBufferSize.           *)
THEOREM UdpTypeCorrect == Spec => []TypeOK
<1>1. UdpInv => TypeOK
  BY DEF UdpInv
<1> QED
  BY <1>1, UdpInvariant, PTL

(* A flow that closes itself, is closed by a task, by the cleanup timer or *)
(* by a teardown is out of the table when the step is over.                *)
THEOREM ClosedFlowsUnlisted == Spec => []NoClosedFlowListed
<1>1. UdpInv => NoClosedFlowListed
  BY DEF UdpInv, NoClosedFlowListed, Listed, EntryInv
<1> QED
  BY <1>1, UdpInvariant, PTL

(* A datagram buffered by an open flow always has the outcome of a dial to *)
(* wait for.                                                               *)
THEOREM BufferedDatagramsLeave == Spec => []BufferedHasOutcome
<1>1. UdpInv => BufferedHasOutcome
  BY DEF UdpInv, BufferedHasOutcome, FlowInv, Has, Queued
<1> QED
  BY <1>1, UdpInvariant, PTL

(* A closed flow keeps no end that its dial came back with, unless the     *)
(* task that will end it is queued.                                        *)
THEOREM ReturnedEndsAreClosed == Spec => []NoOrphanOutbound
<1>1. UdpInv => NoOrphanOutbound
  BY DEF UdpInv, NoOrphanOutbound, FlowInv, Has, Queued
<1> QED
  BY <1>1, UdpInvariant, PTL

(* No step but a new flow adds a flow to the table, and a new flow finds   *)
(* room in it.                                                             *)
LEMMA TableBoundedStep == UdpInv /\ TableBounded /\ [Next]_vars => TableBounded'
<1> SUFFICES ASSUME UdpInv, TableBounded, [Next]_vars PROVE TableBounded'
  OBVIOUS
<1>1. /\ udpFlows \in [Keys -> 0..MaxFlows] /\ created \in 0..MaxFlows
      /\ MAX_UDP_FLOWS \in Nat
  BY LimitAssumption DEF UdpInv, TypeOK
<1>2. IsFiniteSet(Listed) /\ Cardinality(Listed) \in Nat
  <2>1. Listed \subseteq 1..MaxFlows
    BY <1>1, LimitAssumption DEF Listed
  <2>2. IsFiniteSet(1..MaxFlows)
    BY FS_Interval, LimitAssumption
  <2> QED
    BY <2>1, <2>2, FS_Subset, FS_CardinalityType
<1>3. ASSUME \A k \in Keys : udpFlows'[k] \in {0, udpFlows[k]}  PROVE TableBounded'
  <2>1. Listed' \subseteq Listed
    BY <1>3 DEF Listed
  <2>2. Cardinality(Listed') <= Cardinality(Listed) /\ Cardinality(Listed') \in Nat
    BY <1>2, <2>1, FS_Subset, FS_CardinalityType
  <2> QED
    BY <1>1, <1>2, <2>2 DEF TableBounded
<1>4. CASE DatagramNewFlow
  <2>1. PICK k \in Keys : \E x \in {0, created'} : udpFlows' = [udpFlows EXCEPT ![k] = x]
    BY <1>4 DEF DatagramNewFlow
  <2>2. Listed' \subseteq Listed \cup {created'}
    <3>1. \A j \in Keys : udpFlows'[j] \in {udpFlows[j], 0, created'}
      BY <1>1, <2>1
    <3> QED
      BY <3>1 DEF Listed
  <2>3. /\ IsFiniteSet(Listed \cup {created'})
        /\ Cardinality(Listed \cup {created'}) <= Cardinality(Listed) + 1
        /\ Cardinality(Listed \cup {created'}) \in Nat
    <3> DEFINE c == created'
    <3> HIDE DEF c
    <3>1. /\ IsFiniteSet(Listed \cup {c})
          /\ Cardinality(Listed \cup {c}) =
               IF c \in Listed THEN Cardinality(Listed) ELSE Cardinality(Listed) + 1
      BY <1>2, FS_AddElement
    <3> QED
      BY <1>2, <3>1 DEF c
  <2>4. /\ Cardinality(Listed') <= Cardinality(Listed \cup {created'})
        /\ Cardinality(Listed') \in Nat
    BY <2>2, <2>3, FS_Subset, FS_CardinalityType
  <2>5. Cardinality(Listed) < MAX_UDP_FLOWS
    BY <1>4 DEF DatagramNewFlow, TableHasRoom
  <2> QED
    BY <1>1, <1>2, <2>3, <2>4, <2>5 DEF TableBounded
<1>5. CASE ~DatagramNewFlow
  <2>1. CASE DatagramToFlow
    BY <1>3, <2>1 DEF DatagramToFlow
  <2>2. CASE Network
    BY <1>3, <2>2 DEF Network, DialOpens, CutDialOpens, DialSucceeds, DialFails, MuxSessionEnds,
                      ShadowsocksSessionFails, ReceiverEnds
  <2>3. CASE RunTask
    <3>1. udpFlows' = udpFlows \/ \E k : udpFlows' = [udpFlows EXCEPT ![k] = 0]
      BY <2>3 DEF RunTask, TaskConnected, TaskConnectFailed, TaskEnded
    <3> QED
      BY <1>1, <1>3, <3>1
  <2>4. CASE udpCleanup \/ TearDown
    BY <1>3, <2>4 DEF udpCleanup, TearDown, Forget
  <2>5. CASE UNCHANGED vars
    BY <1>3, <2>5 DEF vars
  <2> QED
    BY <1>5, <2>1, <2>2, <2>3, <2>4, <2>5 DEF Next, onUdpRecv
<1> QED
  BY <1>4, <1>5

(* The table never holds more than MAX_UDP_FLOWS flows. *)
THEOREM TableStaysBounded == Spec => []TableBounded
<1>1. Init => TableBounded
  <2> SUFFICES ASSUME Init PROVE TableBounded
    OBVIOUS
  <2>1. Listed = {}
    BY DEF Init, Listed
  <2> QED
    BY <2>1, FS_EmptySet, LimitAssumption DEF TableBounded
<1> QED
  BY <1>1, TableBoundedStep, UdpInvariant, PTL DEF Spec
=============================================================================
