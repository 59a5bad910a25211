------------------------ MODULE TcpConnectionProofs ------------------------
EXTENDS TcpConnection, TLAPS, SequenceTheorems, WellFoundedInduction

-----------------------------------------------------------------------------
(* The inductive invariant, layer by layer. *)

(* The coroutines and timers of a closed connection are gone, so that      *)
(* nothing but posted tasks and drain retries still runs, and no native    *)
(* call was made after the close.                                          *)
PcbInv ==
  /\ misuse = FALSE
  /\ closed = TRUE =>
       /\ handshakeTimer = FALSE /\ sniffDeadline = FALSE /\ sniffing = FALSE
       /\ connecting = None /\ activityTimer = None
       /\ dial.kind = None /\ sends = <<>> /\ receives = 0

\* A coroutine ends with its last chunk.
SendsInv == \A i \in DOMAIN sends : sends[i].chunks # <<>>

(* What the executor's queue can hold while the connection is established: *)
(* nothing during the sniff and the dial, then the outcome of the dial.    *)
Dialing == dial.kind = connecting /\ queue = <<>> /\ remoteOpen = FALSE
DialFailed ==
  /\ dial = NoDial /\ remoteOpen = FALSE
  /\ Len(queue) = 1 /\ queue[1].task = "connectFailed"
DialDone ==
  /\ dial = NoDial
  /\ Len(queue) = 1 /\ queue[1].task = "connected" /\ queue[1].kind = connecting

\* Nothing of the connected phase has begun.
Untouched ==
  /\ sends = <<>> /\ receives = 0 /\ drainRetries = 0 /\ recved = 0
  /\ coalesceBuffer = <<>> /\ coalesceScheduled = FALSE /\ coalesceFlushInFlight = FALSE
  /\ pendingWrite = <<>> /\ receiveInFlight = FALSE
  /\ sndUsed = 0 /\ toLwip = <<>> /\ remoteSent = 0

SniffPhase ==
  /\ sniffing = TRUE /\ connecting = None /\ connection = None /\ dial = NoDial
  /\ queue = <<>> /\ remoteOpen = FALSE /\ activityTimer = None
  /\ Untouched
DialPhase ==
  /\ sniffing = FALSE
  /\ connecting = IF bypass = TRUE THEN "direct" ELSE "proxy"
  /\ connection = IF bypass = TRUE THEN "direct" ELSE None
  /\ Dialing \/ DialFailed \/ DialDone
  /\ activityTimer = None
  /\ Untouched
OpenPhase ==
  /\ sniffing = FALSE /\ connecting = None /\ connection # None /\ dial = NoDial
  /\ pendingData = <<>> /\ activityTimer # None
  /\ \A i \in DOMAIN queue : queue[i].task \notin {"connected", "connectFailed"}

(* An open connection is in one of its three phases.  Of a closed one only *)
(* the result of a dial that ended just before can be open.                *)
PhaseInv ==
  /\ closed = FALSE => SniffPhase \/ DialPhase \/ OpenPhase
  /\ closed = TRUE /\ remoteOpen = TRUE => Len(queue) = 1 /\ queue[1].task = "connected"

(* The flags of the coalescing buffer say what is posted or in flight. *)
FlushRuns(i) == sends[i].kind = "flush"
FlushEnds(i) == \/ queue[i].task = "flushDone"
                \/ queue[i].task = "sendFailed" /\ queue[i].flush = TRUE
HasFlush == \E i \in DOMAIN queue : queue[i].task = "flush"
HasEnd == \E i \in DOMAIN queue : FlushEnds(i)
HasRun == \E i \in DOMAIN sends : FlushRuns(i)
OneFlush == \A i, j \in DOMAIN queue : queue[i].task = "flush" /\ queue[j].task = "flush" => i = j
OneEnd == \A i, j \in DOMAIN queue : FlushEnds(i) /\ FlushEnds(j) => i = j
OneRun == \A i, j \in DOMAIN sends : FlushRuns(i) /\ FlushRuns(j) => i = j
FlushInv ==
  closed = FALSE =>
    /\ coalesceBuffer # <<>> => coalesceScheduled = TRUE \/ coalesceFlushInFlight = TRUE
    /\ coalesceScheduled = TRUE <=> HasFlush
    /\ coalesceFlushInFlight = TRUE <=> HasRun \/ HasEnd
    /\ ~(coalesceScheduled = TRUE /\ coalesceFlushInFlight = TRUE)
    /\ ~(HasRun /\ HasEnd)
    /\ OneFlush /\ OneEnd /\ OneRun

(* One coroutine sends what was buffered during the dial. *)
OneInitial == \A i, j \in DOMAIN sends : ~FlushRuns(i) /\ ~FlushRuns(j) => i = j
InitialInv == closed = FALSE => OneInitial

(* The uplink stream: what the handshake carries, then what came after it; *)
(* on the proxy route what was passed to send(), then the chunks the flush *)
(* still has to pass (chunk j ends at the offset e[j]), then the           *)
(* coalescing buffer.                                                      *)
Run(s, from) == \A k \in DOMAIN s : s[k] = from + k
Continues(s, from) == Run(s, from) /\ delivered = from + Len(s)
CarriedInv(initialData) == Run(initialData, 0) /\ Continues(pendingData, Len(initialData))
Offsets(chunks, e) ==
  /\ e \in [1..Len(chunks) -> Nat]
  /\ \A j \in 2..Len(chunks) : e[j] = e[j - 1] + Len(chunks[j]) /\ Run(chunks[j], e[j - 1])
FlushCarries(chunks) ==
  \E e : /\ Offsets(chunks, e) /\ e[1] = Len(handedOver)
         /\ Continues(coalesceBuffer, e[Len(chunks)])
HasLost == \E i \in DOMAIN queue : queue[i].task = "sendFailed" /\ queue[i].flush = TRUE
OpenUplink ==
  /\ \A i \in DOMAIN sends : ~FlushRuns(i) => Len(sends[i].chunks) = 1
  /\ \A i \in DOMAIN sends : FlushRuns(i) => FlushCarries(sends[i].chunks)
  /\ HasRun \/ HasLost \/ Continues(coalesceBuffer, Len(handedOver))
UplinkInv ==
  /\ closed = FALSE =>
       /\ SniffPhase => CarriedInv(<<>>) /\ handedOver = <<>>
       /\ DialPhase /\ Dialing => CarriedInv(dial.initialData) /\ handedOver = <<>>
       /\ DialPhase /\ DialDone => /\ CarriedInv(queue[1].initialData)
                                   /\ bypass = FALSE => handedOver = queue[1].initialData
  /\ bypass = FALSE => Run(handedOver, 0) /\ (closed = FALSE /\ OpenPhase => OpenUplink)

(* The downlink: at most one receive, under way or waiting in the queue,   *)
(* as receiveInFlight says.  What was written and the backlog are the      *)
(* remote's first units, and the receive that waits has the rest.          *)
HasReceived == \E i \in DOMAIN queue : queue[i].task = "received"
OneReceived ==
  \A i, j \in DOMAIN queue : queue[i].task = "received" /\ queue[j].task = "received" => i = j
Carries(t) ==
  /\ t.data = [n \in 1..remoteSent - Len(fed) |-> Len(fed) + n]
  /\ t.outcome # "data" => t.data = <<>>
ReceiveInv ==
  /\ receives = 0 \/ receives = 1
  /\ receiveInFlight = TRUE <=> receives = 1 \/ HasReceived
  /\ ~(receives = 1 /\ HasReceived)
  /\ OneReceived
FedInv ==
  /\ Len(fed) <= remoteSent
  /\ \A n \in DOMAIN fed : fed[n] = n
  /\ ~HasReceived => Len(fed) = remoteSent
  /\ \A i \in DOMAIN queue : queue[i].task = "received" => Carries(queue[i])
ResumeInv ==
  activityTimer # None /\ downlinkDone = FALSE =>
    receives = 1 \/ HasReceived \/ sndUsed > 0 \/ drainRetries > 0
DownlinkInv == closed = FALSE => ReceiveInv /\ FedInv /\ ResumeInv

TcpInv ==
  /\ TypeOK /\ PcbInv /\ SendsInv /\ PhaseInv
  /\ FlushInv /\ InitialInv /\ UplinkInv /\ DownlinkInv
-----------------------------------------------------------------------------
(* The steps of the specification, by what they change.  Every step is one *)
(* that closes the connection, one of a connection that is closed, or one  *)
(* of the fifteen below that leave it open.                                *)

Sorted ==
  {handshakeCarriesInitialData, uplinkDone, handshakeTimer, sniffDeadline, hasActivity,
   finSeen, remoteEof, stray} \subseteq BOOLEAN
SameRoute ==
  /\ sniffing' = sniffing /\ bypass' = bypass
  /\ connecting' = connecting /\ connection' = connection /\ dial' = dial
SameBuffer ==
  /\ coalesceBuffer' = coalesceBuffer /\ coalesceScheduled' = coalesceScheduled
  /\ coalesceFlushInFlight' = coalesceFlushInFlight
SameSends == sends' = sends /\ handedOver' = handedOver
SameUp == pendingData' = pendingData /\ SameBuffer /\ SameSends
SameLwip ==
  /\ pendingWrite' = pendingWrite /\ sndUsed' = sndUsed /\ toLwip' = toLwip
  /\ drainRetries' = drainRetries
SameReceive == receiveInFlight' = receiveInFlight /\ receives' = receives
SameDown == SameLwip /\ SameReceive
SameRemote == remoteOpen' = remoteOpen /\ remoteSent' = remoteSent
SameTimer == downlinkDone' = downlinkDone /\ activityTimer' = activityTimer
SameWindow == delivered' = delivered /\ recved' = recved

Stays == closed = FALSE /\ closed' = FALSE /\ misuse' = FALSE /\ Sorted'
HeadIs(kinds) == queue # <<>> /\ Head(queue).task \in kinds /\ queue' = Tail(queue)

Releases ==
  /\ closed = FALSE /\ closed' = TRUE /\ misuse' = FALSE /\ Sorted'
  /\ handshakeTimer' = FALSE /\ sniffDeadline' = FALSE /\ sniffing' = FALSE
  /\ connecting' = None /\ connection' = None /\ activityTimer' = None
  /\ dial' = NoDial /\ sends' = <<>> /\ receives' = 0
  /\ pendingData' = <<>> /\ coalesceBuffer' = <<>> /\ pendingWrite' = <<>>
  /\ coalesceScheduled' = FALSE /\ receiveInFlight' = FALSE
  /\ coalesceFlushInFlight' = coalesceFlushInFlight
  /\ bypass' = bypass /\ handedOver' = handedOver
  /\ remoteOpen' \in BOOLEAN /\ remoteSent' = remoteSent /\ downlinkDone' \in BOOLEAN
  /\ remoteOpen' = TRUE => remoteOpen = TRUE /\ connection = None
  /\ toLwip' \in Seq(1..MaxDown) /\ sndUsed' \in 0..TCP_SND_BUF
  /\ drainRetries' \in Nat /\ delivered' \in 0..MaxUp /\ recved' \in Nat
  /\ queue' = queue \/ HeadIs({"sendFailed", "connectFailed", "received"})

AfterClose ==
  /\ closed = TRUE /\ closed' = TRUE /\ misuse' = misuse /\ Sorted'
  /\ handshakeTimer' = handshakeTimer /\ sniffDeadline' = sniffDeadline
  /\ SameRoute /\ SameTimer /\ SameWindow /\ SameSends /\ SameReceive
  /\ pendingData' = pendingData /\ coalesceBuffer' \in {coalesceBuffer, <<>>}
  /\ {coalesceScheduled', coalesceFlushInFlight'} \subseteq BOOLEAN
  /\ pendingWrite' = pendingWrite /\ sndUsed' = sndUsed /\ toLwip' = toLwip
  /\ drainRetries' \in Nat /\ remoteSent' = remoteSent
  /\ \/ queue' = queue /\ remoteOpen' = remoteOpen
     \/ queue # <<>> /\ queue' = Tail(queue) /\ remoteOpen' = remoteOpen
        /\ Head(queue).task # "connected"
     \/ queue # <<>> /\ queue' = Tail(queue) /\ remoteOpen' = FALSE

Quiet ==
  /\ Stays /\ SameRoute /\ SameUp /\ SameDown /\ SameRemote /\ SameWindow
  /\ queue' = queue /\ downlinkDone' = downlinkDone
  /\ activityTimer' \in {None, "idle", "uplinkOnly", "downlinkOnly"}
  /\ activityTimer' = None <=> activityTimer = None

Buffers ==
  /\ Stays /\ SameRoute /\ SameBuffer /\ SameSends /\ SameDown /\ SameRemote /\ SameTimer
  /\ sniffing = TRUE \/ connecting # None
  /\ delivered < MaxUp /\ delivered' = delivered + 1 /\ recved' = recved
  /\ pendingData' = Grown /\ queue' = queue

Commits(direct, pend) ==
  /\ Stays /\ SameBuffer /\ SameSends /\ SameDown /\ SameRemote /\ SameTimer
  /\ sniffing = TRUE \/ (connecting = None /\ connection = None)
  /\ \/ delivered < MaxUp /\ delivered' = delivered + 1 /\ pend = Grown
     \/ delivered' = delivered /\ pend = pendingData
  /\ recved' = recved /\ queue' = queue
  /\ sniffing' = FALSE /\ bypass' = direct
  /\ connecting' = IF direct = TRUE THEN "direct" ELSE "proxy"
  /\ connection' = IF direct = TRUE THEN "direct" ELSE connection
  /\ \/ dial' = [kind |-> connecting', initialData |-> pend] /\ pendingData' = <<>>
     \/ /\ direct = FALSE
        /\ dial' = [kind |-> connecting', initialData |-> <<>>] /\ pendingData' = pend

Coalesces ==
  /\ Stays /\ SameRoute /\ SameSends /\ SameDown /\ SameRemote /\ SameTimer
  /\ sniffing = FALSE /\ connecting = None /\ connection # None
  /\ delivered < MaxUp /\ delivered' = delivered + 1 /\ recved' = recved
  /\ coalesceBuffer' = Append(coalesceBuffer, delivered + 1)
  /\ coalesceFlushInFlight' = coalesceFlushInFlight /\ pendingData' = pendingData
  /\ \/ /\ coalesceFlushInFlight = TRUE \/ coalesceScheduled = TRUE
        /\ coalesceScheduled' = coalesceScheduled /\ queue' = queue
     \/ /\ coalesceFlushInFlight = FALSE /\ coalesceScheduled = FALSE
        /\ coalesceScheduled' = TRUE /\ queue' = Append(queue, [task |-> "flush"])

DialEnds ==
  /\ Stays /\ SameUp /\ SameDown /\ SameRemote /\ SameTimer /\ SameWindow
  /\ sniffing' = sniffing /\ bypass' = bypass
  /\ connecting' = connecting /\ connection' = connection
  /\ dial.kind # None /\ dial' = NoDial
  /\ queue' = Append(queue, [task |-> "connectFailed"])

DialOpens ==
  /\ Stays /\ pendingData' = pendingData /\ SameBuffer /\ sends' = sends
  /\ SameDown /\ SameTimer /\ SameWindow
  /\ sniffing' = sniffing /\ bypass' = bypass
  /\ connecting' = connecting /\ connection' = connection
  /\ dial.kind # None /\ dial' = NoDial
  /\ queue' = Append(queue, [task |-> "connected", kind |-> dial.kind,
                             initialData |-> dial.initialData])
  /\ remoteOpen' = TRUE /\ remoteSent' = remoteSent
  /\ \/ dial.kind = "proxy" /\ handedOver' = handedOver \o dial.initialData
     \/ dial.kind # "proxy" /\ handedOver' = handedOver

SendDone(i) ==
  /\ Stays /\ SameRoute /\ pendingData' = pendingData /\ SameBuffer
  /\ SameDown /\ SameRemote /\ SameTimer /\ SameWindow
  /\ queue' = queue \o PostedAfterChunk(sends[i])
  /\ \/ /\ Tail(sends[i].chunks) = <<>>
        /\ sends' = RemoveAt(sends, i) /\ handedOver' = handedOver
     \/ /\ Tail(sends[i].chunks) # <<>>
        /\ sends' = [sends EXCEPT ![i].chunks = Tail(sends[i].chunks)]
        /\ handedOver' = handedOver \o Head(Tail(sends[i].chunks))

SendLost(i) ==
  /\ Stays /\ SameRoute /\ pendingData' = pendingData /\ SameBuffer
  /\ SameDown /\ SameRemote /\ SameTimer /\ SameWindow
  /\ queue' = Append(queue, [task |-> "sendFailed", flush |-> sends[i].kind = "flush"])
  /\ sends' = RemoveAt(sends, i) /\ handedOver' = handedOver

Arrives(outcome, data) ==
  /\ Stays /\ SameRoute /\ SameUp /\ SameLwip /\ SameTimer /\ SameWindow
  /\ remoteOpen' = remoteOpen /\ receiveInFlight' = receiveInFlight
  /\ receives > 0 /\ receives' = receives - 1
  /\ outcome \in {"data", "eof", "error"} /\ data \in Seq(1..MaxDown)
  /\ data = [j \in 1..Len(data) |-> remoteSent + j]
  /\ remoteSent' = remoteSent + Len(data) /\ remoteSent' \in 0..MaxDown
  /\ outcome # "data" => data = <<>>
  /\ queue' = Append(queue, [task |-> "received", outcome |-> outcome, data |-> data])

Arms(pw, inFlight) ==
  \/ /\ inFlight = TRUE \/ Len(pw) >= drainLowWaterMark
     /\ receiveInFlight' = inFlight /\ receives' = receives
  \/ /\ inFlight = FALSE /\ Len(pw) < drainLowWaterMark
     /\ receiveInFlight' = TRUE /\ receives' = receives + 1

Drains(pw, inFlight, used, retries, k) ==
  /\ Stays /\ SameRoute /\ SameUp /\ SameRemote /\ SameTimer /\ SameWindow
  /\ k <= Len(pw) /\ used + k <= TCP_SND_BUF
  /\ toLwip' = toLwip \o SubSeq(pw, 1, k) /\ pendingWrite' = SubSeq(pw, k + 1, Len(pw))
  /\ sndUsed' = used + k
  /\ \/ /\ pw # <<>> /\ k = 0
        /\ drainRetries' = retries + 1
        /\ receiveInFlight' = inFlight /\ receives' = receives
     \/ /\ pw = <<>> \/ k > 0
        /\ drainRetries' = retries
        /\ Arms(SubSeq(pw, k + 1, Len(pw)), inFlight)

Redrains(used, retries, k) ==
  /\ Drains(pendingWrite, receiveInFlight, used, retries, k)
  /\ queue' = queue
  /\ \/ sndUsed > 0 /\ used < sndUsed /\ retries = drainRetries
     \/ used = sndUsed /\ drainRetries > 0 /\ retries = drainRetries - 1

Delivers(k) ==
  /\ HeadIs({"received"}) /\ Head(queue).outcome = "data"
  /\ Drains(pendingWrite \o Head(queue).data, FALSE, sndUsed, drainRetries, k)

Acks ==
  /\ Stays /\ SameRoute /\ SameUp /\ SameDown /\ SameRemote /\ SameTimer
  /\ HeadIs({"ack"}) /\ delivered' = delivered
  /\ recved' = recved + Head(queue).bytes

Flushes ==
  /\ Stays /\ SameRoute /\ pendingData' = pendingData /\ SameDown /\ SameRemote
  /\ SameTimer /\ SameWindow
  /\ HeadIs({"flush", "flushDone"})
  /\ coalesceBuffer # <<>> /\ coalesceBuffer' = <<>>
  /\ coalesceScheduled' = FALSE /\ coalesceFlushInFlight' = TRUE
  /\ sends' = Append(sends, Coroutine("flush", Chunks(coalesceBuffer), 0))
  /\ handedOver' = handedOver \o Head(Chunks(coalesceBuffer))

FlushesNothing ==
  /\ Stays /\ SameRoute /\ pendingData' = pendingData /\ SameSends /\ SameDown
  /\ SameRemote /\ SameTimer /\ SameWindow
  /\ \/ HeadIs({"flush"}) /\ coalesceBuffer = <<>>
     \/ HeadIs({"flush", "flushDone"}) /\ connection = None
  /\ coalesceBuffer' = <<>> /\ coalesceScheduled' = FALSE
  /\ coalesceFlushInFlight' = coalesceFlushInFlight

FlushOver ==
  /\ Stays /\ SameRoute /\ pendingData' = pendingData /\ SameSends /\ SameDown
  /\ SameRemote /\ SameTimer /\ SameWindow
  /\ HeadIs({"flushDone"}) /\ coalesceBuffer = <<>>
  /\ coalesceBuffer' = coalesceBuffer /\ coalesceScheduled' = coalesceScheduled
  /\ coalesceFlushInFlight' = FALSE

OpeningChunks(initial) ==
  (IF Head(queue).kind = "direct" /\ initial # <<>> THEN <<initial>> ELSE <<>>) \o
  (IF pendingData # <<>> THEN <<pendingData>> ELSE <<>>)
Connects(initial) ==
  /\ Stays /\ SameBuffer /\ SameLwip /\ SameRemote
  /\ HeadIs({"connected"}) /\ initial = Head(queue).initialData
  /\ sniffing' = sniffing /\ bypass' = bypass /\ dial' = dial
  /\ connecting' = None /\ connection' = Head(queue).kind
  /\ downlinkDone' = downlinkDone /\ activityTimer' = "idle"
  /\ pendingData' = <<>> /\ delivered' = delivered
  /\ \/ /\ OpeningChunks(initial) # <<>> /\ recved' = recved
        /\ sends' = Append(sends, Coroutine("initial", OpeningChunks(initial),
                                            Len(initial) + Len(pendingData)))
        /\ handedOver' = handedOver \o Head(OpeningChunks(initial))
     \/ /\ OpeningChunks(initial) = <<>> /\ recved' = recved + Len(initial)
        /\ SameSends
  /\ Arms(pendingWrite, receiveInFlight)

DownlinkEnds ==
  /\ Stays /\ SameRoute /\ SameUp /\ SameLwip /\ SameRemote /\ SameWindow
  /\ HeadIs({"received"}) /\ Head(queue).outcome = "eof"
  /\ downlinkDone' = TRUE /\ activityTimer' = "uplinkOnly"
  /\ receiveInFlight' = FALSE /\ receives' = receives

Step ==
  \/ Releases
  \/ AfterClose
  \/ Quiet
  \/ Buffers
  \/ \E direct \in BOOLEAN, pend \in Seq(1..MaxUp) : Commits(direct, pend)
  \/ Coalesces
  \/ DialEnds
  \/ DialOpens
  \/ \E i \in DOMAIN sends : SendDone(i) \/ SendLost(i)
  \/ \E outcome, data : Arrives(outcome, data)
  \/ \E used, retries, k \in Nat : Redrains(used, retries, k)
  \/ \E k \in Nat : Delivers(k)
  \/ Acks
  \/ Flushes
  \/ FlushesNothing
  \/ FlushOver
  \/ \E initial : Connects(initial)
  \/ DownlinkEnds

-----------------------------------------------------------------------------
(* The type invariant and the assumptions, fact by fact. *)

LEMMA Sizes ==
  /\ MaxUp \in Nat /\ MaxDown \in Nat
  /\ TCP_SND_BUF \in Nat /\ TCP_SND_BUF > 0
  /\ tcpMaxCoalesceSize \in Nat /\ tcpMaxCoalesceSize > 0
  /\ drainLowWaterMark \in Nat /\ drainLowWaterMark > 0
  /\ MaxRead \in Nat
BY SizesAssumption

LEMMA Flags ==
  ASSUME TypeOK
  PROVE  /\ closed \in BOOLEAN /\ sniffing \in BOOLEAN /\ bypass \in BOOLEAN
         /\ coalesceScheduled \in BOOLEAN /\ coalesceFlushInFlight \in BOOLEAN
         /\ receiveInFlight \in BOOLEAN /\ downlinkDone \in BOOLEAN
         /\ misuse \in BOOLEAN /\ remoteOpen \in BOOLEAN /\ Sorted
BY DEF TypeOK, Sorted

LEMMA SortedFacts ==
  Sorted <=> /\ handshakeCarriesInitialData \in BOOLEAN /\ uplinkDone \in BOOLEAN
             /\ handshakeTimer \in BOOLEAN /\ sniffDeadline \in BOOLEAN
             /\ hasActivity \in BOOLEAN /\ finSeen \in BOOLEAN /\ remoteEof \in BOOLEAN
             /\ stray \in BOOLEAN
BY DEF Sorted

LEMMA Sorts ==
  ASSUME TypeOK
  PROVE  /\ connecting \in {None, "direct", "proxy"} /\ connection \in {None, "direct", "proxy"}
         /\ dial \in [kind : {None, "direct", "proxy"}, initialData : Seq(1..MaxUp)]
         /\ activityTimer \in {None, "idle", "uplinkOnly", "downlinkOnly"}
         /\ receives \in Nat /\ drainRetries \in Nat /\ recved \in Nat
         /\ delivered \in 0..MaxUp /\ remoteSent \in 0..MaxDown /\ sndUsed \in 0..TCP_SND_BUF
         /\ pendingData \in Seq(1..MaxUp) /\ coalesceBuffer \in Seq(1..MaxUp)
         /\ handedOver \in Seq(1..MaxUp)
         /\ pendingWrite \in Seq(1..MaxDown) /\ toLwip \in Seq(1..MaxDown)
         /\ sends \in Seq(SendRecord) /\ queue \in Seq(TaskRecord)
BY DEF TypeOK

LEMMA Numbers ==
  ASSUME TypeOK
  PROVE  /\ receives \in Nat /\ drainRetries \in Nat /\ recved \in Nat
         /\ delivered \in Nat /\ delivered <= MaxUp
         /\ remoteSent \in Nat /\ remoteSent <= MaxDown
         /\ sndUsed \in Nat /\ sndUsed <= TCP_SND_BUF
BY Sizes DEF TypeOK

LEMMA Queues ==
  ASSUME TypeOK
  PROVE  /\ pendingData \in Seq(1..MaxUp) /\ coalesceBuffer \in Seq(1..MaxUp)
         /\ handedOver \in Seq(1..MaxUp)
         /\ pendingWrite \in Seq(1..MaxDown) /\ toLwip \in Seq(1..MaxDown)
BY DEF TypeOK

LEMMA TaskSorts ==
  ASSUME NEW t \in TaskRecord
  PROVE  /\ t.task \in {"ack", "flush", "flushDone", "connectFailed", "sendFailed",
                        "connected", "received"}
         /\ t.task = "ack" => t.bytes \in Nat
         /\ t.task = "sendFailed" => t.flush \in BOOLEAN
         /\ t.task = "connected" => /\ t.kind \in {"direct", "proxy"}
                                    /\ t.initialData \in Seq(1..MaxUp)
         /\ t.task = "received" => /\ t.outcome \in {"data", "eof", "error"}
                                   /\ t.data \in Seq(1..MaxDown)
<1>1. CASE t \in [task : {"ack"}, bytes : Nat]
  BY <1>1
<1>2. CASE t \in [task : {"flush", "flushDone", "connectFailed"}]
  BY <1>2
<1>3. CASE t \in [task : {"sendFailed"}, flush : BOOLEAN]
  BY <1>3
<1>4. CASE t \in [task : {"connected"}, kind : {"direct", "proxy"}, initialData : Seq(1..MaxUp)]
  BY <1>4
<1>5. CASE t \in [task : {"received"}, outcome : {"data", "eof", "error"}, data : Seq(1..MaxDown)]
  BY <1>5
<1> QED
  BY <1>1, <1>2, <1>3, <1>4, <1>5 DEF TaskRecord

LEMMA HeadSorts ==
  ASSUME TypeOK, queue # <<>>
  PROVE  Head(queue) \in TaskRecord /\ Tail(queue) \in Seq(TaskRecord)
BY Sorts, HeadTailProperties

LEMMA Pieces ==
  ASSUME NEW S, NEW s \in Seq(S), NEW k \in Nat, k <= Len(s)
  PROVE  SubSeq(s, 1, k) \in Seq(S) /\ SubSeq(s, k + 1, Len(s)) \in Seq(S)
BY SubSeqProperties

-----------------------------------------------------------------------------
(* Every step has one of the shapes. *)

LEMMA ReleaseShape ==
  ASSUME TypeOK, PcbInv, closed = FALSE, Native \/ NoNative, releaseProtocol,
         uplinkDone' \in BOOLEAN, finSeen' \in BOOLEAN, remoteEof' \in BOOLEAN,
         stray' \in BOOLEAN,
         downlinkDone' \in BOOLEAN, remoteSent' = remoteSent,
         toLwip' \in Seq(1..MaxDown), sndUsed' \in 0..TCP_SND_BUF,
         drainRetries' \in Nat, delivered' \in 0..MaxUp, recved' \in Nat,
         queue' = queue \/ HeadIs({"sendFailed", "connectFailed", "received"})
  PROVE  Releases
<1>1. misuse' = FALSE
  BY Flags DEF PcbInv, Native, NoNative
<1>2. Sorted'
  <2>1. /\ handshakeCarriesInitialData' \in BOOLEAN
        /\ handshakeTimer' \in BOOLEAN /\ sniffDeadline' \in BOOLEAN
        /\ hasActivity' \in BOOLEAN
    BY Flags, SortedFacts, Zenon DEF releaseProtocol
  <2> QED
    BY <2>1 DEF Sorted
<1>3. remoteOpen' \in BOOLEAN /\ (remoteOpen' = TRUE => remoteOpen = TRUE /\ connection = None)
  <2>1. remoteOpen' = (remoteOpen /\ connection = None) /\ remoteOpen \in BOOLEAN
    BY Flags, Zenon DEF releaseProtocol
  <2> QED
    BY <2>1
<1>4. /\ closed' = TRUE /\ handshakeTimer' = FALSE /\ sniffDeadline' = FALSE
      /\ sniffing' = FALSE
      /\ connecting' = None /\ connection' = None /\ activityTimer' = None
      /\ dial' = NoDial /\ sends' = <<>> /\ receives' = 0
      /\ pendingData' = <<>> /\ coalesceBuffer' = <<>> /\ pendingWrite' = <<>>
      /\ coalesceScheduled' = FALSE /\ receiveInFlight' = FALSE
      /\ coalesceFlushInFlight' = coalesceFlushInFlight
      /\ bypass' = bypass /\ handedOver' = handedOver
  BY Zenon DEF releaseProtocol
<1> QED
  BY <1>1, <1>2, <1>3, <1>4, Zenon DEF Releases

LEMMA CloseShape ==
  ASSUME TypeOK, PcbInv, closed = FALSE, close,
         uplinkDone' \in BOOLEAN, finSeen' \in BOOLEAN, remoteEof' \in BOOLEAN,
         stray' \in BOOLEAN,
         downlinkDone' \in BOOLEAN, remoteSent' = remoteSent,
         delivered' \in 0..MaxUp, recved' \in Nat,
         queue' = queue \/ HeadIs({"sendFailed", "connectFailed", "received"})
  PROVE  Releases
<1>1. /\ Native /\ releaseProtocol /\ flushPendingToLwip(pendingWrite)
      /\ drainRetries' = drainRetries
  BY Zenon DEF close
<1>2. toLwip' \in Seq(1..MaxDown) /\ sndUsed' \in 0..TCP_SND_BUF
  <2>1. PICK k \in 0..Minimum(TCP_SND_BUF - sndUsed, Len(pendingWrite)) :
          toLwip' = toLwip \o SubSeq(pendingWrite, 1, k) /\ sndUsed' = sndUsed + k
    BY <1>1 DEF flushPendingToLwip
  <2>2. k \in Nat /\ k <= Len(pendingWrite) /\ k <= TCP_SND_BUF - sndUsed
    BY Numbers, Sizes, Queues, SMTT(30) DEF Minimum
  <2>3. SubSeq(pendingWrite, 1, k) \in Seq(1..MaxDown)
    BY <2>2, Queues, Pieces
  <2>4. toLwip' \in Seq(1..MaxDown)
    BY <2>1, <2>3, Queues, ConcatProperties, Zenon
  <2>5. sndUsed' \in 0..TCP_SND_BUF
    BY <2>1, <2>2, Numbers, Sizes, SMTT(30)
  <2> QED
    BY <2>4, <2>5
<1> QED
  BY <1>1, <1>2, Sorts, ReleaseShape, Zenon

LEMMA AbortShape ==
  ASSUME TypeOK, PcbInv, closed = FALSE, abort,
         uplinkDone' \in BOOLEAN, finSeen' \in BOOLEAN, remoteEof' \in BOOLEAN,
         stray' \in BOOLEAN,
         downlinkDone' \in BOOLEAN, remoteSent' = remoteSent,
         delivered' \in 0..MaxUp, recved' \in Nat,
         queue' = queue \/ HeadIs({"sendFailed", "connectFailed", "received"})
  PROVE  Releases
<1>1. /\ Native /\ releaseProtocol
      /\ drainRetries' = drainRetries /\ toLwip' = toLwip /\ sndUsed' = sndUsed
  BY Zenon DEF abort
<1> QED
  BY <1>1, Sorts, ReleaseShape, Zenon

LEMMA RecvFacts ==
  ASSUME TypeOK, NEW d \in Nat, TcpRecv(d)
  PROVE  /\ closed = FALSE /\ delivered < MaxUp /\ delivered' = delivered + 1
         /\ delivered' \in 0..MaxUp /\ recved' = recved + d /\ recved' \in Nat
         /\ uplinkDone' \in BOOLEAN /\ downlinkDone' = downlinkDone
         /\ downlinkDone' \in BOOLEAN /\ finSeen' \in BOOLEAN /\ remoteEof' \in BOOLEAN
         /\ stray' \in BOOLEAN
         /\ remoteSent' = remoteSent /\ queue' = queue
<1>1. /\ ~closed /\ delivered < MaxUp /\ delivered' = delivered + 1 /\ recved' = recved + d
      /\ uplinkDone' = uplinkDone /\ downlinkDone' = downlinkDone /\ finSeen' = finSeen
      /\ remoteEof' = remoteEof /\ stray' = stray /\ remoteSent' = remoteSent /\ queue' = queue
  BY DEF TcpRecv, doneVars
<1>2. closed = FALSE
  BY <1>1, Flags
<1>3. delivered' \in 0..MaxUp /\ recved' \in Nat
  BY <1>1, Numbers, Sizes
<1> QED
  BY <1>1, <1>2, <1>3, Flags, SortedFacts, Zenon

LEMMA GrownSort ==
  ASSUME TypeOK, delivered < MaxUp
  PROVE  Grown \in Seq(1..MaxUp)
<1>1. delivered + 1 \in 1..MaxUp
  BY Numbers, Sizes
<1> QED
  BY <1>1, Queues, AppendProperties DEF Grown

LEMMA BufferShape ==
  ASSUME TypeOK, PcbInv, TcpRecv(0), BufferPending(Grown),
         sniffing = TRUE \/ connecting # None
  PROVE  Releases \/ Buffers
<1>0. /\ closed = FALSE /\ delivered < MaxUp /\ delivered' = delivered + 1
      /\ delivered' \in 0..MaxUp /\ recved' = recved /\ recved' \in Nat
      /\ uplinkDone' \in BOOLEAN /\ downlinkDone' = downlinkDone
      /\ downlinkDone' \in BOOLEAN /\ finSeen' \in BOOLEAN /\ remoteEof' \in BOOLEAN
      /\ stray' \in BOOLEAN
      /\ remoteSent' = remoteSent /\ queue' = queue
  <2>1. 0 \in Nat /\ recved \in Nat
    BY Numbers
  <2>2. recved + 0 = recved
    BY <2>1
  <2> QED
    BY <2>1, <2>2, RecvFacts, Zenon
<1>1. CASE OverCap(Grown)
  <2>1. abort
    BY <1>1 DEF BufferPending
  <2> QED
    BY <2>1, <1>0, AbortShape, Zenon
<1>2. CASE ~OverCap(Grown)
  <2>1. /\ pendingData' = Grown /\ misuse' = misuse /\ closed' = closed
        /\ sniffing' = sniffing /\ bypass' = bypass /\ connecting' = connecting
        /\ handshakeCarriesInitialData' = handshakeCarriesInitialData
        /\ connection' = connection /\ coalesceBuffer' = coalesceBuffer
        /\ coalesceScheduled' = coalesceScheduled
        /\ coalesceFlushInFlight' = coalesceFlushInFlight
        /\ pendingWrite' = pendingWrite /\ receiveInFlight' = receiveInFlight
        /\ handshakeTimer' = handshakeTimer /\ sniffDeadline' = sniffDeadline
        /\ activityTimer' = activityTimer /\ dial' = dial /\ sends' = sends
        /\ receives' = receives /\ toLwip' = toLwip /\ sndUsed' = sndUsed
        /\ remoteOpen' = remoteOpen /\ drainRetries' = drainRetries
        /\ handedOver' = handedOver /\ hasActivity' = (activityTimer # None)
    BY <1>2 DEF BufferPending, NoNative, routeVars, downVars, taskVars, noteActivity
  <2>2. Sorted'
    <3>1. hasActivity' \in BOOLEAN
      BY <2>1
    <3> QED
      BY <2>1, <3>1, <1>0, Flags, SortedFacts DEF Sorted
  <2>3. Stays
    BY <2>1, <2>2, <1>0, Zenon DEF Stays, PcbInv
  <2> QED
    BY <2>1, <2>3, <1>0, Zenon
       DEF Buffers, SameRoute, SameBuffer, SameSends, SameDown, SameLwip, SameReceive,
           SameRemote, SameTimer
<1> QED
  BY <1>1, <1>2

LEMMA BeginFacts ==
  ASSUME NEW direct \in BOOLEAN, NEW carries \in BOOLEAN, NEW pend,
         beginConnecting(direct, carries, pend)
  PROVE  /\ bypass' = direct /\ handshakeCarriesInitialData' = carries
         /\ connecting' = IF direct = TRUE THEN "direct" ELSE "proxy"
         /\ connection' = IF direct = TRUE THEN "direct" ELSE connection
         /\ \/ dial' = [kind |-> connecting', initialData |-> pend] /\ pendingData' = <<>>
            \/ /\ direct = FALSE
               /\ dial' = [kind |-> connecting', initialData |-> <<>>]
               /\ pendingData' = pend
<1>1. CASE direct = TRUE \/ carries = TRUE
  BY <1>1, Zenon DEF beginConnecting, CarriedNow
<1>2. CASE direct = FALSE /\ carries = FALSE
  BY <1>2, Zenon DEF beginConnecting, CarriedNow
<1> QED
  BY <1>1, <1>2

LEMMA CommitShape ==
  ASSUME TypeOK, PcbInv, TcpRecv(0), NEW direct \in BOOLEAN, NEW carries \in BOOLEAN,
         CommitRoute(Grown, direct, carries),
         sniffing = TRUE \/ (connecting = None /\ connection = None)
  PROVE  Releases \/ Commits(direct, Grown)
<1>0. /\ closed = FALSE /\ delivered < MaxUp /\ delivered' = delivered + 1
      /\ delivered' \in 0..MaxUp /\ recved' = recved /\ recved' \in Nat
      /\ uplinkDone' \in BOOLEAN /\ downlinkDone' = downlinkDone
      /\ downlinkDone' \in BOOLEAN /\ finSeen' \in BOOLEAN /\ remoteEof' \in BOOLEAN
      /\ stray' \in BOOLEAN
      /\ remoteSent' = remoteSent /\ queue' = queue
  <2>1. 0 \in Nat /\ recved \in Nat
    BY Numbers
  <2>2. recved + 0 = recved
    BY <2>1
  <2> QED
    BY <2>1, <2>2, RecvFacts, Zenon
<1>1. CASE OverCap(Grown)
  <2>1. abort
    BY <1>1 DEF CommitRoute
  <2> QED
    BY <2>1, <1>0, AbortShape, Zenon
<1>2. CASE ~OverCap(Grown)
  <2>1. /\ beginConnecting(direct, carries, Grown)
        /\ misuse' = misuse /\ closed' = closed
        /\ sniffing' = FALSE /\ sniffDeadline' = FALSE
        /\ coalesceBuffer' = coalesceBuffer
        /\ coalesceScheduled' = coalesceScheduled
        /\ coalesceFlushInFlight' = coalesceFlushInFlight
        /\ pendingWrite' = pendingWrite /\ receiveInFlight' = receiveInFlight
        /\ handshakeTimer' = handshakeTimer
        /\ activityTimer' = activityTimer /\ sends' = sends
        /\ receives' = receives /\ toLwip' = toLwip /\ sndUsed' = sndUsed
        /\ remoteOpen' = remoteOpen /\ drainRetries' = drainRetries
        /\ handedOver' = handedOver /\ hasActivity' = (activityTimer # None)
    BY <1>2 DEF CommitRoute, NoNative, downVars, noteActivity
  <2>2. Sorted'
    <3>1. hasActivity' \in BOOLEAN
      BY <2>1
    <3> QED
      BY <2>1, <3>1, <1>0, BeginFacts, Flags, SortedFacts DEF Sorted
  <2>3. Stays
    BY <2>1, <2>2, <1>0, Zenon DEF Stays, PcbInv
  <2> QED
    BY <2>1, <2>3, <1>0, BeginFacts, Zenon
       DEF Commits, SameBuffer, SameSends, SameDown, SameLwip, SameReceive,
           SameRemote, SameTimer
<1> QED
  BY <1>1, <1>2

LEMMA RecvConnectedShape ==
  ASSUME TypeOK, PcbInv, RecvConnected
  PROVE  Coalesces
<1>1. /\ ~sniffing /\ connecting = None /\ connection # None
      /\ ~closed /\ delivered < MaxUp
      /\ delivered' = delivered + 1
      /\ coalesceBuffer' = Append(coalesceBuffer, delivered + 1)
      /\ IF coalesceFlushInFlight \/ coalesceScheduled
         THEN coalesceScheduled' = coalesceScheduled /\ queue' = queue
         ELSE coalesceScheduled' = TRUE /\ queue' = Append(queue, [task |-> "flush"])
      /\ hasActivity' = (activityTimer # None)
      /\ sniffing' = sniffing /\ bypass' = bypass /\ connecting' = connecting
      /\ handshakeCarriesInitialData' = handshakeCarriesInitialData
      /\ connection' = connection
      /\ pendingData' = pendingData /\ coalesceFlushInFlight' = coalesceFlushInFlight
      /\ pendingWrite' = pendingWrite /\ receiveInFlight' = receiveInFlight
      /\ uplinkDone' = uplinkDone /\ downlinkDone' = downlinkDone
      /\ handshakeTimer' = handshakeTimer /\ sniffDeadline' = sniffDeadline
      /\ activityTimer' = activityTimer /\ dial' = dial /\ sends' = sends
      /\ receives' = receives /\ closed' = closed /\ misuse' = misuse
      /\ recved' = recved /\ sndUsed' = sndUsed /\ finSeen' = finSeen /\ toLwip' = toLwip
      /\ remoteOpen' = remoteOpen /\ remoteSent' = remoteSent /\ remoteEof' = remoteEof
      /\ stray' = stray
      /\ drainRetries' = drainRetries /\ handedOver' = handedOver
  BY DEF RecvConnected, Post, noteActivity, routeVars, downVars, doneVars, taskVars,
         pcbVars, remoteVars
<1>2. Sorted'
  <2>1. hasActivity' \in BOOLEAN
    BY <1>1
  <2> QED
    BY <1>1, <2>1, Flags, SortedFacts DEF Sorted
<1>3. Stays /\ sniffing = FALSE
  BY <1>1, <1>2, Flags, Zenon DEF Stays, PcbInv
<1>4. \/ /\ coalesceFlushInFlight = TRUE \/ coalesceScheduled = TRUE
         /\ coalesceScheduled' = coalesceScheduled /\ queue' = queue
      \/ /\ coalesceFlushInFlight = FALSE /\ coalesceScheduled = FALSE
         /\ coalesceScheduled' = TRUE /\ queue' = Append(queue, [task |-> "flush"])
  BY <1>1, Flags, Zenon
<1> QED
  BY <1>1, <1>3, <1>4, Zenon
     DEF Coalesces, SameRoute, SameSends, SameDown, SameLwip, SameReceive, SameRemote,
         SameTimer

LEMMA RejectShape ==
  ASSUME TypeOK, PcbInv, RecvSniffReject
  PROVE  Releases
<1>1. TcpRecv(Len(Grown)) /\ close
  BY DEF RecvSniffReject
<1>2. Len(Grown) \in Nat
  <2>1. delivered < MaxUp
    BY <1>1 DEF TcpRecv
  <2> QED
    BY <2>1, GrownSort, LenProperties
<1> QED
  BY <1>1, <1>2, RecvFacts, CloseShape, Zenon

LEMMA ReceivedDataShape ==
  ASSUME TypeOK, PcbInv, handleReceivedData
  PROVE  Step
<1>1. CASE RecvSniffNeedMore
  BY <1>1, Flags, BufferShape, Zenon DEF RecvSniffNeedMore, Step
<1>2. CASE RecvCommit
  <2>1. /\ sniffing = TRUE \/ (connecting = None /\ connection = None)
        /\ TcpRecv(0) /\ CommitRoute(Grown, bypass, handshakeCarriesInitialData)
        /\ bypass \in BOOLEAN /\ handshakeCarriesInitialData \in BOOLEAN
    BY <1>2, Flags, SortedFacts, Zenon DEF RecvCommit
  <2>2. Releases \/ Commits(bypass, Grown)
    BY <2>1, CommitShape, Zenon
  <2>3. Grown \in Seq(1..MaxUp)
    BY <2>1, GrownSort, RecvFacts
  <2> QED
    BY <2>1, <2>2, <2>3, Zenon DEF Step
<1>3. CASE RecvSniffRule
  <2>1. PICK r \in Routes, c \in BOOLEAN : CommitRoute(Grown, r = "direct", c)
    BY <1>3, Zenon DEF RecvSniffRule
  <2>2. sniffing = TRUE /\ TcpRecv(0) /\ (r = "direct") \in BOOLEAN
    BY <1>3, Flags, Zenon DEF RecvSniffRule
  <2>3. Releases \/ Commits(r = "direct", Grown)
    BY <2>1, <2>2, CommitShape, Zenon
  <2>4. Grown \in Seq(1..MaxUp)
    BY <2>2, GrownSort, RecvFacts
  <2> QED
    BY <2>2, <2>3, <2>4, Zenon DEF Step
<1>4. CASE RecvSniffReject
  BY <1>4, RejectShape, Zenon DEF Step
<1>5. CASE RecvWhileConnecting
  BY <1>5, BufferShape, Zenon DEF RecvWhileConnecting, Step
<1>6. CASE RecvConnected
  BY <1>6, RecvConnectedShape, Zenon DEF Step
<1> QED
  BY <1>1, <1>2, <1>3, <1>4, <1>5, <1>6, Zenon DEF handleReceivedData

LEMMA RemoteCloseShape ==
  ASSUME TypeOK, PcbInv, handleRemoteClose
  PROVE  Step
<1>1. /\ closed = FALSE /\ finSeen' = TRUE /\ finSeen' \in BOOLEAN
      /\ delivered' = delivered /\ recved' = recved /\ downlinkDone' = downlinkDone
      /\ remoteSent' = remoteSent /\ remoteEof' = remoteEof /\ stray' = stray /\ queue' = queue
  <2>1. /\ ~closed /\ finSeen' = TRUE
        /\ delivered' = delivered /\ recved' = recved /\ downlinkDone' = downlinkDone
        /\ remoteSent' = remoteSent /\ remoteEof' = remoteEof /\ stray' = stray /\ queue' = queue
    BY DEF handleRemoteClose
  <2> QED
    BY <2>1, Flags
<1>2. /\ delivered' \in 0..MaxUp /\ recved' \in Nat /\ downlinkDone' \in BOOLEAN
      /\ remoteEof' \in BOOLEAN /\ stray' \in BOOLEAN
  BY <1>1, Sorts, Flags, SortedFacts, Zenon
<1>3. CASE close /\ uplinkDone' = uplinkDone
  BY <1>1, <1>2, <1>3, Flags, SortedFacts, CloseShape, Zenon DEF Step
<1>4. CASE close /\ uplinkDone' = TRUE
  BY <1>1, <1>2, <1>4, CloseShape, Zenon DEF Step
<1>5. CASE /\ sniffing /\ pendingData # <<>>
           /\ sniffing' = FALSE /\ sniffDeadline' = FALSE
           /\ beginConnecting(bypass, handshakeCarriesInitialData, pendingData)
           /\ uplinkDone' = TRUE
           /\ NoNative
           /\ UNCHANGED <<closed, coalesceBuffer, coalesceScheduled,
                          coalesceFlushInFlight, downVars, handshakeTimer, activityTimer,
                          hasActivity, sends, receives, toLwip, sndUsed, remoteOpen,
                          drainRetries, handedOver>>
  <2>1. /\ sniffing /\ sniffing' = FALSE /\ sniffDeadline' = FALSE
        /\ beginConnecting(bypass, handshakeCarriesInitialData, pendingData)
        /\ uplinkDone' = TRUE /\ misuse' = misuse /\ closed' = closed
        /\ coalesceBuffer' = coalesceBuffer
        /\ coalesceScheduled' = coalesceScheduled
        /\ coalesceFlushInFlight' = coalesceFlushInFlight
        /\ pendingWrite' = pendingWrite /\ receiveInFlight' = receiveInFlight
        /\ handshakeTimer' = handshakeTimer /\ hasActivity' = hasActivity
        /\ activityTimer' = activityTimer /\ sends' = sends
        /\ receives' = receives /\ toLwip' = toLwip /\ sndUsed' = sndUsed
        /\ remoteOpen' = remoteOpen /\ drainRetries' = drainRetries
        /\ handedOver' = handedOver
    BY <1>5 DEF NoNative, downVars
  <2>2. bypass \in BOOLEAN /\ handshakeCarriesInitialData \in BOOLEAN /\ sniffing = TRUE
    BY <2>1, Flags, SortedFacts
  <2>3. Sorted'
    BY <1>1, <1>2, <2>1, <2>2, BeginFacts, Flags, SortedFacts DEF Sorted
  <2>4. Stays
    BY <1>1, <2>1, <2>3, Zenon DEF Stays, PcbInv
  <2>5. Commits(bypass, pendingData)
    BY <2>1, <2>2, <2>4, <1>1, BeginFacts, Zenon
       DEF Commits, SameBuffer, SameSends, SameDown, SameLwip, SameReceive,
           SameRemote, SameTimer
  <2> QED
    BY <2>2, <2>5, Queues, Zenon DEF Step
<1>6. CASE /\ ~sniffing /\ ~downlinkDone
           /\ uplinkDone' = TRUE
           /\ activityTimer' = IF activityTimer = None THEN None ELSE "downlinkOnly"
           /\ UNCHANGED <<routeVars, upVars, downVars, handshakeTimer, sniffDeadline,
                          hasActivity, taskVars, pcbVars, toLwip, sndUsed, remoteOpen,
                          drainRetries, handedOver>>
  <2>1. /\ uplinkDone' = TRUE
        /\ activityTimer' = IF activityTimer = None THEN None ELSE "downlinkOnly"
        /\ sniffing' = sniffing /\ bypass' = bypass /\ connecting' = connecting
        /\ handshakeCarriesInitialData' = handshakeCarriesInitialData
        /\ connection' = connection
        /\ pendingData' = pendingData /\ coalesceBuffer' = coalesceBuffer
        /\ coalesceScheduled' = coalesceScheduled
        /\ coalesceFlushInFlight' = coalesceFlushInFlight
        /\ pendingWrite' = pendingWrite /\ receiveInFlight' = receiveInFlight
        /\ handshakeTimer' = handshakeTimer /\ sniffDeadline' = sniffDeadline
        /\ hasActivity' = hasActivity /\ dial' = dial /\ sends' = sends
        /\ receives' = receives /\ closed' = closed /\ misuse' = misuse
        /\ toLwip' = toLwip /\ sndUsed' = sndUsed /\ remoteOpen' = remoteOpen
        /\ drainRetries' = drainRetries /\ handedOver' = handedOver
    BY <1>6 DEF routeVars, upVars, downVars, taskVars, pcbVars
  <2>2. Sorted'
    BY <1>1, <1>2, <2>1, Flags, SortedFacts DEF Sorted
  <2>3. Stays
    BY <1>1, <2>1, <2>2, Zenon DEF Stays, PcbInv
  <2>4. /\ activityTimer' \in {None, "idle", "uplinkOnly", "downlinkOnly"}
        /\ activityTimer' = None <=> activityTimer = None
    BY <2>1 DEF None
  <2> QED
    BY <1>1, <2>1, <2>3, <2>4, Zenon
       DEF Step, Quiet, SameRoute, SameUp, SameBuffer, SameSends, SameDown, SameLwip,
           SameReceive, SameRemote, SameWindow
<1> QED
  BY <1>3, <1>4, <1>5, <1>6, Zenon DEF handleRemoteClose

LEMMA ErrorShape ==
  ASSUME TypeOK, PcbInv, handleError
  PROVE  Step
<1>1. /\ ~closed /\ releaseProtocol /\ NoNative
      /\ uplinkDone' = uplinkDone /\ downlinkDone' = downlinkDone
      /\ delivered' = delivered /\ recved' = recved /\ sndUsed' = sndUsed
      /\ finSeen' = finSeen /\ toLwip' = toLwip
      /\ remoteSent' = remoteSent /\ remoteEof' = remoteEof /\ stray' = stray
      /\ queue' = queue /\ drainRetries' = drainRetries
  BY DEF handleError, NoNative, doneVars, lwipVars
<1>2. closed = FALSE
  BY <1>1, Flags
<1> QED
  BY <1>1, <1>2, Sorts, Flags, SortedFacts, ReleaseShape, Zenon DEF Step

LEMMA DialOpensShape ==
  ASSUME TypeOK, PcbInv, DialSucceeds
  PROVE  Step
<1>1. /\ dial.kind # None /\ dial' = NoDial
      /\ queue' = Append(queue, [task |-> "connected", kind |-> dial.kind,
                                 initialData |-> dial.initialData])
      /\ remoteOpen' = TRUE
      /\ handedOver' = IF dial.kind = "proxy" THEN handedOver \o dial.initialData
                       ELSE handedOver
      /\ sniffing' = sniffing /\ bypass' = bypass /\ connecting' = connecting
      /\ handshakeCarriesInitialData' = handshakeCarriesInitialData
      /\ connection' = connection
      /\ pendingData' = pendingData /\ coalesceBuffer' = coalesceBuffer
      /\ coalesceScheduled' = coalesceScheduled
      /\ coalesceFlushInFlight' = coalesceFlushInFlight
      /\ pendingWrite' = pendingWrite /\ receiveInFlight' = receiveInFlight
      /\ uplinkDone' = uplinkDone /\ downlinkDone' = downlinkDone
      /\ handshakeTimer' = handshakeTimer /\ sniffDeadline' = sniffDeadline
      /\ activityTimer' = activityTimer /\ hasActivity' = hasActivity
      /\ sends' = sends /\ receives' = receives /\ closed' = closed /\ misuse' = misuse
      /\ delivered' = delivered /\ recved' = recved /\ sndUsed' = sndUsed
      /\ finSeen' = finSeen /\ toLwip' = toLwip
      /\ remoteSent' = remoteSent /\ remoteEof' = remoteEof /\ stray' = FALSE
      /\ drainRetries' = drainRetries
  BY DEF DialSucceeds, Post, routeVars, upVars, downVars, doneVars, timerVars, pcbVars,
         lwipVars
<1>2. closed = FALSE
  BY <1>1, Flags, Zenon DEF PcbInv
<1>3. Sorted'
  BY <1>1, Flags, SortedFacts DEF Sorted
<1>4. Stays
  BY <1>1, <1>2, <1>3, Zenon DEF Stays, PcbInv
<1> QED
  BY <1>1, <1>4, Zenon
     DEF Step, DialOpens, SameBuffer, SameDown, SameLwip, SameReceive, SameTimer, SameWindow

LEMMA DialHopShape ==
  ASSUME TypeOK, PcbInv, DialHop
  PROVE  Step
<1>1. /\ dial.kind = "proxy" /\ stray' = TRUE
      /\ dial' = dial /\ queue' = queue /\ drainRetries' = drainRetries
      /\ remoteOpen' = remoteOpen /\ handedOver' = handedOver
      /\ sniffing' = sniffing /\ bypass' = bypass /\ connecting' = connecting
      /\ handshakeCarriesInitialData' = handshakeCarriesInitialData
      /\ connection' = connection
      /\ pendingData' = pendingData /\ coalesceBuffer' = coalesceBuffer
      /\ coalesceScheduled' = coalesceScheduled
      /\ coalesceFlushInFlight' = coalesceFlushInFlight
      /\ pendingWrite' = pendingWrite /\ receiveInFlight' = receiveInFlight
      /\ uplinkDone' = uplinkDone /\ downlinkDone' = downlinkDone
      /\ handshakeTimer' = handshakeTimer /\ sniffDeadline' = sniffDeadline
      /\ activityTimer' = activityTimer /\ hasActivity' = hasActivity
      /\ sends' = sends /\ receives' = receives /\ closed' = closed /\ misuse' = misuse
      /\ delivered' = delivered /\ recved' = recved /\ sndUsed' = sndUsed
      /\ finSeen' = finSeen /\ toLwip' = toLwip
      /\ remoteSent' = remoteSent /\ remoteEof' = remoteEof
  BY DEF DialHop, routeVars, upVars, downVars, doneVars, timerVars, taskVars, pcbVars,
         lwipVars
<1>2. dial.kind # None
  BY <1>1 DEF None
<1>3. closed = FALSE
  BY <1>2, Flags, Zenon DEF PcbInv
<1>4. Sorted'
  BY <1>1, Flags, SortedFacts DEF Sorted
<1>5. Stays
  BY <1>1, <1>3, <1>4, Zenon DEF Stays, PcbInv
<1>6. activityTimer' \in {None, "idle", "uplinkOnly", "downlinkOnly"}
  BY <1>1, Sorts
<1> QED
  BY <1>1, <1>5, <1>6, Zenon
     DEF Step, Quiet, SameRoute, SameUp, SameBuffer, SameSends, SameDown, SameLwip,
         SameReceive, SameRemote, SameWindow

LEMMA DialEndsShape ==
  ASSUME TypeOK, PcbInv, DialFails
  PROVE  Step
<1>1. /\ dial.kind # None /\ dial' = NoDial
      /\ queue' = Append(queue, [task |-> "connectFailed"])
      /\ remoteOpen' = remoteOpen /\ handedOver' = handedOver
      /\ sniffing' = sniffing /\ bypass' = bypass /\ connecting' = connecting
      /\ handshakeCarriesInitialData' = handshakeCarriesInitialData
      /\ connection' = connection
      /\ pendingData' = pendingData /\ coalesceBuffer' = coalesceBuffer
      /\ coalesceScheduled' = coalesceScheduled
      /\ coalesceFlushInFlight' = coalesceFlushInFlight
      /\ pendingWrite' = pendingWrite /\ receiveInFlight' = receiveInFlight
      /\ uplinkDone' = uplinkDone /\ downlinkDone' = downlinkDone
      /\ handshakeTimer' = handshakeTimer /\ sniffDeadline' = sniffDeadline
      /\ activityTimer' = activityTimer /\ hasActivity' = hasActivity
      /\ sends' = sends /\ receives' = receives /\ closed' = closed /\ misuse' = misuse
      /\ delivered' = delivered /\ recved' = recved /\ sndUsed' = sndUsed
      /\ finSeen' = finSeen /\ toLwip' = toLwip
      /\ remoteSent' = remoteSent /\ remoteEof' = remoteEof /\ stray' = stray
      /\ drainRetries' = drainRetries
  BY DEF DialFails, Post, routeVars, upVars, downVars, doneVars, timerVars, pcbVars,
         lwipVars, remoteVars
<1>2. closed = FALSE
  BY <1>1, Flags, Zenon DEF PcbInv
<1>3. Sorted'
  BY <1>1, Flags, SortedFacts DEF Sorted
<1>4. Stays
  BY <1>1, <1>2, <1>3, Zenon DEF Stays, PcbInv
<1> QED
  BY <1>1, <1>4, Zenon
     DEF Step, DialEnds, SameUp, SameBuffer, SameSends, SameDown, SameLwip, SameReceive,
         SameRemote, SameTimer, SameWindow

LEMMA SendDoneShape ==
  ASSUME TypeOK, PcbInv, SendCompletes
  PROVE  Step
<1>1. PICK i \in DOMAIN sends :
      /\ queue' = queue \o PostedAfterChunk(sends[i])
      /\ IF Tail(sends[i].chunks) = <<>>
         THEN sends' = RemoveAt(sends, i) /\ UNCHANGED handedOver
         ELSE /\ sends' = [sends EXCEPT ![i].chunks = Tail(sends[i].chunks)]
              /\ handedOver' = handedOver \o Head(Tail(sends[i].chunks))
      /\ UNCHANGED <<routeVars, upVars, downVars, doneVars, timerVars, dial,
                     receives, pcbVars, lwipVars, remoteVars, drainRetries>>
  BY Zenon DEF SendCompletes
<1>2. /\ remoteOpen' = remoteOpen
      /\ sniffing' = sniffing /\ bypass' = bypass /\ connecting' = connecting
      /\ handshakeCarriesInitialData' = handshakeCarriesInitialData
      /\ connection' = connection /\ dial' = dial
      /\ pendingData' = pendingData /\ coalesceBuffer' = coalesceBuffer
      /\ coalesceScheduled' = coalesceScheduled
      /\ coalesceFlushInFlight' = coalesceFlushInFlight
      /\ pendingWrite' = pendingWrite /\ receiveInFlight' = receiveInFlight
      /\ uplinkDone' = uplinkDone /\ downlinkDone' = downlinkDone
      /\ handshakeTimer' = handshakeTimer /\ sniffDeadline' = sniffDeadline
      /\ activityTimer' = activityTimer /\ hasActivity' = hasActivity
      /\ receives' = receives /\ closed' = closed /\ misuse' = misuse
      /\ delivered' = delivered /\ recved' = recved /\ sndUsed' = sndUsed
      /\ finSeen' = finSeen /\ toLwip' = toLwip
      /\ remoteSent' = remoteSent /\ remoteEof' = remoteEof /\ stray' = stray
      /\ drainRetries' = drainRetries
  BY <1>1 DEF routeVars, upVars, downVars, doneVars, timerVars, pcbVars, lwipVars, remoteVars
<1>3. closed = FALSE
  <2>1. sends # <<>>
    OBVIOUS
  <2> QED
    BY <2>1, Flags, Zenon DEF PcbInv
<1>4. Sorted'
  BY <1>2, Flags, SortedFacts DEF Sorted
<1>5. Stays
  BY <1>2, <1>3, <1>4, Zenon DEF Stays, PcbInv
<1>6. SendDone(i)
  BY <1>1, <1>2, <1>5, Zenon
     DEF SendDone, SameRoute, SameBuffer, SameDown, SameLwip, SameReceive,
         SameRemote, SameTimer, SameWindow
<1> QED
  BY <1>6, Zenon DEF Step

LEMMA SendLostShape ==
  ASSUME TypeOK, PcbInv, SendFails
  PROVE  Step
<1>1. PICK i \in DOMAIN sends :
      /\ queue' = Append(queue, [task |-> "sendFailed", flush |-> sends[i].kind = "flush"])
      /\ sends' = RemoveAt(sends, i)
      /\ UNCHANGED <<routeVars, upVars, downVars, doneVars, timerVars, dial, receives,
                     pcbVars, lwipVars, remoteVars, drainRetries, handedOver>>
  BY Zenon DEF SendFails, Post
<1>2. /\ remoteOpen' = remoteOpen
      /\ sniffing' = sniffing /\ bypass' = bypass /\ connecting' = connecting
      /\ handshakeCarriesInitialData' = handshakeCarriesInitialData
      /\ connection' = connection /\ dial' = dial
      /\ pendingData' = pendingData /\ coalesceBuffer' = coalesceBuffer
      /\ coalesceScheduled' = coalesceScheduled
      /\ coalesceFlushInFlight' = coalesceFlushInFlight
      /\ pendingWrite' = pendingWrite /\ receiveInFlight' = receiveInFlight
      /\ uplinkDone' = uplinkDone /\ downlinkDone' = downlinkDone
      /\ handshakeTimer' = handshakeTimer /\ sniffDeadline' = sniffDeadline
      /\ activityTimer' = activityTimer /\ hasActivity' = hasActivity
      /\ receives' = receives /\ closed' = closed /\ misuse' = misuse
      /\ delivered' = delivered /\ recved' = recved /\ sndUsed' = sndUsed
      /\ finSeen' = finSeen /\ toLwip' = toLwip /\ handedOver' = handedOver
      /\ remoteSent' = remoteSent /\ remoteEof' = remoteEof /\ stray' = stray
      /\ drainRetries' = drainRetries
  BY <1>1 DEF routeVars, upVars, downVars, doneVars, timerVars, pcbVars, lwipVars, remoteVars
<1>3. closed = FALSE
  <2>1. sends # <<>>
    OBVIOUS
  <2> QED
    BY <2>1, Flags, Zenon DEF PcbInv
<1>4. Sorted'
  BY <1>2, Flags, SortedFacts DEF Sorted
<1>5. Stays
  BY <1>2, <1>3, <1>4, Zenon DEF Stays, PcbInv
<1>6. SendLost(i)
  BY <1>1, <1>2, <1>5, Zenon
     DEF SendLost, SameRoute, SameBuffer, SameDown, SameLwip, SameReceive,
         SameRemote, SameTimer, SameWindow
<1> QED
  BY <1>6, Zenon DEF Step

LEMMA ArrivesShape ==
  ASSUME TypeOK, PcbInv, ReceiveReturns
  PROVE  Step
<1>1. /\ receives > 0 /\ receives' = receives - 1
      /\ remoteOpen' = remoteOpen
      /\ sniffing' = sniffing /\ bypass' = bypass /\ connecting' = connecting
      /\ handshakeCarriesInitialData' = handshakeCarriesInitialData
      /\ connection' = connection /\ dial' = dial
      /\ pendingData' = pendingData /\ coalesceBuffer' = coalesceBuffer
      /\ coalesceScheduled' = coalesceScheduled
      /\ coalesceFlushInFlight' = coalesceFlushInFlight
      /\ pendingWrite' = pendingWrite /\ receiveInFlight' = receiveInFlight
      /\ uplinkDone' = uplinkDone /\ downlinkDone' = downlinkDone
      /\ handshakeTimer' = handshakeTimer /\ sniffDeadline' = sniffDeadline
      /\ activityTimer' = activityTimer /\ hasActivity' = hasActivity
      /\ closed' = closed /\ misuse' = misuse /\ sends' = sends
      /\ delivered' = delivered /\ recved' = recved /\ sndUsed' = sndUsed
      /\ finSeen' = finSeen /\ toLwip' = toLwip /\ handedOver' = handedOver
      /\ drainRetries' = drainRetries /\ stray' = stray
  BY DEF ReceiveReturns, routeVars, upVars, downVars, doneVars, timerVars, pcbVars,
         lwipVars
<1>2. PICK outcome \in {"data", "eof", "error"}, data \in Seq(1..MaxDown) :
      /\ data = [j \in 1..Len(data) |-> remoteSent + j]
      /\ remoteSent' = remoteSent + Len(data) /\ remoteSent' \in 0..MaxDown
      /\ outcome # "data" => data = <<>>
      /\ queue' = Append(queue, [task |-> "received", outcome |-> outcome, data |-> data])
      /\ remoteEof' \in BOOLEAN
  <2>0. remoteSent \in Nat /\ remoteSent <= MaxDown /\ MaxDown \in Nat /\ MaxRead \in Nat
    BY Numbers, Sizes
  <2>1. CASE \E k \in 1..MaxRead :
          /\ ~remoteEof /\ remoteSent + k <= MaxDown
          /\ remoteSent' = remoteSent + k
          /\ Post([task |-> "received", outcome |-> "data",
                   data |-> [j \in 1..k |-> remoteSent + j]])
          /\ UNCHANGED remoteEof
    <3>1. PICK k \in 1..MaxRead :
          /\ remoteSent + k <= MaxDown
          /\ remoteSent' = remoteSent + k
          /\ queue' = Append(queue, [task |-> "received", outcome |-> "data",
                                     data |-> [j \in 1..k |-> remoteSent + j]])
          /\ remoteEof' = remoteEof
      BY <2>1 DEF Post
    <3> DEFINE d == [j \in 1..k |-> remoteSent + j]
    <3>2. k \in Nat
      BY <2>0
    <3>3. \A j \in 1..k : remoteSent + j \in 1..MaxDown
      BY <2>0, <3>1, <3>2
    <3>4. d \in Seq(1..MaxDown) /\ Len(d) = k
      BY <3>2, <3>3
    <3>5. d = [j \in 1..Len(d) |-> remoteSent + j] /\ remoteSent' = remoteSent + Len(d)
      BY <3>1, <3>4
    <3>6. remoteSent' \in 0..MaxDown
      BY <3>1, <3>2, <2>0
    <3>7. remoteEof' \in BOOLEAN
      BY <3>1, Flags, SortedFacts, Zenon
    <3> HIDE DEF d
    <3>8. queue' = Append(queue, [task |-> "received", outcome |-> "data", data |-> d])
      BY <3>1 DEF d
    <3> QED
      BY <3>4, <3>5, <3>6, <3>7, <3>8
  <2>2. CASE /\ remoteEof' = TRUE
             /\ Post([task |-> "received", outcome |-> "eof", data |-> <<>>])
             /\ UNCHANGED remoteSent
    <3>1. /\ <<>> = [j \in 1..Len(<<>>) |-> remoteSent + j] /\ <<>> \in Seq(1..MaxDown)
          /\ remoteSent + Len(<<>>) = remoteSent
      BY <2>0
    <3>2. remoteSent \in 0..MaxDown
      BY <2>0
    <3> QED
      BY <2>2, <3>1, <3>2 DEF Post
  <2>3. CASE /\ Post([task |-> "received", outcome |-> "error", data |-> <<>>])
             /\ UNCHANGED <<remoteEof, remoteSent>>
    <3>1. /\ <<>> = [j \in 1..Len(<<>>) |-> remoteSent + j] /\ <<>> \in Seq(1..MaxDown)
          /\ remoteSent + Len(<<>>) = remoteSent
      BY <2>0
    <3>2. remoteSent \in 0..MaxDown
      BY <2>0
    <3>3. remoteEof' \in BOOLEAN
      BY <2>3, Flags, SortedFacts
    <3> QED
      BY <2>3, <3>1, <3>2, <3>3 DEF Post
  <2> QED
    BY <2>1, <2>2, <2>3 DEF ReceiveReturns
<1>3. closed = FALSE
  <2>1. receives # 0
    BY <1>1, Numbers
  <2> QED
    BY <2>1, Flags, Zenon DEF PcbInv
<1>4. Sorted'
  BY <1>1, <1>2, Flags, SortedFacts DEF Sorted
<1>5. Stays
  BY <1>1, <1>3, <1>4, Zenon DEF Stays, PcbInv
<1>6. Arrives(outcome, data)
  BY <1>1, <1>2, <1>5, Zenon
     DEF Arrives, SameRoute, SameUp, SameBuffer, SameSends, SameLwip, SameTimer, SameWindow
<1> QED
  BY <1>6, Zenon DEF Step

(* The drain of the backlog, from its three callers. *)
LEMMA DrainShape ==
  ASSUME TypeOK, PcbInv, closed = FALSE,
         NEW pw \in Seq(1..MaxDown), NEW inFlight \in BOOLEAN,
         NEW used \in Nat, NEW retries \in Nat, used <= TCP_SND_BUF,
         DrainFeeds(pw, inFlight, used, retries),
         hasActivity' \in BOOLEAN,
         uplinkDone' = uplinkDone, downlinkDone' = downlinkDone, delivered' = delivered,
         recved' = recved, finSeen' = finSeen, remoteSent' = remoteSent,
         remoteEof' = remoteEof, stray' = stray
  PROVE  \E k \in Nat : Drains(pw, inFlight, used, retries, k)
<1>1. PICK k \in feedLwip(pw, used) :
      /\ toLwip' = toLwip \o SubSeq(pw, 1, k)
      /\ sndUsed' = used + k
      /\ pendingWrite' = SubSeq(pw, k + 1, Len(pw))
      /\ IF pw # <<>> /\ k = 0
         THEN RetryLater(inFlight, retries)
         ELSE /\ tryArmReceive(pendingWrite', inFlight)
              /\ drainRetries' = retries
  BY DEF DrainFeeds, consume
<1>2. k \in Nat /\ k <= Len(pw) /\ used + k <= TCP_SND_BUF
  BY Sizes DEF feedLwip, Minimum
<1>3. misuse' = FALSE
  BY Flags DEF DrainFeeds, NoNative, Native, PcbInv
<1>4. /\ remoteOpen' = remoteOpen
      /\ sniffing' = sniffing /\ bypass' = bypass /\ connecting' = connecting
      /\ handshakeCarriesInitialData' = handshakeCarriesInitialData
      /\ connection' = connection /\ dial' = dial
      /\ pendingData' = pendingData /\ coalesceBuffer' = coalesceBuffer
      /\ coalesceScheduled' = coalesceScheduled
      /\ coalesceFlushInFlight' = coalesceFlushInFlight
      /\ handshakeTimer' = handshakeTimer /\ sniffDeadline' = sniffDeadline
      /\ activityTimer' = activityTimer
      /\ closed' = closed /\ sends' = sends /\ handedOver' = handedOver
  BY DEF DrainFeeds, routeVars, upVars
<1>5. Sorted'
  BY <1>4, Flags, SortedFacts DEF Sorted
<1>6. Stays
  BY <1>3, <1>4, <1>5, Zenon DEF Stays
<1>7. \/ /\ pw # <<>> /\ k = 0
         /\ drainRetries' = retries + 1
         /\ receiveInFlight' = inFlight /\ receives' = receives
      \/ /\ pw = <<>> \/ k > 0
         /\ drainRetries' = retries
         /\ Arms(SubSeq(pw, k + 1, Len(pw)), inFlight)
  <2>1. CASE pw # <<>> /\ k = 0
    BY <1>1, <2>1 DEF RetryLater
  <2>2. CASE ~(pw # <<>> /\ k = 0)
    <3>1. drainRetries' = retries /\ tryArmReceive(pendingWrite', inFlight)
      BY <1>1, <2>2, Zenon
    <3>2. pw = <<>> \/ k > 0
      BY <2>2, <1>2
    <3>3. Len(SubSeq(pw, k + 1, Len(pw))) \in Nat
      BY <1>2, Pieces, LenProperties
    <3>4. CASE inFlight \/ Len(SubSeq(pw, k + 1, Len(pw))) >= drainLowWaterMark
      <4>1. receiveInFlight' = inFlight /\ receives' = receives
        BY <3>1, <3>4, <1>1, Zenon DEF tryArmReceive
      <4>2. inFlight = TRUE \/ Len(SubSeq(pw, k + 1, Len(pw))) >= drainLowWaterMark
        BY <3>4
      <4> QED
        BY <3>1, <3>2, <4>1, <4>2, Zenon DEF Arms
    <3>5. CASE ~(inFlight \/ Len(SubSeq(pw, k + 1, Len(pw))) >= drainLowWaterMark)
      <4>1. receiveInFlight' = TRUE /\ receives' = receives + 1
        BY <3>1, <3>5, <1>1, Zenon DEF tryArmReceive
      <4>2. Len(SubSeq(pw, k + 1, Len(pw))) < drainLowWaterMark
        <5>1. ~(Len(SubSeq(pw, k + 1, Len(pw))) >= drainLowWaterMark)
          BY <3>5, Zenon
        <5> DEFINE n == Len(SubSeq(pw, k + 1, Len(pw)))
        <5> HIDE DEF n
        <5>2. n \in Nat /\ ~(n >= drainLowWaterMark)
          BY <5>1, <3>3, Zenon DEF n
        <5>3. n < drainLowWaterMark
          BY <5>2, Sizes
        <5> QED
          BY <5>3, Zenon DEF n
      <4>3. inFlight = FALSE
        <5>1. ~inFlight
          BY <3>5, Zenon
        <5> QED
          BY <5>1
      <4> QED
        BY <3>1, <3>2, <4>1, <4>2, <4>3, Zenon DEF Arms
    <3> QED
      BY <3>4, <3>5
  <2> QED
    BY <2>1, <2>2
<1>8. Drains(pw, inFlight, used, retries, k)
  BY <1>1, <1>2, <1>4, <1>6, <1>7, Zenon
     DEF Drains, SameRoute, SameUp, SameBuffer, SameSends, SameRemote, SameTimer, SameWindow
<1> QED
  BY <1>2, <1>8, Zenon

LEMMA FatalShape ==
  ASSUME TypeOK, PcbInv, closed = FALSE, NEW pw, NEW used \in Nat, NEW retries \in Nat,
         used <= TCP_SND_BUF, DrainFatal(pw, used, retries),
         uplinkDone' = uplinkDone, downlinkDone' = downlinkDone, delivered' = delivered,
         recved' = recved, finSeen' = finSeen, remoteSent' = remoteSent,
         remoteEof' = remoteEof, stray' = stray,
         queue' = queue \/ HeadIs({"sendFailed", "connectFailed", "received"})
  PROVE  Releases
<1>1. /\ Native /\ releaseProtocol /\ sndUsed' = used /\ drainRetries' = retries
      /\ toLwip' = toLwip
  BY DEF DrainFatal
<1>2. sndUsed' \in 0..TCP_SND_BUF
  BY <1>1, Sizes
<1> QED
  BY <1>1, <1>2, Sorts, Flags, SortedFacts, ReleaseShape, Zenon

LEMMA RedrainShape ==
  ASSUME TypeOK, PcbInv, closed = FALSE, NEW used \in Nat, NEW retries \in Nat,
         used <= TCP_SND_BUF, drainPendingWrite(used, retries),
         \/ sndUsed > 0 /\ used < sndUsed /\ retries = drainRetries
         \/ used = sndUsed /\ drainRetries > 0 /\ retries = drainRetries - 1,
         UNCHANGED <<doneVars, delivered, recved, finSeen, remoteSent, remoteEof, stray, queue>>
  PROVE  Step
<1>1. /\ uplinkDone' = uplinkDone /\ downlinkDone' = downlinkDone
      /\ delivered' = delivered /\ recved' = recved /\ finSeen' = finSeen
      /\ remoteSent' = remoteSent /\ remoteEof' = remoteEof /\ stray' = stray /\ queue' = queue
  BY DEF doneVars
<1>2. CASE DrainFeeds(pendingWrite, receiveInFlight, used, retries) /\ UNCHANGED hasActivity
  <2>1. hasActivity' \in BOOLEAN /\ receiveInFlight \in BOOLEAN
        /\ pendingWrite \in Seq(1..MaxDown)
    BY <1>2, Flags, SortedFacts, Queues
  <2>2. PICK k \in Nat : Drains(pendingWrite, receiveInFlight, used, retries, k)
    BY <1>1, <1>2, <2>1, DrainShape, Zenon
  <2>3. Redrains(used, retries, k)
    BY <2>2, <1>1, Zenon DEF Redrains
  <2> QED
    BY <2>3, Zenon DEF Step
<1>3. CASE DrainFatal(pendingWrite, used, retries)
  BY <1>1, <1>3, FatalShape, Zenon DEF Step
<1> QED
  BY <1>2, <1>3 DEF drainPendingWrite

LEMMA SentShape ==
  ASSUME TypeOK, PcbInv, handleSent
  PROVE  Step
<1>1. PICK k \in 1..sndUsed : drainPendingWrite(sndUsed - k, drainRetries)
  BY DEF handleSent
<1>2. /\ closed = FALSE
      /\ UNCHANGED <<doneVars, delivered, recved, finSeen, remoteSent, remoteEof, stray, queue>>
  BY Flags, Zenon DEF handleSent
<1>3. /\ sndUsed - k \in Nat /\ sndUsed - k <= TCP_SND_BUF /\ sndUsed > 0
      /\ sndUsed - k < sndUsed /\ drainRetries \in Nat
  BY Numbers, Sizes
<1> QED
  BY <1>1, <1>2, <1>3, RedrainShape, Zenon

LEMMA RetryShape ==
  ASSUME TypeOK, PcbInv, DrainRetryFires
  PROVE  Step
<1>1. /\ drainRetries > 0 /\ drainRetries - 1 \in Nat /\ sndUsed \in Nat
      /\ sndUsed <= TCP_SND_BUF
  BY Numbers DEF DrainRetryFires
<1>2. UNCHANGED <<doneVars, delivered, recved, finSeen, remoteSent, remoteEof, stray, queue>>
  BY Zenon DEF DrainRetryFires
<1>3. CASE closed = FALSE
  <2>1. drainPendingWrite(sndUsed, drainRetries - 1)
    BY <1>3, Zenon DEF DrainRetryFires
  <2> QED
    BY <1>1, <1>2, <1>3, <2>1, RedrainShape, Zenon
<1>4. CASE closed = TRUE
  <2>1. /\ drainRetries' = drainRetries - 1
        /\ UNCHANGED <<routeVars, upVars, downVars, timerVars, taskVars, pcbVars,
                       sndUsed, toLwip, remoteOpen, handedOver>>
    BY <1>4, Zenon DEF DrainRetryFires
  <2>2. /\ remoteOpen' = remoteOpen
        /\ sniffing' = sniffing /\ bypass' = bypass /\ connecting' = connecting
        /\ handshakeCarriesInitialData' = handshakeCarriesInitialData
        /\ connection' = connection /\ dial' = dial
        /\ pendingData' = pendingData /\ coalesceBuffer' = coalesceBuffer
        /\ coalesceScheduled' = coalesceScheduled
        /\ coalesceFlushInFlight' = coalesceFlushInFlight
        /\ pendingWrite' = pendingWrite /\ receiveInFlight' = receiveInFlight
        /\ uplinkDone' = uplinkDone /\ downlinkDone' = downlinkDone
        /\ handshakeTimer' = handshakeTimer /\ sniffDeadline' = sniffDeadline
        /\ activityTimer' = activityTimer /\ hasActivity' = hasActivity
        /\ closed' = closed /\ misuse' = misuse /\ sends' = sends /\ receives' = receives
        /\ delivered' = delivered /\ recved' = recved /\ sndUsed' = sndUsed
        /\ finSeen' = finSeen /\ toLwip' = toLwip /\ handedOver' = handedOver
        /\ remoteSent' = remoteSent /\ remoteEof' = remoteEof /\ stray' = stray /\ queue' = queue
    BY <2>1, <1>2 DEF routeVars, upVars, downVars, doneVars, timerVars, taskVars, pcbVars
  <2>3. Sorted'
    BY <2>2, Flags, SortedFacts DEF Sorted
  <2>4. /\ {coalesceScheduled', coalesceFlushInFlight'} \subseteq BOOLEAN
        /\ drainRetries' \in Nat /\ coalesceBuffer' \in {coalesceBuffer, <<>>}
    BY <2>1, <2>2, <1>1, Flags
  <2> QED
    BY <1>4, <2>2, <2>3, <2>4, Zenon
       DEF Step, AfterClose, SameRoute, SameTimer, SameWindow, SameSends, SameReceive
<1> QED
  BY <1>3, <1>4, Flags

LEMMA QuietShape ==
  ASSUME TypeOK, PcbInv, closed = FALSE, Sorted',
         activityTimer' = activityTimer,
         /\ sniffing' = sniffing /\ bypass' = bypass /\ connecting' = connecting
         /\ connection' = connection /\ dial' = dial /\ pendingData' = pendingData
         /\ coalesceBuffer' = coalesceBuffer /\ coalesceScheduled' = coalesceScheduled
         /\ coalesceFlushInFlight' = coalesceFlushInFlight /\ sends' = sends
         /\ handedOver' = handedOver /\ pendingWrite' = pendingWrite
         /\ receiveInFlight' = receiveInFlight /\ receives' = receives
         /\ sndUsed' = sndUsed /\ toLwip' = toLwip /\ drainRetries' = drainRetries
         /\ downlinkDone' = downlinkDone /\ closed' = closed /\ misuse' = misuse
         /\ delivered' = delivered /\ recved' = recved /\ remoteOpen' = remoteOpen
         /\ remoteSent' = remoteSent /\ queue' = queue
  PROVE  Quiet
<1>1. Stays
  BY Zenon DEF Stays, PcbInv
<1> QED
  BY <1>1, Sorts, Zenon
     DEF Quiet, SameRoute, SameUp, SameBuffer, SameSends, SameDown, SameLwip,
         SameReceive, SameRemote, SameWindow

LEMMA HandshakeTimerShape ==
  ASSUME TypeOK, PcbInv, HandshakeTimerFires
  PROVE  Step
<1>1. /\ handshakeTimer
      /\ uplinkDone' = uplinkDone /\ downlinkDone' = downlinkDone
      /\ delivered' = delivered /\ recved' = recved /\ finSeen' = finSeen
      /\ remoteSent' = remoteSent /\ remoteEof' = remoteEof /\ stray' = stray /\ queue' = queue
  BY DEF HandshakeTimerFires, doneVars
<1>2. closed = FALSE
  BY <1>1, Flags DEF PcbInv
<1>3. CASE isEstablishing
  <2>1. abort
    BY <1>3, Zenon DEF HandshakeTimerFires
  <2> QED
    BY <1>1, <1>2, <2>1, Sorts, Flags, SortedFacts, AbortShape, Zenon DEF Step
<1>4. CASE ~isEstablishing
  <2>1. /\ handshakeTimer' = FALSE
        /\ UNCHANGED <<routeVars, upVars, downVars, sniffDeadline, activityTimer,
                       hasActivity, taskVars, pcbVars, toLwip, sndUsed, remoteOpen,
                       drainRetries, handedOver>>
    BY <1>4, Zenon DEF HandshakeTimerFires
  <2>2. /\ sniffing' = sniffing /\ bypass' = bypass /\ connecting' = connecting
        /\ handshakeCarriesInitialData' = handshakeCarriesInitialData
        /\ connection' = connection /\ dial' = dial /\ pendingData' = pendingData
        /\ coalesceBuffer' = coalesceBuffer /\ coalesceScheduled' = coalesceScheduled
        /\ coalesceFlushInFlight' = coalesceFlushInFlight /\ sends' = sends
        /\ handedOver' = handedOver /\ pendingWrite' = pendingWrite
        /\ receiveInFlight' = receiveInFlight /\ receives' = receives
        /\ sndUsed' = sndUsed /\ toLwip' = toLwip /\ drainRetries' = drainRetries
        /\ uplinkDone' = uplinkDone /\ downlinkDone' = downlinkDone
        /\ sniffDeadline' = sniffDeadline /\ activityTimer' = activityTimer
        /\ hasActivity' = hasActivity /\ closed' = closed /\ misuse' = misuse
        /\ delivered' = delivered /\ recved' = recved /\ finSeen' = finSeen
        /\ remoteOpen' = remoteOpen /\ remoteSent' = remoteSent
        /\ remoteEof' = remoteEof /\ stray' = stray /\ queue' = queue
    BY <1>1, <2>1 DEF routeVars, upVars, downVars, taskVars, pcbVars
  <2>3. Sorted'
    BY <2>1, <2>2, Flags, SortedFacts DEF Sorted
  <2>4. Quiet
    BY <1>2, <2>2, <2>3, QuietShape, Zenon
  <2> QED
    BY <2>4, Zenon DEF Step
<1> QED
  BY <1>3, <1>4

LEMMA ActivityTimerShape ==
  ASSUME TypeOK, PcbInv, ActivityTimerTicks
  PROVE  Step
<1>1. /\ activityTimer # None
      /\ uplinkDone' = uplinkDone /\ downlinkDone' = downlinkDone
      /\ delivered' = delivered /\ recved' = recved /\ finSeen' = finSeen
      /\ remoteSent' = remoteSent /\ remoteEof' = remoteEof /\ stray' = stray /\ queue' = queue
  BY DEF ActivityTimerTicks, doneVars
<1>2. closed = FALSE
  BY <1>1, Flags, Zenon DEF PcbInv
<1>3. CASE ~hasActivity
  <2>1. close
    BY <1>3, Zenon DEF ActivityTimerTicks
  <2> QED
    BY <1>1, <1>2, <2>1, Sorts, Flags, SortedFacts, CloseShape, Zenon DEF Step
<1>4. CASE hasActivity
  <2>1. /\ hasActivity' = FALSE
        /\ UNCHANGED <<routeVars, upVars, downVars, handshakeTimer, sniffDeadline,
                       activityTimer, taskVars, pcbVars, toLwip, sndUsed, remoteOpen,
                       drainRetries, handedOver>>
    BY <1>4, Zenon DEF ActivityTimerTicks
  <2>2. /\ sniffing' = sniffing /\ bypass' = bypass /\ connecting' = connecting
        /\ handshakeCarriesInitialData' = handshakeCarriesInitialData
        /\ connection' = connection /\ dial' = dial /\ pendingData' = pendingData
        /\ coalesceBuffer' = coalesceBuffer /\ coalesceScheduled' = coalesceScheduled
        /\ coalesceFlushInFlight' = coalesceFlushInFlight /\ sends' = sends
        /\ handedOver' = handedOver /\ pendingWrite' = pendingWrite
        /\ receiveInFlight' = receiveInFlight /\ receives' = receives
        /\ sndUsed' = sndUsed /\ toLwip' = toLwip /\ drainRetries' = drainRetries
        /\ uplinkDone' = uplinkDone /\ downlinkDone' = downlinkDone
        /\ handshakeTimer' = handshakeTimer /\ sniffDeadline' = sniffDeadline
        /\ activityTimer' = activityTimer /\ closed' = closed /\ misuse' = misuse
        /\ delivered' = delivered /\ recved' = recved /\ finSeen' = finSeen
        /\ remoteOpen' = remoteOpen /\ remoteSent' = remoteSent
        /\ remoteEof' = remoteEof /\ stray' = stray /\ queue' = queue
    BY <1>1, <2>1 DEF routeVars, upVars, downVars, taskVars, pcbVars
  <2>3. Sorted'
    BY <2>1, <2>2, Flags, SortedFacts DEF Sorted
  <2>4. Quiet
    BY <1>2, <2>2, <2>3, QuietShape, Zenon
  <2> QED
    BY <2>4, Zenon DEF Step
<1> QED
  BY <1>3, <1>4

LEMMA SniffDeadlineShape ==
  ASSUME TypeOK, PcbInv, SniffDeadlineFires
  PROVE  Step
<1>1. /\ sniffDeadline /\ sniffing /\ sniffDeadline' = FALSE /\ sniffing' = FALSE
      /\ beginConnecting(bypass, handshakeCarriesInitialData, pendingData)
      /\ coalesceBuffer' = coalesceBuffer /\ coalesceScheduled' = coalesceScheduled
      /\ coalesceFlushInFlight' = coalesceFlushInFlight /\ sends' = sends
      /\ handedOver' = handedOver /\ pendingWrite' = pendingWrite
      /\ receiveInFlight' = receiveInFlight /\ receives' = receives
      /\ sndUsed' = sndUsed /\ toLwip' = toLwip /\ drainRetries' = drainRetries
      /\ uplinkDone' = uplinkDone /\ downlinkDone' = downlinkDone
      /\ handshakeTimer' = handshakeTimer /\ activityTimer' = activityTimer
      /\ hasActivity' = hasActivity /\ closed' = closed /\ misuse' = misuse
      /\ delivered' = delivered /\ recved' = recved /\ finSeen' = finSeen
      /\ remoteOpen' = remoteOpen /\ remoteSent' = remoteSent /\ remoteEof' = remoteEof
      /\ stray' = stray
      /\ queue' = queue
  BY DEF SniffDeadlineFires, downVars, doneVars, pcbVars, lwipVars, remoteVars
<1>2. /\ closed = FALSE /\ bypass \in BOOLEAN /\ handshakeCarriesInitialData \in BOOLEAN
      /\ sniffing = TRUE
  BY <1>1, Flags, SortedFacts DEF PcbInv
<1>3. Sorted'
  BY <1>1, <1>2, BeginFacts, Flags, SortedFacts DEF Sorted
<1>4. Stays
  BY <1>1, <1>2, <1>3, Zenon DEF Stays, PcbInv
<1>5. Commits(bypass, pendingData)
  BY <1>1, <1>2, <1>4, BeginFacts, Zenon
     DEF Commits, SameBuffer, SameSends, SameDown, SameLwip, SameReceive,
         SameRemote, SameTimer
<1> QED
  BY <1>2, <1>5, Queues, Zenon DEF Step

-----------------------------------------------------------------------------
(* The tasks. *)

\* A task that finds the connection closed.
LEMMA LateShape ==
  ASSUME TypeOK, PcbInv, closed = TRUE, queue # <<>>, queue' = Tail(queue),
         Head(queue).task # "connected" \/ remoteOpen' = FALSE,
         remoteOpen' = remoteOpen \/ remoteOpen' = FALSE,
         Sorted', coalesceBuffer' \in {coalesceBuffer, <<>>},
         {coalesceScheduled', coalesceFlushInFlight'} \subseteq BOOLEAN,
         /\ sniffing' = sniffing /\ bypass' = bypass /\ connecting' = connecting
         /\ connection' = connection /\ dial' = dial /\ pendingData' = pendingData
         /\ sends' = sends /\ handedOver' = handedOver /\ pendingWrite' = pendingWrite
         /\ receiveInFlight' = receiveInFlight /\ receives' = receives
         /\ sndUsed' = sndUsed /\ toLwip' = toLwip /\ drainRetries' = drainRetries
         /\ downlinkDone' = downlinkDone /\ handshakeTimer' = handshakeTimer
         /\ sniffDeadline' = sniffDeadline /\ activityTimer' = activityTimer
         /\ closed' = closed /\ misuse' = misuse /\ delivered' = delivered
         /\ recved' = recved /\ remoteSent' = remoteSent
  PROVE  Step
<1>1. drainRetries' \in Nat
  BY Numbers, Zenon
<1>2. AfterClose
  BY <1>1, Zenon
     DEF AfterClose, SameRoute, SameTimer, SameWindow, SameSends, SameReceive
<1> QED
  BY <1>2, Zenon DEF Step

LEMMA NoEffectShape ==
  ASSUME TypeOK, PcbInv, closed = TRUE, queue # <<>>, queue' = Tail(queue),
         Head(queue).task # "connected", NoEffect
  PROVE  Step
<1>1. /\ sniffing' = sniffing /\ bypass' = bypass /\ connecting' = connecting
      /\ handshakeCarriesInitialData' = handshakeCarriesInitialData
      /\ connection' = connection /\ dial' = dial /\ pendingData' = pendingData
      /\ coalesceBuffer' = coalesceBuffer /\ coalesceScheduled' = coalesceScheduled
      /\ coalesceFlushInFlight' = coalesceFlushInFlight /\ sends' = sends
      /\ handedOver' = handedOver /\ pendingWrite' = pendingWrite
      /\ receiveInFlight' = receiveInFlight /\ receives' = receives
      /\ sndUsed' = sndUsed /\ toLwip' = toLwip /\ drainRetries' = drainRetries
      /\ uplinkDone' = uplinkDone /\ downlinkDone' = downlinkDone
      /\ handshakeTimer' = handshakeTimer /\ sniffDeadline' = sniffDeadline
      /\ activityTimer' = activityTimer /\ hasActivity' = hasActivity
      /\ closed' = closed /\ misuse' = misuse /\ delivered' = delivered
      /\ recved' = recved /\ finSeen' = finSeen /\ remoteOpen' = remoteOpen
      /\ remoteSent' = remoteSent /\ remoteEof' = remoteEof /\ stray' = stray
  BY DEF NoEffect, routeVars, upVars, downVars, doneVars, timerVars, taskVars, pcbVars,
         lwipVars, remoteVars
<1>2. Sorted' /\ {coalesceScheduled', coalesceFlushInFlight'} \subseteq BOOLEAN
  BY <1>1, Flags, SortedFacts DEF Sorted
<1>3. coalesceBuffer' \in {coalesceBuffer, <<>>}
  BY <1>1
<1> QED
  BY <1>1, <1>2, <1>3, LateShape, Zenon

LEMMA AckShape ==
  ASSUME TypeOK, PcbInv, TaskAck
  PROVE  Step
<1>1. queue # <<>> /\ Head(queue).task = "ack" /\ queue' = Tail(queue)
  BY DEF TaskAck, Take, PopQueue
<1>2. CASE closed = TRUE
  <2>1. NoEffect
    BY <1>2, Zenon DEF TaskAck
  <2> QED
    BY <1>1, <1>2, <2>1, NoEffectShape
<1>3. CASE closed = FALSE
  <2>1. /\ Native /\ ackBytesToLwip(Head(queue).bytes)
        /\ UNCHANGED <<routeVars, upVars, downVars, doneVars, timerVars, taskVars,
                       closed, delivered, sndUsed, finSeen, toLwip, remoteVars,
                       drainRetries, handedOver>>
    BY <1>3, Zenon DEF TaskAck
  <2>2. /\ sniffing' = sniffing /\ bypass' = bypass /\ connecting' = connecting
        /\ handshakeCarriesInitialData' = handshakeCarriesInitialData
        /\ connection' = connection /\ dial' = dial /\ pendingData' = pendingData
        /\ coalesceBuffer' = coalesceBuffer /\ coalesceScheduled' = coalesceScheduled
        /\ coalesceFlushInFlight' = coalesceFlushInFlight /\ sends' = sends
        /\ handedOver' = handedOver /\ pendingWrite' = pendingWrite
        /\ receiveInFlight' = receiveInFlight /\ receives' = receives
        /\ sndUsed' = sndUsed /\ toLwip' = toLwip /\ drainRetries' = drainRetries
        /\ uplinkDone' = uplinkDone /\ downlinkDone' = downlinkDone
        /\ handshakeTimer' = handshakeTimer /\ sniffDeadline' = sniffDeadline
        /\ activityTimer' = activityTimer /\ hasActivity' = hasActivity
        /\ closed' = closed /\ delivered' = delivered /\ finSeen' = finSeen
        /\ remoteOpen' = remoteOpen /\ remoteSent' = remoteSent
        /\ remoteEof' = remoteEof /\ stray' = stray
    BY <2>1 DEF routeVars, upVars, downVars, doneVars, timerVars, taskVars, remoteVars
  <2>3. Sorted'
    BY <2>2, Flags, SortedFacts DEF Sorted
  <2>4. Stays
    BY <1>3, <2>1, <2>2, <2>3, Flags DEF Stays, PcbInv, Native
  <2>5. HeadIs({"ack"}) /\ recved' = recved + Head(queue).bytes
    BY <1>1, <2>1 DEF HeadIs, ackBytesToLwip
  <2> QED
    BY <2>2, <2>4, <2>5, Zenon
       DEF Step, Acks, SameRoute, SameUp, SameBuffer, SameSends, SameDown, SameLwip,
           SameReceive, SameRemote, SameTimer
<1> QED
  BY <1>2, <1>3, Flags

LEMMA FlushShape ==
  ASSUME TypeOK, PcbInv, queue # <<>>, queue' = Tail(queue), flushCoalesceBuffer,
         \/ Head(queue).task = "flush"
         \/ Head(queue).task = "flushDone" /\ closed = FALSE /\ coalesceBuffer # <<>>
  PROVE  Step
<1>1. /\ coalesceBuffer' = <<>> /\ coalesceScheduled' = FALSE
      /\ IF closed \/ coalesceBuffer = <<>> \/ connection = None
         THEN UNCHANGED <<sends, handedOver, coalesceFlushInFlight>>
         ELSE /\ coalesceFlushInFlight' = TRUE
              /\ LaunchSend(Coroutine("flush", Chunks(coalesceBuffer), 0))
      /\ UNCHANGED <<routeVars, pendingData, downVars, doneVars, timerVars, dial, receives,
                     pcbVars, lwipVars, remoteVars, drainRetries>>
  BY Zenon DEF flushCoalesceBuffer
<1>2. /\ sniffing' = sniffing /\ bypass' = bypass /\ connecting' = connecting
      /\ handshakeCarriesInitialData' = handshakeCarriesInitialData
      /\ connection' = connection /\ dial' = dial /\ pendingData' = pendingData
      /\ pendingWrite' = pendingWrite /\ receiveInFlight' = receiveInFlight
      /\ receives' = receives /\ sndUsed' = sndUsed /\ toLwip' = toLwip
      /\ drainRetries' = drainRetries /\ uplinkDone' = uplinkDone
      /\ downlinkDone' = downlinkDone /\ handshakeTimer' = handshakeTimer
      /\ sniffDeadline' = sniffDeadline /\ activityTimer' = activityTimer
      /\ hasActivity' = hasActivity /\ closed' = closed /\ misuse' = misuse
      /\ delivered' = delivered /\ recved' = recved /\ finSeen' = finSeen
      /\ remoteOpen' = remoteOpen /\ remoteSent' = remoteSent /\ remoteEof' = remoteEof
      /\ stray' = stray
  BY <1>1 DEF routeVars, downVars, doneVars, timerVars, pcbVars, lwipVars, remoteVars
<1>3. Sorted'
  BY <1>2, Flags, SortedFacts DEF Sorted
<1>4. CASE closed = TRUE
  <2>1. sends' = sends /\ handedOver' = handedOver
        /\ coalesceFlushInFlight' = coalesceFlushInFlight
    BY <1>1, <1>4
  <2>2. /\ {coalesceScheduled', coalesceFlushInFlight'} \subseteq BOOLEAN
        /\ coalesceBuffer' \in {coalesceBuffer, <<>>}
    BY <1>1, <2>1, Flags
  <2>3. Head(queue).task # "connected"
    OBVIOUS
  <2> QED
    BY <1>2, <1>3, <1>4, <2>1, <2>2, <2>3, LateShape, Zenon
<1>5. CASE closed = FALSE
  <2>1. Stays
    BY <1>2, <1>3, <1>5, Zenon DEF Stays, PcbInv
  <2>2. HeadIs({"flush", "flushDone"})
    BY DEF HeadIs
  <2>3. CASE coalesceBuffer # <<>> /\ connection # None
    <3>1. /\ coalesceFlushInFlight' = TRUE
          /\ LaunchSend(Coroutine("flush", Chunks(coalesceBuffer), 0))
      BY <1>1, <1>5, <2>3, Zenon
    <3>2. /\ sends' = Append(sends, Coroutine("flush", Chunks(coalesceBuffer), 0))
          /\ handedOver' = handedOver \o Head(Chunks(coalesceBuffer))
      BY <3>1 DEF LaunchSend, Coroutine
    <3> QED
      BY <1>1, <1>2, <2>1, <2>2, <2>3, <3>1, <3>2, Zenon
         DEF Step, Flushes, SameRoute, SameDown, SameLwip, SameReceive, SameRemote,
             SameTimer, SameWindow
  <2>4. CASE coalesceBuffer = <<>> \/ connection = None
    <3>1. sends' = sends /\ handedOver' = handedOver
          /\ coalesceFlushInFlight' = coalesceFlushInFlight
      BY <1>1, <2>4
    <3>2. \/ HeadIs({"flush"}) /\ coalesceBuffer = <<>>
          \/ HeadIs({"flush", "flushDone"}) /\ connection = None
      BY <2>2, <2>4 DEF HeadIs
    <3> QED
      BY <1>1, <1>2, <2>1, <3>1, <3>2, Zenon
         DEF Step, FlushesNothing, SameRoute, SameSends, SameDown, SameLwip, SameReceive,
             SameRemote, SameTimer, SameWindow
  <2> QED
    BY <2>3, <2>4
<1> QED
  BY <1>4, <1>5, Flags

LEMMA FlushDoneShape ==
  ASSUME TypeOK, PcbInv, TaskFlushDone
  PROVE  Step
<1>1. queue # <<>> /\ Head(queue).task = "flushDone" /\ queue' = Tail(queue)
  BY DEF TaskFlushDone, Take, PopQueue
<1>2. CASE ~closed /\ coalesceBuffer # <<>>
  <2>1. flushCoalesceBuffer
    BY <1>2, Zenon DEF TaskFlushDone
  <2>2. closed = FALSE
    BY <1>2, Flags
  <2> QED
    BY <1>1, <1>2, <2>1, <2>2, FlushShape, Zenon
<1>3. CASE ~(~closed /\ coalesceBuffer # <<>>)
  <2>1. /\ coalesceFlushInFlight' = FALSE
        /\ UNCHANGED <<routeVars, pendingData, coalesceBuffer, coalesceScheduled,
                       downVars, doneVars, timerVars, taskVars, pcbVars, lwipVars,
                       remoteVars, drainRetries, handedOver>>
    BY <1>3, Zenon DEF TaskFlushDone
  <2>2. /\ sniffing' = sniffing /\ bypass' = bypass /\ connecting' = connecting
        /\ handshakeCarriesInitialData' = handshakeCarriesInitialData
        /\ connection' = connection /\ dial' = dial /\ pendingData' = pendingData
        /\ coalesceBuffer' = coalesceBuffer /\ coalesceScheduled' = coalesceScheduled
        /\ sends' = sends /\ handedOver' = handedOver /\ pendingWrite' = pendingWrite
        /\ receiveInFlight' = receiveInFlight /\ receives' = receives
        /\ sndUsed' = sndUsed /\ toLwip' = toLwip /\ drainRetries' = drainRetries
        /\ uplinkDone' = uplinkDone /\ downlinkDone' = downlinkDone
        /\ handshakeTimer' = handshakeTimer /\ sniffDeadline' = sniffDeadline
        /\ activityTimer' = activityTimer /\ hasActivity' = hasActivity
        /\ closed' = closed /\ misuse' = misuse /\ delivered' = delivered
        /\ recved' = recved /\ finSeen' = finSeen /\ remoteOpen' = remoteOpen
        /\ remoteSent' = remoteSent /\ remoteEof' = remoteEof /\ stray' = stray
    BY <2>1 DEF routeVars, downVars, doneVars, timerVars, taskVars, pcbVars, lwipVars,
                remoteVars
  <2>3. Sorted'
    BY <2>2, Flags, SortedFacts DEF Sorted
  <2>4. CASE closed = TRUE
    <3>1. /\ {coalesceScheduled', coalesceFlushInFlight'} \subseteq BOOLEAN
          /\ coalesceBuffer' \in {coalesceBuffer, <<>>}
          /\ Head(queue).task # "connected"
      BY <1>1, <2>1, <2>2, Flags
    <3> QED
      BY <1>1, <2>2, <2>3, <2>4, <3>1, LateShape, Zenon
  <2>5. CASE closed = FALSE
    <3>1. coalesceBuffer = <<>>
      BY <1>3, <2>5
    <3>2. Stays
      BY <2>2, <2>3, <2>5, Zenon DEF Stays, PcbInv
    <3>3. HeadIs({"flushDone"})
      BY <1>1 DEF HeadIs
    <3> QED
      BY <2>1, <2>2, <3>1, <3>2, <3>3, Zenon
         DEF Step, FlushOver, SameRoute, SameSends, SameDown, SameLwip, SameReceive,
             SameRemote, SameTimer, SameWindow
  <2> QED
    BY <2>4, <2>5, Flags
<1> QED
  BY <1>2, <1>3

LEMMA FailureShape ==
  ASSUME TypeOK, PcbInv, TaskSendFailed \/ TaskConnectFailed
  PROVE  Step
<1>1. /\ queue # <<>> /\ Head(queue).task \in {"sendFailed", "connectFailed"}
      /\ queue' = Tail(queue)
  BY DEF TaskSendFailed, TaskConnectFailed, Take, PopQueue
<1>2. CASE closed = TRUE
  <2>1. NoEffect
    BY <1>2, Zenon DEF TaskSendFailed, TaskConnectFailed
  <2>2. Head(queue).task # "connected"
    BY <1>1
  <2> QED
    BY <1>1, <1>2, <2>1, <2>2, NoEffectShape
<1>3. CASE closed = FALSE
  <2>1. /\ abort
        /\ UNCHANGED <<doneVars, delivered, recved, finSeen, remoteSent, remoteEof, stray>>
    BY <1>3, Zenon DEF TaskSendFailed, TaskConnectFailed
  <2>2. /\ uplinkDone' = uplinkDone /\ downlinkDone' = downlinkDone
        /\ delivered' = delivered /\ recved' = recved /\ finSeen' = finSeen
        /\ remoteSent' = remoteSent /\ remoteEof' = remoteEof /\ stray' = stray
    BY <2>1 DEF doneVars
  <2>3. HeadIs({"sendFailed", "connectFailed", "received"})
    BY <1>1 DEF HeadIs
  <2> QED
    BY <1>3, <2>1, <2>2, <2>3, Sorts, Flags, SortedFacts, AbortShape, Zenon DEF Step
<1> QED
  BY <1>2, <1>3, Flags

LEMMA TooLateShape ==
  ASSUME TypeOK, PcbInv, TaskConnectedTooLate
  PROVE  Step
<1>1. /\ queue # <<>> /\ queue' = Tail(queue) /\ closed = TRUE /\ remoteOpen' = FALSE
  BY Flags DEF TaskConnectedTooLate, Take, PopQueue
<1>2. /\ sniffing' = sniffing /\ bypass' = bypass /\ connecting' = connecting
      /\ handshakeCarriesInitialData' = handshakeCarriesInitialData
      /\ connection' = connection /\ dial' = dial /\ pendingData' = pendingData
      /\ coalesceBuffer' = coalesceBuffer /\ coalesceScheduled' = coalesceScheduled
      /\ coalesceFlushInFlight' = coalesceFlushInFlight /\ sends' = sends
      /\ handedOver' = handedOver /\ pendingWrite' = pendingWrite
      /\ receiveInFlight' = receiveInFlight /\ receives' = receives
      /\ sndUsed' = sndUsed /\ toLwip' = toLwip /\ drainRetries' = drainRetries
      /\ uplinkDone' = uplinkDone /\ downlinkDone' = downlinkDone
      /\ handshakeTimer' = handshakeTimer /\ sniffDeadline' = sniffDeadline
      /\ activityTimer' = activityTimer /\ hasActivity' = hasActivity
      /\ closed' = closed /\ misuse' = misuse /\ delivered' = delivered
      /\ recved' = recved /\ finSeen' = finSeen /\ remoteSent' = remoteSent
      /\ remoteEof' = remoteEof /\ stray' = stray
  BY DEF TaskConnectedTooLate, routeVars, upVars, downVars, doneVars, timerVars, taskVars,
         pcbVars, lwipVars
<1>3. Sorted' /\ {coalesceScheduled', coalesceFlushInFlight'} \subseteq BOOLEAN
  BY <1>2, Flags, SortedFacts DEF Sorted
<1>4. coalesceBuffer' \in {coalesceBuffer, <<>>}
  BY <1>2
<1> QED
  BY <1>1, <1>2, <1>3, <1>4, LateShape, Zenon

LEMMA ConnectsShape ==
  ASSUME TypeOK, PcbInv, TaskConnected
  PROVE  Step
<1> DEFINE initial == Head(queue).initialData
           chunks == OpeningChunks(initial)
           total == Len(initial) + Len(pendingData)
<1> USE DEF OpeningChunks
<1>1. /\ queue # <<>> /\ Head(queue).task = "connected" /\ queue' = Tail(queue)
      /\ ~closed /\ connecting' = None /\ connection' = Head(queue).kind
      /\ handshakeTimer' = FALSE /\ activityTimer' = "idle" /\ hasActivity' = FALSE
      /\ pendingData' = <<>>
      /\ tryArmReceive(pendingWrite, receiveInFlight)
  BY Zenon DEF TaskConnected, Take, PopQueue, StartActivityTimer
<1>2. IF chunks # <<>>
      THEN LaunchSend(Coroutine("initial", chunks, total)) /\ NoNative /\ UNCHANGED recved
      ELSE /\ UNCHANGED <<sends, handedOver>>
           /\ IF initial # <<>> THEN Native /\ ackBytesToLwip(Len(initial))
              ELSE NoNative /\ UNCHANGED recved
  BY Zenon DEF TaskConnected
<1>3. /\ sniffing' = sniffing /\ bypass' = bypass
      /\ handshakeCarriesInitialData' = handshakeCarriesInitialData /\ dial' = dial
      /\ coalesceBuffer' = coalesceBuffer /\ coalesceScheduled' = coalesceScheduled
      /\ coalesceFlushInFlight' = coalesceFlushInFlight /\ pendingWrite' = pendingWrite
      /\ sndUsed' = sndUsed /\ toLwip' = toLwip /\ drainRetries' = drainRetries
      /\ uplinkDone' = uplinkDone /\ downlinkDone' = downlinkDone
      /\ sniffDeadline' = sniffDeadline /\ closed' = closed /\ delivered' = delivered
      /\ finSeen' = finSeen /\ remoteOpen' = remoteOpen /\ remoteSent' = remoteSent
      /\ remoteEof' = remoteEof /\ stray' = stray
  BY DEF TaskConnected, doneVars, remoteVars
<1> HIDE DEF OpeningChunks
<1>4. closed = FALSE
  BY <1>1, Flags
<1>5. misuse' = FALSE
  <2>1. Native \/ NoNative
    BY <1>2, Zenon
  <2> QED
    BY <2>1, <1>4, Flags DEF Native, NoNative, PcbInv
<1>6. Sorted'
  BY <1>1, <1>3, Flags, SortedFacts DEF Sorted
<1>7. Stays
  BY <1>3, <1>4, <1>5, <1>6, Zenon DEF Stays
<1>8. Arms(pendingWrite, receiveInFlight)
  <2>1. receiveInFlight \in BOOLEAN /\ Len(pendingWrite) \in Nat
    BY Flags, Queues, LenProperties
  <2>2. CASE receiveInFlight \/ Len(pendingWrite) >= drainLowWaterMark
    <3>1. receiveInFlight' = receiveInFlight /\ receives' = receives
      BY <1>1, <2>2, Zenon DEF tryArmReceive
    <3>2. receiveInFlight = TRUE \/ Len(pendingWrite) >= drainLowWaterMark
      BY <2>1, <2>2, Zenon
    <3> QED
      BY <3>1, <3>2, Zenon DEF Arms
  <2>3. CASE ~(receiveInFlight \/ Len(pendingWrite) >= drainLowWaterMark)
    <3>1. receiveInFlight' = TRUE /\ receives' = receives + 1
      BY <1>1, <2>3, Zenon DEF tryArmReceive
    <3>2. receiveInFlight = FALSE /\ ~(Len(pendingWrite) >= drainLowWaterMark)
      BY <2>1, <2>3, Zenon
    <3>3. Len(pendingWrite) < drainLowWaterMark
      BY <2>1, <3>2, Sizes
    <3> QED
      BY <3>1, <3>2, <3>3, Zenon DEF Arms
  <2> QED
    BY <2>2, <2>3
<1>9. HeadIs({"connected"})
  BY <1>1 DEF HeadIs
<1>10. \/ /\ chunks # <<>> /\ recved' = recved
          /\ sends' = Append(sends, Coroutine("initial", chunks, total))
          /\ handedOver' = handedOver \o Head(chunks)
       \/ chunks = <<>> /\ recved' = recved + Len(initial) /\ SameSends
  <2>1. CASE chunks # <<>>
    <3>1. LaunchSend(Coroutine("initial", chunks, total)) /\ recved' = recved
      BY <1>2, <2>1, Zenon
    <3>2. Coroutine("initial", chunks, total).chunks = chunks
      BY DEF Coroutine
    <3> QED
      BY <2>1, <3>1, <3>2, Zenon DEF LaunchSend
  <2>2. CASE chunks = <<>>
    <3>1. /\ UNCHANGED <<sends, handedOver>>
          /\ IF initial # <<>> THEN Native /\ ackBytesToLwip(Len(initial))
             ELSE NoNative /\ UNCHANGED recved
      BY <1>2, <2>2, Zenon
    <3>2. SameSends
      BY <3>1 DEF SameSends
    <3>3. recved' = recved + Len(initial)
      <4>1. CASE initial # <<>>
        BY <3>1, <4>1, Zenon DEF ackBytesToLwip
      <4>2. CASE initial = <<>>
        <5>1. Len(initial) = 0 /\ recved' = recved /\ recved \in Nat
          BY <3>1, <4>2, Numbers
        <5> QED
          BY <5>1
      <4> QED
        BY <4>1, <4>2
    <3> QED
      BY <2>2, <3>2, <3>3, Zenon
  <2> QED
    BY <2>1, <2>2
<1>11. Connects(initial)
  BY <1>1, <1>3, <1>7, <1>8, <1>9, <1>10, Zenon
     DEF Connects, SameBuffer, SameLwip, SameRemote, SameSends
<1> QED
  BY <1>11, Zenon DEF Step

LEMMA DeliversShape ==
  ASSUME TypeOK, PcbInv, TaskReceivedData
  PROVE  Step
<1>1. /\ queue # <<>> /\ Head(queue).task = "received" /\ queue' = Tail(queue)
  BY DEF TaskReceivedData, Take, PopQueue
<1>2. CASE closed = TRUE
  <2>1. NoEffect
    BY <1>2, Zenon DEF TaskReceivedData
  <2> QED
    BY <1>1, <1>2, <2>1, NoEffectShape
<1>3. CASE closed = FALSE
  <2> DEFINE pw == pendingWrite \o Head(queue).data
  <2>1. /\ Head(queue).outcome = "data"
        /\ \/ DrainFeeds(pw, FALSE, sndUsed, drainRetries) /\ noteActivity
           \/ DrainFatal(pw, sndUsed, drainRetries)
        /\ UNCHANGED <<doneVars, delivered, recved, finSeen, remoteSent, remoteEof, stray>>
    BY <1>3, Zenon DEF TaskReceivedData
  <2>2. /\ uplinkDone' = uplinkDone /\ downlinkDone' = downlinkDone
        /\ delivered' = delivered /\ recved' = recved /\ finSeen' = finSeen
        /\ remoteSent' = remoteSent /\ remoteEof' = remoteEof /\ stray' = stray
    BY <2>1 DEF doneVars
  <2>3. pw \in Seq(1..MaxDown) /\ FALSE \in BOOLEAN
    <3>1. Head(queue).data \in Seq(1..MaxDown)
      BY <1>1, HeadSorts, TaskSorts, Zenon
    <3> QED
      BY <3>1, Queues, ConcatProperties
  <2>4. sndUsed \in Nat /\ sndUsed <= TCP_SND_BUF /\ drainRetries \in Nat
    BY Numbers
  <2>5. HeadIs({"received"}) /\ HeadIs({"sendFailed", "connectFailed", "received"})
    BY <1>1 DEF HeadIs
  <2>6. CASE DrainFeeds(pw, FALSE, sndUsed, drainRetries) /\ noteActivity
    <3>1. hasActivity' \in BOOLEAN
      BY <2>6 DEF noteActivity
    <3>2. PICK k \in Nat : Drains(pw, FALSE, sndUsed, drainRetries, k)
      BY <1>3, <2>2, <2>3, <2>4, <2>6, <3>1, DrainShape, Zenon
    <3>3. Delivers(k)
      BY <2>1, <2>5, <3>2, Zenon DEF Delivers
    <3> QED
      BY <3>3, Zenon DEF Step
  <2>7. CASE DrainFatal(pw, sndUsed, drainRetries)
    BY <1>3, <2>2, <2>4, <2>5, <2>7, FatalShape, Zenon DEF Step
  <2> QED
    BY <2>1, <2>6, <2>7, Zenon
<1> QED
  BY <1>2, <1>3, Flags

LEMMA EofShape ==
  ASSUME TypeOK, PcbInv, TaskReceivedEof
  PROVE  Step
<1>1. /\ queue # <<>> /\ Head(queue).task = "received" /\ queue' = Tail(queue)
      /\ ~closed /\ Head(queue).outcome = "eof" /\ downlinkDone' = TRUE
      /\ uplinkDone' = uplinkDone /\ delivered' = delivered /\ recved' = recved
      /\ finSeen' = finSeen /\ remoteSent' = remoteSent /\ remoteEof' = remoteEof /\ stray' = stray
  BY DEF TaskReceivedEof, EndDownlink, Take, PopQueue
<1>2. closed = FALSE /\ downlinkDone' \in BOOLEAN
  BY <1>1, Flags
<1>3. HeadIs({"received"}) /\ HeadIs({"sendFailed", "connectFailed", "received"})
  BY <1>1 DEF HeadIs
<1>4. CASE close
  BY <1>1, <1>2, <1>3, <1>4, Sorts, Flags, SortedFacts, CloseShape, Zenon DEF Step
<1>5. CASE /\ activityTimer' = "uplinkOnly"
           /\ receiveInFlight' = FALSE
           /\ UNCHANGED <<routeVars, upVars, pendingWrite, handshakeTimer, sniffDeadline,
                          hasActivity, taskVars, pcbVars, toLwip, sndUsed, remoteOpen,
                          drainRetries, handedOver>>
  <2>1. /\ sniffing' = sniffing /\ bypass' = bypass /\ connecting' = connecting
        /\ handshakeCarriesInitialData' = handshakeCarriesInitialData
        /\ connection' = connection /\ dial' = dial /\ pendingData' = pendingData
        /\ coalesceBuffer' = coalesceBuffer /\ coalesceScheduled' = coalesceScheduled
        /\ coalesceFlushInFlight' = coalesceFlushInFlight /\ sends' = sends
        /\ handedOver' = handedOver /\ pendingWrite' = pendingWrite
        /\ receives' = receives /\ sndUsed' = sndUsed /\ toLwip' = toLwip
        /\ drainRetries' = drainRetries /\ uplinkDone' = uplinkDone
        /\ handshakeTimer' = handshakeTimer /\ sniffDeadline' = sniffDeadline
        /\ hasActivity' = hasActivity /\ closed' = closed /\ misuse' = misuse
        /\ delivered' = delivered /\ recved' = recved /\ finSeen' = finSeen
        /\ remoteOpen' = remoteOpen /\ remoteSent' = remoteSent
        /\ remoteEof' = remoteEof /\ stray' = stray
    BY <1>1, <1>5 DEF routeVars, upVars, taskVars, pcbVars
  <2>2. Sorted'
    BY <2>1, Flags, SortedFacts DEF Sorted
  <2>3. Stays
    BY <1>2, <2>1, <2>2, Zenon DEF Stays, PcbInv
  <2> QED
    BY <1>1, <1>3, <1>5, <2>1, <2>3, Zenon
       DEF Step, DownlinkEnds, SameRoute, SameUp, SameBuffer, SameSends, SameLwip,
           SameRemote, SameWindow
<1> QED
  BY <1>4, <1>5, Zenon DEF TaskReceivedEof, EndDownlink

LEMMA ReceiveErrorShape ==
  ASSUME TypeOK, PcbInv, TaskReceiveError
  PROVE  Step
<1>1. /\ queue # <<>> /\ Head(queue).task = "received" /\ queue' = Tail(queue)
      /\ ~closed /\ abort
      /\ uplinkDone' = uplinkDone /\ downlinkDone' = downlinkDone
      /\ delivered' = delivered /\ recved' = recved /\ finSeen' = finSeen
      /\ remoteSent' = remoteSent /\ remoteEof' = remoteEof /\ stray' = stray
  BY DEF TaskReceiveError, Take, PopQueue, doneVars
<1>2. closed = FALSE
  BY <1>1, Flags
<1>3. HeadIs({"sendFailed", "connectFailed", "received"})
  BY <1>1 DEF HeadIs
<1> QED
  BY <1>1, <1>2, <1>3, Sorts, Flags, SortedFacts, AbortShape, Zenon DEF Step

LEMMA StutterShape ==
  ASSUME TypeOK, PcbInv, UNCHANGED vars
  PROVE  Step
<1>1. /\ sniffing' = sniffing /\ bypass' = bypass /\ connecting' = connecting
      /\ handshakeCarriesInitialData' = handshakeCarriesInitialData
      /\ connection' = connection /\ dial' = dial /\ pendingData' = pendingData
      /\ coalesceBuffer' = coalesceBuffer /\ coalesceScheduled' = coalesceScheduled
      /\ coalesceFlushInFlight' = coalesceFlushInFlight /\ sends' = sends
      /\ handedOver' = handedOver /\ pendingWrite' = pendingWrite
      /\ receiveInFlight' = receiveInFlight /\ receives' = receives
      /\ sndUsed' = sndUsed /\ toLwip' = toLwip /\ drainRetries' = drainRetries
      /\ uplinkDone' = uplinkDone /\ downlinkDone' = downlinkDone
      /\ handshakeTimer' = handshakeTimer /\ sniffDeadline' = sniffDeadline
      /\ activityTimer' = activityTimer /\ hasActivity' = hasActivity
      /\ closed' = closed /\ misuse' = misuse /\ delivered' = delivered
      /\ recved' = recved /\ finSeen' = finSeen /\ remoteOpen' = remoteOpen
      /\ remoteSent' = remoteSent /\ remoteEof' = remoteEof /\ stray' = stray /\ queue' = queue
  BY DEF vars, routeVars, upVars, downVars, doneVars, timerVars, taskVars, pcbVars,
         lwipVars, remoteVars
<1>2. Sorted' /\ {coalesceScheduled', coalesceFlushInFlight'} \subseteq BOOLEAN
  BY <1>1, Flags, SortedFacts DEF Sorted
<1>3. CASE closed = FALSE
  BY <1>1, <1>2, <1>3, QuietShape, Zenon DEF Step
<1>4. CASE closed = TRUE
  <2>1. coalesceBuffer' \in {coalesceBuffer, <<>>} /\ drainRetries' \in Nat
    BY <1>1, Numbers
  <2> QED
    BY <1>1, <1>2, <1>4, <2>1, Zenon
       DEF Step, AfterClose, SameRoute, SameTimer, SameWindow, SameSends, SameReceive
<1> QED
  BY <1>3, <1>4, Flags

LEMMA StepShape ==
  ASSUME TypeOK, PcbInv, [Next]_vars
  PROVE  Step
<1>1. CASE Callback
  BY <1>1, ReceivedDataShape, RemoteCloseShape, SentShape, ErrorShape, Zenon DEF Callback
<1>2. CASE Network
  BY <1>2, DialHopShape, DialOpensShape, DialEndsShape, SendDoneShape, SendLostShape, ArrivesShape, Zenon
     DEF Network
<1>3. CASE Timer
  BY <1>3, HandshakeTimerShape, SniffDeadlineShape, ActivityTimerShape, RetryShape, Zenon
     DEF Timer
<1>4. CASE RunTask
  <2>1. CASE TaskFlush
    <3>1. queue # <<>> /\ Head(queue).task = "flush" /\ queue' = Tail(queue)
          /\ flushCoalesceBuffer
      BY <2>1 DEF TaskFlush, Take, PopQueue
    <3> QED
      BY <3>1, FlushShape, Zenon
  <2> QED
    BY <1>4, <2>1, AckShape, FlushDoneShape, FailureShape, TooLateShape, ConnectsShape,
       DeliversShape, EofShape, ReceiveErrorShape, Zenon DEF RunTask
<1>5. CASE UNCHANGED vars
  BY <1>5, StutterShape
<1> QED
  BY <1>1, <1>2, <1>3, <1>4, <1>5, Zenon DEF Next

-----------------------------------------------------------------------------
(* Type correctness, group by group of variables. *)

RouteSort ==
  /\ sniffing \in BOOLEAN /\ bypass \in BOOLEAN
  /\ connecting \in {None, "direct", "proxy"} /\ connection \in {None, "direct", "proxy"}
  /\ dial \in [kind : {None, "direct", "proxy"}, initialData : Seq(1..MaxUp)]
BufferSort ==
  /\ coalesceBuffer \in Seq(1..MaxUp)
  /\ coalesceScheduled \in BOOLEAN /\ coalesceFlushInFlight \in BOOLEAN
SendSort == sends \in Seq(SendRecord) /\ handedOver \in Seq(1..MaxUp)
LwipSort ==
  /\ pendingWrite \in Seq(1..MaxDown) /\ toLwip \in Seq(1..MaxDown)
  /\ sndUsed \in 0..TCP_SND_BUF /\ drainRetries \in Nat
ReceiveSort == receiveInFlight \in BOOLEAN /\ receives \in Nat
RemoteSort == remoteOpen \in BOOLEAN /\ remoteSent \in 0..MaxDown
TimerSort ==
  downlinkDone \in BOOLEAN /\ activityTimer \in {None, "idle", "uplinkOnly", "downlinkOnly"}
WindowSort == delivered \in 0..MaxUp /\ recved \in Nat
PcbSort == closed \in BOOLEAN /\ misuse \in BOOLEAN
PendingSort == pendingData \in Seq(1..MaxUp)
QueueSort == queue \in Seq(TaskRecord)

LEMMA TypeParts ==
  TypeOK <=> /\ RouteSort /\ BufferSort /\ SendSort /\ LwipSort /\ ReceiveSort
             /\ RemoteSort /\ TimerSort /\ WindowSort /\ PcbSort /\ PendingSort
             /\ QueueSort /\ Sorted
BY DEF TypeOK, Sorted, RouteSort, BufferSort, SendSort, LwipSort, ReceiveSort, RemoteSort,
       TimerSort, WindowSort, PcbSort, PendingSort, QueueSort

LEMMA TypePartsNext ==
  ASSUME RouteSort', BufferSort', SendSort', LwipSort', ReceiveSort', RemoteSort',
         TimerSort', WindowSort', PcbSort', PendingSort', QueueSort', Sorted'
  PROVE  TypeOK'
BY DEF TypeOK, Sorted, RouteSort, BufferSort, SendSort, LwipSort, ReceiveSort, RemoteSort,
       TimerSort, WindowSort, PcbSort, PendingSort, QueueSort

LEMMA SameSorts ==
  ASSUME TypeOK
  PROVE  /\ SameRoute => RouteSort'
         /\ SameBuffer => BufferSort'
         /\ SameSends => SendSort'
         /\ SameLwip => LwipSort'
         /\ SameReceive => ReceiveSort'
         /\ SameRemote => RemoteSort'
         /\ SameTimer => TimerSort'
         /\ SameWindow => WindowSort'
         /\ pendingData' = pendingData => PendingSort'
         /\ queue' = queue => QueueSort'
         /\ Stays => PcbSort' /\ Sorted'
<1>1. SameRoute => RouteSort'
  BY TypeParts, Zenon DEF SameRoute, RouteSort
<1>2. SameBuffer => BufferSort'
  BY TypeParts, Zenon DEF SameBuffer, BufferSort
<1>3. SameSends => SendSort'
  BY TypeParts, Zenon DEF SameSends, SendSort
<1>4. SameLwip => LwipSort'
  BY TypeParts, Zenon DEF SameLwip, LwipSort
<1>5. SameReceive => ReceiveSort'
  BY TypeParts, Zenon DEF SameReceive, ReceiveSort
<1>6. SameRemote => RemoteSort'
  BY TypeParts, Zenon DEF SameRemote, RemoteSort
<1>7. SameTimer => TimerSort'
  BY TypeParts, Zenon DEF SameTimer, TimerSort
<1>8. SameWindow => WindowSort'
  BY TypeParts, Zenon DEF SameWindow, WindowSort
<1>9. pendingData' = pendingData => PendingSort'
  BY TypeParts, Zenon DEF PendingSort
<1>10. queue' = queue => QueueSort'
  BY TypeParts, Zenon DEF QueueSort
<1>11. Stays => PcbSort' /\ Sorted'
  BY Zenon DEF Stays, PcbSort
<1> QED
  BY <1>1, <1>2, <1>3, <1>4, <1>5, <1>6, <1>7, <1>8, <1>9, <1>10, <1>11, Zenon

LEMMA QueueSorts ==
  ASSUME TypeOK
  PROVE  /\ \A kinds : HeadIs(kinds) => QueueSort'
         /\ \A t \in TaskRecord : queue' = Append(queue, t) => QueueSort'
<1>1. queue \in Seq(TaskRecord)
  BY Sorts
<1>2. ASSUME NEW kinds, HeadIs(kinds) PROVE QueueSort'
  <2>1. queue # <<>> /\ queue' = Tail(queue)
    BY <1>2 DEF HeadIs
  <2> QED
    BY <1>1, <2>1, HeadTailProperties DEF QueueSort
<1>3. ASSUME NEW t \in TaskRecord, queue' = Append(queue, t) PROVE QueueSort'
  BY <1>1, <1>3, AppendProperties DEF QueueSort
<1> QED
  BY <1>2, <1>3

-----------------------------------------------------------------------------
(* What one flush cuts the coalescing buffer into. *)

LEMMA Ceiling ==
  ASSUME NEW L \in Nat, L > 0, NEW M \in Nat, M > 0
  PROVE  /\ (L + M - 1) \div M \in Nat /\ (L + M - 1) \div M >= 1
         /\ L <= ((L + M - 1) \div M) * M
         /\ (((L + M - 1) \div M) - 1) * M < L
<1> DEFINE x == L + M - 1
           q == x \div M
           r == x % M
<1>1. x \in Nat
  OBVIOUS
<1>2. r \in 0..M - 1 /\ q \in Int /\ x = M * q + r
  BY <1>1
<1>3. L + M - 1 = q * M + r
  BY <1>2
<1> HIDE DEF x, q, r
<1>4. (q - 1) * M = q * M - M
  BY <1>2
<1>5. L <= q * M /\ (q - 1) * M < L
  BY <1>2, <1>3, <1>4
<1>6. q >= 1
  <2> SUFFICES ASSUME q <= 0 PROVE FALSE
    BY <1>2
  <2>1. PICK k \in Nat : q = 0 - k
    <3>1. 0 - q \in Nat /\ q = 0 - (0 - q)
      BY <1>2
    <3> QED
      BY <3>1
  <2>2. q * M = 0 - k * M /\ k * M \in Nat
    BY <2>1
  <2> QED
    BY <1>5, <2>2
<1> QED
  BY <1>2, <1>5, <1>6 DEF q, x

LEMMA Monotone ==
  ASSUME NEW i \in Nat, NEW n \in Nat, i <= n, NEW M \in Nat
  PROVE  i * M \in Nat /\ n * M \in Nat /\ i * M <= n * M
<1>1. PICK k \in Nat : n = i + k
  <2>1. n - i \in Nat /\ n = i + (n - i)
    OBVIOUS
  <2> QED
    BY <2>1
<1>2. n * M = i * M + k * M /\ k * M \in Nat /\ i * M \in Nat
  BY <1>1
<1> QED
  BY <1>2

(* The chunks cover the buffer without a gap: chunk i is the part between  *)
(* the offsets e[i-1] and e[i], and none is empty.                         *)
Cut(buf, chunks, e) ==
  /\ e \in [0..Len(chunks) -> Nat] /\ e[0] = 0 /\ e[Len(chunks)] = Len(buf)
  /\ \A i \in 1..Len(chunks) :
       /\ e[i - 1] < e[i] /\ e[i] <= Len(buf)
       /\ Len(chunks[i]) = e[i] - e[i - 1]
       /\ \A k \in 1..Len(chunks[i]) : chunks[i][k] = buf[e[i - 1] + k]

LEMMA ChunksCut ==
  ASSUME NEW buf \in Seq(1..MaxUp), buf # <<>>
  PROVE  /\ Chunks(buf) \in Seq(Seq(1..MaxUp)) /\ Len(Chunks(buf)) >= 1
         /\ \E e : Cut(buf, Chunks(buf), e)
<1> DEFINE M == tcpMaxCoalesceSize
           L == Len(buf)
           n == (L + M - 1) \div M
<1>1. M \in Nat /\ M > 0 /\ L \in Nat /\ L > 0
  BY Sizes, LenProperties, EmptySeq
<1>2. n \in Nat /\ n >= 1 /\ L <= n * M /\ (n - 1) * M < L
  BY <1>1, Ceiling
<1> HIDE DEF n
<1>3. Chunks(buf) = [i \in 1..n |-> SubSeq(buf, (i - 1) * M + 1, Minimum(i * M, L))]
  BY DEF Chunks, n
<1> DEFINE f(i) == Minimum(i * M, L)
           e == [i \in 0..n |-> f(i)]
<1>4. \A i \in 0..n : i * M \in Nat /\ f(i) \in Nat /\ f(i) <= L
  <2> SUFFICES ASSUME NEW i \in 0..n PROVE i * M \in Nat /\ f(i) \in Nat /\ f(i) <= L
    OBVIOUS
  <2>1. i \in Nat
    BY <1>2
  <2>2. i * M \in Nat
    BY <1>1, <2>1
  <2> QED
    BY <1>1, <2>2 DEF Minimum
<1>5. f(0) = 0 /\ f(n) = L
  <2>1. 0 * M = 0
    BY <1>1
  <2>2. n * M \in Nat
    BY <1>2, <1>4
  <2> QED
    BY <1>1, <1>2, <2>1, <2>2 DEF Minimum
<1>6. \A i \in 1..n : f(i - 1) = (i - 1) * M /\ f(i - 1) < f(i) /\ f(i - 1) \in Nat
  <2> SUFFICES ASSUME NEW i \in 1..n
               PROVE  f(i - 1) = (i - 1) * M /\ f(i - 1) < f(i) /\ f(i - 1) \in Nat
    OBVIOUS
  <2> DEFINE a == (i - 1) * M
             b == i * M
             z == (n - 1) * M
  <2>1. i - 1 \in Nat /\ n - 1 \in Nat /\ i - 1 <= n - 1 /\ i - 1 \in 0..n /\ i \in 0..n
    BY <1>2
  <2>2. a \in Nat /\ z \in Nat /\ a <= z
    BY <1>1, <2>1, Monotone
  <2>3. b \in Nat
    BY <1>4, <2>1
  <2>4. b = a + M
    BY <1>1, <2>1
  <2> HIDE DEF a, b, z
  <2>5. z < L
    BY <1>2 DEF z
  <2>6. Minimum(a, L) = a /\ a < Minimum(b, L)
    BY <1>1, <2>2, <2>3, <2>4, <2>5 DEF Minimum
  <2> QED
    BY <2>2, <2>6 DEF a, b
<1> HIDE DEF f
<1>7. \A i \in 1..n : LET c == SubSeq(buf, f(i - 1) + 1, f(i))
                      IN  /\ c \in Seq(1..MaxUp) /\ Len(c) = f(i) - f(i - 1)
                          /\ \A k \in 1..Len(c) : c[k] = buf[f(i - 1) + k]
  <2> SUFFICES ASSUME NEW i \in 1..n
               PROVE  LET c == SubSeq(buf, f(i - 1) + 1, f(i))
                      IN  /\ c \in Seq(1..MaxUp) /\ Len(c) = f(i) - f(i - 1)
                          /\ \A k \in 1..Len(c) : c[k] = buf[f(i - 1) + k]
    OBVIOUS
  <2> DEFINE a == f(i - 1)
             b == f(i)
  <2>1. a \in Nat /\ b \in Nat /\ a < b /\ b <= L
    <3>1. i \in 0..n
      BY <1>2
    <3> QED
      BY <1>4, <1>6, <3>1
  <2> HIDE DEF a, b
  <2>2. \A k \in a + 1..b : buf[k] \in 1..MaxUp
    <3>1. \A k \in a + 1..b : k \in 1..L
      BY <1>1, <2>1
    <3> QED
      BY <3>1, ElementOfSeq
  <2>3. /\ SubSeq(buf, a + 1, b) \in Seq(1..MaxUp)
        /\ Len(SubSeq(buf, a + 1, b)) = b - a
        /\ \A k \in 1..b - a : SubSeq(buf, a + 1, b)[k] = buf[a + k]
    <3>1. a + 1 \in Int /\ b \in Int /\ a + 1 <= b
      BY <2>1
    <3>2. /\ SubSeq(buf, a + 1, b) \in Seq(1..MaxUp)
          /\ Len(SubSeq(buf, a + 1, b)) = IF a + 1 <= b THEN b - (a + 1) + 1 ELSE 0
          /\ \A k \in 1..b - (a + 1) + 1 : SubSeq(buf, a + 1, b)[k] = buf[(a + 1) + k - 1]
      BY <2>2, <3>1, SubSeqProperties
    <3> QED
      BY <2>1, <3>1, <3>2
  <2> QED
    BY <2>3 DEF a, b
<1>8. Chunks(buf) = [i \in 1..n |-> SubSeq(buf, f(i - 1) + 1, f(i))]
  <2>1. \A i \in 1..n : f(i - 1) = (i - 1) * M /\ f(i) = Minimum(i * M, L)
    BY <1>6 DEF f
  <2>2. \A i \in 1..n : SubSeq(buf, (i - 1) * M + 1, Minimum(i * M, L))
                          = SubSeq(buf, f(i - 1) + 1, f(i))
    BY <2>1, Zenon
  <2> HIDE DEF M, L
  <2> QED
    BY <1>3, <2>2, Zenon
<1> DEFINE c == Chunks(buf)
<1>9. c \in Seq(Seq(1..MaxUp)) /\ Len(c) = n
  BY <1>2, <1>7, <1>8
<1>10. \A i \in 1..n : /\ Len(c[i]) = f(i) - f(i - 1)
                       /\ \A k \in 1..Len(c[i]) : c[i][k] = buf[f(i - 1) + k]
  BY <1>7, <1>8
<1> HIDE DEF c
<1>11. \A i \in 0..n : e[i] = f(i)
  OBVIOUS
<1>12. e \in [0..n -> Nat] /\ e[0] = 0 /\ e[n] = L
  BY <1>2, <1>4, <1>5, <1>11
<1> HIDE DEF e
<1>13. \A i \in 1..n : /\ e[i - 1] < e[i] /\ e[i] <= L
                       /\ Len(c[i]) = e[i] - e[i - 1]
                       /\ \A k \in 1..Len(c[i]) : c[i][k] = buf[e[i - 1] + k]
  <2> SUFFICES ASSUME NEW i \in 1..n
               PROVE  /\ e[i - 1] < e[i] /\ e[i] <= L
                      /\ Len(c[i]) = e[i] - e[i - 1]
                      /\ \A k \in 1..Len(c[i]) : c[i][k] = buf[e[i - 1] + k]
    OBVIOUS
  <2>1. i \in 0..n /\ i - 1 \in 0..n
    BY <1>2
  <2>2. e[i] = f(i) /\ e[i - 1] = f(i - 1)
    BY <1>11, <2>1
  <2> QED
    BY <1>4, <1>6, <1>10, <2>1, <2>2
<1>14. Cut(buf, c, e)
  BY <1>9, <1>12, <1>13 DEF Cut
<1> QED
  BY <1>2, <1>9, <1>14 DEF c
LEMMA RemoveFacts ==
  ASSUME NEW S, NEW s \in Seq(S), NEW i \in DOMAIN s
  PROVE  /\ RemoveAt(s, i) \in Seq(S) /\ Len(RemoveAt(s, i)) = Len(s) - 1
         /\ \A j \in 1..Len(s) - 1 : RemoveAt(s, i)[j] = IF j < i THEN s[j] ELSE s[j + 1]
<1>1. i \in Nat /\ i >= 1 /\ i <= Len(s) /\ Len(s) \in Nat
  BY LenProperties
<1> DEFINE a == SubSeq(s, 1, i - 1)
           b == SubSeq(s, i + 1, Len(s))
<1>2. \A k \in 1..Len(s) : s[k] \in S
  BY ElementOfSeq
<1>3. /\ a \in Seq(S) /\ Len(a) = i - 1
      /\ \A k \in 1..i - 1 : a[k] = s[k]
  <2>1. 1 \in Int /\ i - 1 \in Int /\ \A k \in 1..i - 1 : s[k] \in S
    BY <1>1, <1>2
  <2>2. /\ a \in Seq(S)
        /\ Len(a) = IF 1 <= i - 1 THEN (i - 1) - 1 + 1 ELSE 0
        /\ \A k \in 1..(i - 1) - 1 + 1 : a[k] = s[1 + k - 1]
    BY <2>1, SubSeqProperties
  <2> QED
    BY <1>1, <2>2
<1>4. /\ b \in Seq(S) /\ Len(b) = Len(s) - i
      /\ \A k \in 1..Len(s) - i : b[k] = s[i + k]
  <2>1. i + 1 \in Int /\ Len(s) \in Int /\ \A k \in i + 1..Len(s) : s[k] \in S
    BY <1>1, <1>2
  <2>2. /\ b \in Seq(S)
        /\ Len(b) = IF i + 1 <= Len(s) THEN Len(s) - (i + 1) + 1 ELSE 0
        /\ \A k \in 1..Len(s) - (i + 1) + 1 : b[k] = s[(i + 1) + k - 1]
    BY <2>1, SubSeqProperties
  <2> QED
    BY <1>1, <2>2
<1> HIDE DEF a, b
<1>5. /\ a \o b \in Seq(S) /\ Len(a \o b) = Len(a) + Len(b)
      /\ \A j \in 1..Len(a) + Len(b) : (a \o b)[j] = IF j <= Len(a) THEN a[j] ELSE b[j - Len(a)]
  BY <1>3, <1>4, ConcatProperties
<1>6. RemoveAt(s, i) = a \o b
  BY DEF RemoveAt, a, b
<1>7. \A j \in 1..Len(s) - 1 : (a \o b)[j] = IF j < i THEN s[j] ELSE s[j + 1]
  <2> SUFFICES ASSUME NEW j \in 1..Len(s) - 1
               PROVE  (a \o b)[j] = IF j < i THEN s[j] ELSE s[j + 1]
    OBVIOUS
  <2>1. (a \o b)[j] = IF j <= i - 1 THEN a[j] ELSE b[j - (i - 1)]
    <3>1. j \in 1..Len(a) + Len(b)
      BY <1>1, <1>3, <1>4
    <3>2. (a \o b)[j] = IF j <= Len(a) THEN a[j] ELSE b[j - Len(a)]
      BY <3>1, <1>5
    <3> QED
      BY <3>2, <1>3
  <2>2. CASE j < i
    <3>1. j <= i - 1 /\ j \in 1..i - 1
      BY <1>1, <2>2
    <3> QED
      BY <2>1, <2>2, <3>1, <1>3
  <2>3. CASE ~(j < i)
    <3>1. ~(j <= i - 1) /\ j - (i - 1) \in 1..Len(s) - i /\ i + (j - (i - 1)) = j + 1
      BY <1>1, <2>3
    <3>2. (a \o b)[j] = s[i + (j - (i - 1))]
      BY <2>1, <3>1, <1>4
    <3> QED
      BY <2>3, <3>1, <3>2
  <2> QED
    BY <2>2, <2>3
<1>8. Len(a \o b) = Len(s) - 1
  BY <1>1, <1>3, <1>4, <1>5
<1> QED
  BY <1>5, <1>6, <1>7, <1>8, Zenon

LEMMA CoSorts ==
  ASSUME TypeOK, NEW i \in DOMAIN sends
  PROVE  /\ sends[i] \in SendRecord
         /\ sends[i].kind \in {"initial", "flush"}
         /\ sends[i].chunks \in Seq(Seq(1..MaxUp)) /\ sends[i].totalAck \in Nat
<1>1. sends[i] \in SendRecord
  BY Sorts, ElementOfSeq
<1> QED
  BY <1>1 DEF SendRecord

(* After a chunk a coroutine posts an acknowledgement, the end of the      *)
(* flush, both, or nothing.                                                *)
AckTask(n) == [task |-> "ack", bytes |-> n]
DoneTask == [task |-> "flushDone"]
Posted(co) ==
  IF co.kind = "flush"
  THEN IF Len(co.chunks) = 1 THEN Append(Append(queue, AckTask(Len(Head(co.chunks)))), DoneTask)
       ELSE Append(queue, AckTask(Len(Head(co.chunks))))
  ELSE IF Len(co.chunks) = 1 THEN Append(queue, AckTask(co.totalAck)) ELSE queue
LEMMA PostedCases ==
  ASSUME TypeOK, NEW i \in DOMAIN sends
  PROVE  queue \o PostedAfterChunk(sends[i]) = Posted(sends[i])
<1> DEFINE co == sends[i]
           a == AckTask(Len(Head(co.chunks)))
           b == AckTask(co.totalAck)
<1> USE DEF AckTask, DoneTask
<1>1. co.kind = "flush" =>
        PostedAfterChunk(co) = <<a>> \o (IF Len(co.chunks) = 1 THEN <<DoneTask>> ELSE <<>>)
  BY Zenon DEF PostedAfterChunk
<1>2. co.kind # "flush" =>
        PostedAfterChunk(co) = IF Len(co.chunks) = 1 THEN <<b>> ELSE <<>>
  BY Zenon DEF PostedAfterChunk
<1> HIDE DEF AckTask, DoneTask
<1>3. queue \in Seq(TaskRecord)
  BY Sorts
<1>4. \A x : queue \o <<x>> = Append(queue, x)
  BY <1>3
<1>5. queue \o <<>> = queue
  BY <1>3
<1>6. \A x, y : queue \o (<<x>> \o <<y>>) = Append(Append(queue, x), y)
  <2> SUFFICES ASSUME NEW x, NEW y
               PROVE  queue \o (<<x>> \o <<y>>) = Append(Append(queue, x), y)
    OBVIOUS
  <2> DEFINE T == TaskRecord \cup {x, y}
  <2>1. queue \in Seq(T) /\ <<x>> \in Seq(T) /\ <<y>> \in Seq(T)
    BY <1>3
  <2>2. (queue \o <<x>>) \o <<y>> = queue \o (<<x>> \o <<y>>)
    BY <2>1, ConcatAssociative
  <2>3. queue \o <<x>> = Append(queue, x) /\ Append(queue, x) \in Seq(T)
    BY <1>4, <2>1
  <2>4. Append(queue, x) \o <<y>> = Append(Append(queue, x), y)
    BY <2>3
  <2> QED
    BY <2>2, <2>3, <2>4
<1>7. \A x : <<x>> \o <<>> = <<x>>
  OBVIOUS
<1> HIDE DEF co, a, b
<1>8. CASE co.kind = "flush" /\ Len(co.chunks) = 1
  BY <1>1, <1>6, <1>8, Zenon DEF Posted, a, co
<1>9. CASE co.kind = "flush" /\ Len(co.chunks) # 1
  BY <1>1, <1>4, <1>7, <1>9, Zenon DEF Posted, a, co
<1>10. CASE co.kind # "flush"
  BY <1>2, <1>4, <1>5, <1>10, Zenon DEF Posted, b, co
<1> QED
  BY <1>8, <1>9, <1>10

LEMMA TaskMakers ==
  /\ \A n \in Nat : AckTask(n) \in TaskRecord
  /\ DoneTask \in TaskRecord /\ [task |-> "flush"] \in TaskRecord
  /\ [task |-> "connectFailed"] \in TaskRecord
  /\ \A b \in BOOLEAN : [task |-> "sendFailed", flush |-> b] \in TaskRecord
  /\ \A k \in {"direct", "proxy"}, d \in Seq(1..MaxUp) :
       [task |-> "connected", kind |-> k, initialData |-> d] \in TaskRecord
  /\ \A o \in {"data", "eof", "error"}, d \in Seq(1..MaxDown) :
       [task |-> "received", outcome |-> o, data |-> d] \in TaskRecord
<1>1. \A n \in Nat : AckTask(n) \in [task : {"ack"}, bytes : Nat]
  BY DEF AckTask
<1>2. /\ DoneTask \in [task : {"flush", "flushDone", "connectFailed"}]
      /\ [task |-> "flush"] \in [task : {"flush", "flushDone", "connectFailed"}]
      /\ [task |-> "connectFailed"] \in [task : {"flush", "flushDone", "connectFailed"}]
  BY DEF DoneTask
<1>3. \A b \in BOOLEAN :
        [task |-> "sendFailed", flush |-> b] \in [task : {"sendFailed"}, flush : BOOLEAN]
  OBVIOUS
<1>4. \A k \in {"direct", "proxy"}, d \in Seq(1..MaxUp) :
        [task |-> "connected", kind |-> k, initialData |-> d]
          \in [task : {"connected"}, kind : {"direct", "proxy"}, initialData : Seq(1..MaxUp)]
  OBVIOUS
<1>5. \A o \in {"data", "eof", "error"}, d \in Seq(1..MaxDown) :
        [task |-> "received", outcome |-> o, data |-> d]
          \in [task : {"received"}, outcome : {"data", "eof", "error"}, data : Seq(1..MaxDown)]
  OBVIOUS
<1> QED
  BY <1>1, <1>2, <1>3, <1>4, <1>5, Zenon DEF TaskRecord

-----------------------------------------------------------------------------
(* Type correctness, and no coroutine without a chunk in flight. *)

LEMMA ChunkSorts ==
  ASSUME NEW c \in Seq(Seq(1..MaxUp)), c # <<>>
  PROVE  Head(c) \in Seq(1..MaxUp) /\ Tail(c) \in Seq(Seq(1..MaxUp))
BY HeadTailProperties

LEMMA SendAppended ==
  ASSUME TypeOK, SendsInv, NEW kind \in {"initial", "flush"},
         NEW chunks \in Seq(Seq(1..MaxUp)), chunks # <<>>, NEW total \in Nat,
         sends' = Append(sends, Coroutine(kind, chunks, total)),
         handedOver' = handedOver \o Head(chunks)
  PROVE  SendSort' /\ SendsInv'
<1> DEFINE co == Coroutine(kind, chunks, total)
<1>1. co \in SendRecord /\ co.chunks = chunks
  BY DEF Coroutine, SendRecord
<1>2. sends \in Seq(SendRecord)
  BY Sorts
<1> HIDE DEF co
<1>3. sends' = Append(sends, co)
  BY DEF co
<1>4. /\ sends' \in Seq(SendRecord) /\ Len(sends') = Len(sends) + 1
      /\ \A i \in 1..Len(sends) : sends'[i] = sends[i]
      /\ sends'[Len(sends) + 1] = co
  BY <1>1, <1>2, <1>3, AppendProperties
<1>5. Len(sends) \in Nat /\ DOMAIN sends = 1..Len(sends) /\ DOMAIN sends' = 1..Len(sends')
  BY <1>2, <1>4, LenProperties
<1>6. SendsInv'
  <2> SUFFICES ASSUME NEW i \in DOMAIN sends' PROVE sends'[i].chunks # <<>>
    BY DEF SendsInv
  <2>1. CASE i \in DOMAIN sends
    BY <1>4, <1>5, <2>1 DEF SendsInv
  <2>2. CASE i = Len(sends) + 1
    BY <1>1, <1>4, <2>2
  <2> QED
    BY <1>4, <1>5, <2>1, <2>2
<1>7. handedOver' \in Seq(1..MaxUp)
  BY ChunkSorts, Queues, ConcatProperties
<1> QED
  BY <1>4, <1>6, <1>7 DEF SendSort

LEMMA SendRemoved ==
  ASSUME TypeOK, SendsInv, NEW i \in DOMAIN sends,
         sends' = RemoveAt(sends, i), handedOver' = handedOver
  PROVE  SendSort' /\ SendsInv'
<1>1. sends \in Seq(SendRecord) /\ Len(sends) \in Nat /\ DOMAIN sends = 1..Len(sends)
  BY Sorts, LenProperties, SMTT(30)
<1>2. /\ sends' \in Seq(SendRecord) /\ Len(sends') = Len(sends) - 1
      /\ \A j \in 1..Len(sends) - 1 : sends'[j] = IF j < i THEN sends[j] ELSE sends[j + 1]
  BY <1>1, RemoveFacts
<1>3. DOMAIN sends' = 1..Len(sends) - 1
  BY <1>2, LenProperties
<1>4. SendsInv'
  <2> SUFFICES ASSUME NEW j \in 1..Len(sends) - 1 PROVE sends'[j].chunks # <<>>
    BY <1>3 DEF SendsInv
  <2>1. j \in DOMAIN sends /\ j + 1 \in DOMAIN sends
    BY <1>1
  <2> QED
    BY <1>2, <2>1 DEF SendsInv
<1> QED
  BY <1>2, <1>4, Queues DEF SendSort

LEMMA SendShortened ==
  ASSUME TypeOK, SendsInv, NEW i \in DOMAIN sends, Tail(sends[i].chunks) # <<>>,
         sends' = [sends EXCEPT ![i].chunks = Tail(sends[i].chunks)],
         handedOver' = handedOver \o Head(Tail(sends[i].chunks))
  PROVE  SendSort' /\ SendsInv'
<1> DEFINE c == Tail(sends[i].chunks)
<1>1. sends \in Seq(SendRecord) /\ Len(sends) \in Nat /\ DOMAIN sends = 1..Len(sends)
  BY Sorts, LenProperties
<1>2. c \in Seq(Seq(1..MaxUp)) /\ c # <<>>
  BY CoSorts, ChunkSorts DEF SendsInv
<1>3. sends' = [sends EXCEPT ![i].chunks = c]
  OBVIOUS
<1> HIDE DEF c
<1>4. [sends[i] EXCEPT !.chunks = c] \in SendRecord
  BY CoSorts, <1>2 DEF SendRecord
<1>5. sends' = [sends EXCEPT ![i] = [sends[i] EXCEPT !.chunks = c]]
  BY <1>3
<1>6. sends' \in Seq(SendRecord)
  <2> DEFINE e == [sends[i] EXCEPT !.chunks = c]
  <2>1. e \in SendRecord /\ sends' = [sends EXCEPT ![i] = e]
    BY <1>4, <1>5
  <2> HIDE DEF e
  <2>2. i \in 1..Len(sends)
    BY <1>1
  <2>3. [sends EXCEPT ![i] = e] \in Seq(SendRecord)
    BY <1>1, <2>1, <2>2, ExceptSeq, Zenon
  <2> QED
    BY <2>1, <2>3, Zenon
<1>7. DOMAIN sends' = DOMAIN sends
  BY <1>5
<1>8. SendsInv'
  <2> SUFFICES ASSUME NEW j \in DOMAIN sends PROVE sends'[j].chunks # <<>>
    BY <1>7 DEF SendsInv
  <2>1. CASE j = i
    <3>1. sends'[i] = [sends[i] EXCEPT !.chunks = c]
      BY <1>5
    <3>2. [sends[i] EXCEPT !.chunks = c].chunks = c
      BY CoSorts DEF SendRecord
    <3> QED
      BY <1>2, <2>1, <3>1, <3>2
  <2>2. CASE j # i
    <3>1. sends'[j] = sends[j]
      BY <1>5, <2>2
    <3> QED
      BY <3>1 DEF SendsInv
  <2> QED
    BY <2>1, <2>2
<1>9. handedOver' \in Seq(1..MaxUp)
  BY <1>2, ChunkSorts, Queues, ConcatProperties DEF c
<1> QED
  BY <1>6, <1>8, <1>9 DEF SendSort

LEMMA StaysPcb ==
  ASSUME Stays PROVE PcbInv'
BY DEF Stays, PcbInv

LEMMA StayingType ==
  ASSUME TypeOK, SendsInv, Quiet \/ Buffers \/ DialEnds \/ Acks \/ FlushesNothing
                              \/ FlushOver \/ DownlinkEnds
  PROVE  TypeOK' /\ SendsInv'
<1>1. CASE Quiet
  <2>1. TimerSort'
    BY <1>1, Flags, Zenon DEF Quiet, TimerSort
  <2> QED
    BY <1>1, <2>1, SameSorts, TypePartsNext, Zenon
       DEF Quiet, SameUp, SameDown, SendsInv, SameSends
<1>2. CASE Buffers
  <2>1. delivered < MaxUp /\ delivered' = delivered + 1 /\ recved' = recved /\ pendingData' = Grown
    BY <1>2, Zenon DEF Buffers
  <2>2. WindowSort'
    BY <2>1, Numbers, Sizes DEF WindowSort
  <2>3. PendingSort'
    BY <2>1, GrownSort, Zenon DEF PendingSort
  <2> QED
    BY <1>2, <2>2, <2>3, SameSorts, TypePartsNext, Zenon
       DEF Buffers, SameUp, SameDown, SendsInv, SameSends
<1>3. CASE DialEnds
  <2>1. RouteSort'
    <3>1. NoDial \in [kind : {None, "direct", "proxy"}, initialData : Seq(1..MaxUp)]
      BY DEF NoDial
    <3> QED
      BY <1>3, <3>1, TypeParts, Zenon DEF DialEnds, RouteSort
  <2>2. QueueSort'
    BY <1>3, QueueSorts, TaskMakers, Zenon DEF DialEnds
  <2> QED
    BY <1>3, <2>1, <2>2, SameSorts, TypePartsNext, Zenon
       DEF DialEnds, SameUp, SameDown, SendsInv, SameSends
<1>4. CASE Acks
  <2>1. HeadIs({"ack"}) /\ delivered' = delivered /\ recved' = recved + Head(queue).bytes
    BY <1>4, Zenon DEF Acks
  <2>2. Head(queue).bytes \in Nat
    <3>1. Head(queue).task = "ack" /\ Head(queue) \in TaskRecord
      BY <2>1, HeadSorts DEF HeadIs
    <3> QED
      BY <3>1, TaskSorts
  <2>3. WindowSort'
    BY <2>1, <2>2, Sorts, SMTT(30) DEF WindowSort
  <2> QED
    BY <1>4, <2>1, <2>3, QueueSorts, SameSorts, TypePartsNext, Zenon
       DEF Acks, SameUp, SameDown, SendsInv, SameSends
<1>5. CASE FlushesNothing
  <2>1. QueueSort'
    BY <1>5, QueueSorts, Zenon DEF FlushesNothing
  <2>2. <<>> \in Seq(1..MaxUp)
    OBVIOUS
  <2>3. BufferSort'
    BY <1>5, <2>2, Flags, Zenon DEF FlushesNothing, BufferSort
  <2> QED
    BY <1>5, <2>1, <2>3, SameSorts, TypePartsNext, Zenon
       DEF FlushesNothing, SameDown, SendsInv, SameSends
<1>6. CASE FlushOver
  <2>1. QueueSort'
    BY <1>6, QueueSorts, Zenon DEF FlushOver
  <2>2. BufferSort'
    BY <1>6, Flags, Queues, Zenon DEF FlushOver, BufferSort
  <2> QED
    BY <1>6, <2>1, <2>2, SameSorts, TypePartsNext, Zenon
       DEF FlushOver, SameDown, SendsInv, SameSends
<1>7. CASE DownlinkEnds
  <2>1. QueueSort'
    BY <1>7, QueueSorts, Zenon DEF DownlinkEnds
  <2>2. "uplinkOnly" \in {None, "idle", "uplinkOnly", "downlinkOnly"}
    OBVIOUS
  <2>3. TimerSort' /\ ReceiveSort'
    BY <1>7, <2>2, Numbers, Zenon DEF DownlinkEnds, TimerSort, ReceiveSort
  <2> QED
    BY <1>7, <2>1, <2>3, SameSorts, TypePartsNext, Zenon
       DEF DownlinkEnds, SameUp, SendsInv, SameSends
<1> QED
  BY <1>1, <1>2, <1>3, <1>4, <1>5, <1>6, <1>7

LEMMA ClosedType ==
  ASSUME TypeOK, PcbInv, SendsInv, Releases \/ AfterClose
  PROVE  TypeOK' /\ PcbInv' /\ SendsInv'
<1>1. /\ <<>> \in Seq(1..MaxUp) /\ <<>> \in Seq(1..MaxDown) /\ <<>> \in Seq(SendRecord)
      /\ None \in {None, "direct", "proxy"} /\ 0 \in Nat
      /\ None \in {None, "idle", "uplinkOnly", "downlinkOnly"}
      /\ NoDial \in [kind : {None, "direct", "proxy"}, initialData : Seq(1..MaxUp)]
      /\ NoDial.kind = None /\ DOMAIN <<>> = {}
  BY DEF NoDial
<1>2. CASE Releases
  <2>1. QueueSort'
    <3>1. CASE queue' = queue
      BY <3>1, SameSorts, Zenon
    <3>2. CASE HeadIs({"sendFailed", "connectFailed", "received"})
      BY <3>2, QueueSorts, Zenon
    <3> QED
      BY <1>2, <3>1, <3>2, Zenon DEF Releases
  <2>2. RouteSort' /\ TimerSort' /\ PcbSort' /\ PendingSort' /\ ReceiveSort'
    BY <1>1, <1>2, Flags, Zenon
       DEF Releases, RouteSort, TimerSort, PcbSort, PendingSort, ReceiveSort
  <2>3. BufferSort' /\ SendSort' /\ LwipSort' /\ RemoteSort' /\ WindowSort' /\ Sorted'
    BY <1>1, <1>2, Flags, Sorts, Zenon
       DEF Releases, BufferSort, SendSort, LwipSort, RemoteSort, WindowSort
  <2>4. PcbInv' /\ SendsInv'
    BY <1>1, <1>2, Zenon DEF Releases, PcbInv, SendsInv
  <2> QED
    BY <2>1, <2>2, <2>3, <2>4, TypePartsNext, Zenon
<1>3. CASE AfterClose
  <2>1. QueueSort'
    <3>1. CASE queue' = queue
      BY <3>1, SameSorts, Zenon
    <3>2. CASE queue # <<>> /\ queue' = Tail(queue)
      BY <3>2, HeadSorts, Zenon DEF QueueSort
    <3> QED
      BY <1>3, <3>1, <3>2, Zenon DEF AfterClose
  <2>2. PcbSort' /\ PendingSort' /\ RemoteSort'
    BY <1>1, <1>3, Flags, Sorts, Zenon DEF AfterClose, PcbSort, PendingSort, RemoteSort
  <2>3. BufferSort' /\ LwipSort'
    <3>1. coalesceBuffer' \in Seq(1..MaxUp)
      BY <1>1, <1>3, Queues DEF AfterClose
    <3>2. coalesceScheduled' \in BOOLEAN /\ coalesceFlushInFlight' \in BOOLEAN
      BY <1>3 DEF AfterClose
    <3> QED
      BY <1>3, <3>1, <3>2, Sorts, Zenon DEF AfterClose, BufferSort, LwipSort
  <2>4. PcbInv' /\ SendsInv'
    BY <1>3, Zenon DEF AfterClose, PcbInv, SendsInv, SameRoute, SameTimer, SameSends, SameReceive
  <2> QED
    BY <1>3, <2>1, <2>2, <2>3, <2>4, SameSorts, TypePartsNext, Zenon DEF AfterClose
<1> QED
  BY <1>2, <1>3

LEMMA CommitsType ==
  ASSUME TypeOK, SendsInv, NEW direct \in BOOLEAN, NEW pend \in Seq(1..MaxUp),
         Commits(direct, pend)
  PROVE  TypeOK' /\ SendsInv'
<1>1. connecting' \in {"direct", "proxy"} /\ connection' \in {None, "direct", "proxy"}
  BY Sorts DEF Commits
<1>2. /\ dial' \in [kind : {None, "direct", "proxy"}, initialData : Seq(1..MaxUp)]
      /\ PendingSort'
  <2>1. /\ \A k \in {"direct", "proxy"}, d \in Seq(1..MaxUp) :
             [kind |-> k, initialData |-> d]
               \in [kind : {None, "direct", "proxy"}, initialData : Seq(1..MaxUp)]
        /\ <<>> \in Seq(1..MaxUp)
    OBVIOUS
  <2> QED
    BY <1>1, <2>1, Zenon DEF Commits, PendingSort
<1>3. RouteSort'
  <2>1. connecting' \in {None, "direct", "proxy"}
    BY <1>1
  <2> QED
    BY <1>1, <1>2, <2>1, Zenon DEF Commits, RouteSort
<1>4. WindowSort'
  BY Numbers, Sizes DEF Commits, WindowSort
<1> QED
  BY <1>2, <1>3, <1>4, SameSorts, TypePartsNext, Zenon
     DEF Commits, SameDown, SendsInv, SameSends

LEMMA CoalescesType ==
  ASSUME TypeOK, SendsInv, Coalesces
  PROVE  TypeOK' /\ SendsInv'
<1>1. WindowSort'
  <2>1. delivered < MaxUp /\ delivered' = delivered + 1 /\ recved' = recved
    BY Zenon DEF Coalesces
  <2> QED
    BY <2>1, Numbers, Sizes DEF WindowSort
<1>2. coalesceBuffer' \in Seq(1..MaxUp)
  <2>1. delivered < MaxUp /\ coalesceBuffer' = Append(coalesceBuffer, delivered + 1)
    BY Zenon DEF Coalesces
  <2>2. delivered + 1 \in 1..MaxUp
    BY <2>1, Numbers, Sizes
  <2> QED
    BY <2>1, <2>2, Queues, AppendProperties
<1>3. BufferSort'
  BY <1>2, Flags, Zenon DEF Coalesces, BufferSort
<1>4. QueueSort'
  BY QueueSorts, TaskMakers, SameSorts, Zenon DEF Coalesces
<1> QED
  BY <1>1, <1>3, <1>4, SameSorts, TypePartsNext, Zenon
     DEF Coalesces, SameDown, SendsInv, SameSends

LEMMA DialSorts ==
  ASSUME TypeOK
  PROVE  /\ dial.kind \in {None, "direct", "proxy"} /\ dial.initialData \in Seq(1..MaxUp)
         /\ NoDial \in [kind : {None, "direct", "proxy"}, initialData : Seq(1..MaxUp)]
         /\ NoDial.kind = None /\ NoDial.initialData = <<>>
BY Sorts DEF NoDial

LEMMA DialOpensType ==
  ASSUME TypeOK, SendsInv, DialOpens
  PROVE  TypeOK' /\ SendsInv'
<1>1. RouteSort'
  BY DialSorts, TypeParts, Zenon DEF DialOpens, RouteSort
<1>2. dial.kind \in {"direct", "proxy"}
  BY DialSorts DEF DialOpens
<1>3. QueueSort'
  BY <1>2, DialSorts, QueueSorts, TaskMakers, Zenon DEF DialOpens
<1>4. handedOver' \in Seq(1..MaxUp)
  <2>1. handedOver \o dial.initialData \in Seq(1..MaxUp)
    BY Queues, DialSorts, ConcatProperties
  <2> QED
    BY <2>1, Queues, Zenon DEF DialOpens
<1>5. SendSort' /\ RemoteSort'
  BY <1>4, Sorts, Zenon DEF DialOpens, SendSort, RemoteSort
<1> QED
  BY <1>1, <1>3, <1>5, SameSorts, TypePartsNext, Zenon
     DEF DialOpens, SameDown, SendsInv

LEMMA PostedSort ==
  ASSUME TypeOK, SendsInv, NEW i \in DOMAIN sends
  PROVE  Posted(sends[i]) \in Seq(TaskRecord)
<1> DEFINE co == sends[i]
<1>1. Head(co.chunks) \in Seq(1..MaxUp) /\ co.totalAck \in Nat
  BY CoSorts, ChunkSorts DEF SendsInv
<1>2. Len(Head(co.chunks)) \in Nat
  BY <1>1, LenProperties
<1>3. \A t \in TaskRecord, q \in Seq(TaskRecord) : Append(q, t) \in Seq(TaskRecord)
  BY AppendProperties
<1> HIDE DEF co
<1>4. queue \in Seq(TaskRecord)
  BY Sorts
<1>5. Posted(co) \in Seq(TaskRecord)
  <2> DEFINE a == AckTask(Len(Head(co.chunks)))
             b == AckTask(co.totalAck)
  <2>1. a \in TaskRecord /\ b \in TaskRecord /\ DoneTask \in TaskRecord
    BY <1>1, <1>2, TaskMakers, Zenon
  <2> HIDE DEF a, b
  <2>2. Append(Append(queue, a), DoneTask) \in Seq(TaskRecord)
    BY <1>3, <1>4, <2>1, Zenon
  <2>3. Append(queue, a) \in Seq(TaskRecord) /\ Append(queue, b) \in Seq(TaskRecord)
    BY <1>3, <1>4, <2>1, Zenon
  <2> QED
    BY <1>4, <2>2, <2>3, Zenon DEF Posted, a, b
<1> QED
  BY <1>5 DEF co

LEMMA SendType ==
  ASSUME TypeOK, SendsInv, NEW i \in DOMAIN sends, SendDone(i) \/ SendLost(i)
  PROVE  TypeOK' /\ SendsInv'
<1>1. CASE SendDone(i)
  <2>1. QueueSort'
    BY <1>1, PostedCases, PostedSort, Zenon DEF SendDone, QueueSort
  <2>2. SendSort' /\ SendsInv'
    BY <1>1, SendRemoved, SendShortened, Zenon DEF SendDone
  <2> QED
    BY <1>1, <2>1, <2>2, SameSorts, TypePartsNext, Zenon DEF SendDone, SameDown
<1>2. CASE SendLost(i)
  <2>1. QueueSort'
    <3>1. (sends[i].kind = "flush") \in BOOLEAN
      OBVIOUS
    <3> QED
      BY <1>2, <3>1, QueueSorts, TaskMakers, Zenon DEF SendLost
  <2>2. SendSort' /\ SendsInv'
    BY <1>2, SendRemoved, Zenon DEF SendLost
  <2> QED
    BY <1>2, <2>1, <2>2, SameSorts, TypePartsNext, Zenon DEF SendLost, SameDown
<1> QED
  BY <1>1, <1>2

LEMMA ArrivesType ==
  ASSUME TypeOK, SendsInv, NEW outcome, NEW data, Arrives(outcome, data)
  PROVE  TypeOK' /\ SendsInv'
<1>1. QueueSort'
  BY QueueSorts, TaskMakers, Zenon DEF Arrives
<1>2. ReceiveSort'
  <2>1. receives > 0 /\ receives' = receives - 1 /\ receiveInFlight' = receiveInFlight
    BY Zenon DEF Arrives
  <2>2. receives' \in Nat
    BY <2>1, Numbers
  <2> QED
    BY <2>1, <2>2, Flags, Zenon DEF ReceiveSort
<1>3. RemoteSort'
  BY Flags, Zenon DEF Arrives, RemoteSort
<1> QED
  BY <1>1, <1>2, <1>3, SameSorts, TypePartsNext, Zenon DEF Arrives, SameUp, SendsInv, SameSends

LEMMA ArmsType ==
  ASSUME TypeOK, NEW pw, NEW inFlight \in BOOLEAN, Arms(pw, inFlight)
  PROVE  ReceiveSort'
<1>1. receives + 1 \in Nat
  BY Numbers
<1> QED
  BY <1>1, Numbers, Zenon DEF Arms, ReceiveSort

LEMMA DrainsType ==
  ASSUME TypeOK, SendsInv, NEW pw \in Seq(1..MaxDown), NEW inFlight \in BOOLEAN,
         NEW used \in Nat, NEW retries \in Nat, NEW k \in Nat,
         Drains(pw, inFlight, used, retries, k), QueueSort'
  PROVE  TypeOK' /\ SendsInv'
<1>1. /\ k <= Len(pw) /\ used + k <= TCP_SND_BUF
      /\ toLwip' = toLwip \o SubSeq(pw, 1, k) /\ pendingWrite' = SubSeq(pw, k + 1, Len(pw))
      /\ sndUsed' = used + k
      /\ drainRetries' = retries + 1 \/ drainRetries' = retries
  BY Zenon DEF Drains
<1>2. /\ SubSeq(pw, 1, k) \in Seq(1..MaxDown)
      /\ SubSeq(pw, k + 1, Len(pw)) \in Seq(1..MaxDown)
  BY <1>1, Pieces, Zenon
<1>3. toLwip' \in Seq(1..MaxDown) /\ pendingWrite' \in Seq(1..MaxDown)
  BY <1>1, <1>2, Queues, ConcatProperties, Zenon
<1>4. sndUsed' \in 0..TCP_SND_BUF /\ drainRetries' \in Nat
  BY <1>1, Sizes
<1>5. LwipSort'
  BY <1>3, <1>4, Zenon DEF LwipSort
<1>6. ReceiveSort'
  BY ArmsType, Numbers, Zenon DEF Drains, ReceiveSort
<1> QED
  BY <1>5, <1>6, SameSorts, TypePartsNext, Zenon DEF Drains, SameUp, SendsInv, SameSends

LEMMA RedrainsType ==
  ASSUME TypeOK, SendsInv, NEW used \in Nat, NEW retries \in Nat, NEW k \in Nat,
         Redrains(used, retries, k)
  PROVE  TypeOK' /\ SendsInv'
BY Queues, Flags, SameSorts, DrainsType, Zenon DEF Redrains

LEMMA DeliveryData ==
  ASSUME TypeOK, HeadIs({"received"})
  PROVE  /\ Head(queue).data \in Seq(1..MaxDown)
         /\ pendingWrite \o Head(queue).data \in Seq(1..MaxDown)
<1>1. Head(queue) \in TaskRecord /\ Head(queue).task = "received"
  BY HeadSorts DEF HeadIs
<1>2. Head(queue).data \in Seq(1..MaxDown)
  BY <1>1, TaskSorts
<1> QED
  BY <1>2, Queues, ConcatProperties

LEMMA DeliversType ==
  ASSUME TypeOK, SendsInv, NEW k \in Nat, Delivers(k)
  PROVE  TypeOK' /\ SendsInv'
<1>1. HeadIs({"received"}) /\ QueueSort'
  BY QueueSorts, Zenon DEF Delivers
<1>2. FALSE \in BOOLEAN
  OBVIOUS
<1>3. sndUsed \in Nat /\ drainRetries \in Nat
  BY Numbers
<1> QED
  BY <1>1, <1>2, <1>3, DeliveryData, DrainsType, Zenon DEF Delivers

LEMMA FlushesType ==
  ASSUME TypeOK, SendsInv, Flushes
  PROVE  TypeOK' /\ SendsInv'
<1>1. QueueSort'
  BY QueueSorts, Zenon DEF Flushes
<1>2. BufferSort'
  <2>1. <<>> \in Seq(1..MaxUp)
    OBVIOUS
  <2> QED
    BY <2>1, Zenon DEF Flushes, BufferSort
<1>3. Chunks(coalesceBuffer) \in Seq(Seq(1..MaxUp)) /\ Chunks(coalesceBuffer) # <<>>
  <2>1. coalesceBuffer # <<>> /\ coalesceBuffer \in Seq(1..MaxUp)
    BY Queues, Zenon DEF Flushes
  <2>2. Chunks(coalesceBuffer) \in Seq(Seq(1..MaxUp)) /\ Len(Chunks(coalesceBuffer)) >= 1
    BY <2>1, ChunksCut, Zenon
  <2> DEFINE c == Chunks(coalesceBuffer)
  <2> HIDE DEF c
  <2>3. c # <<>>
    BY <2>2 DEF c
  <2> QED
    BY <2>2, <2>3 DEF c
<1>4. SendSort' /\ SendsInv'
  <2>1. "flush" \in {"initial", "flush"} /\ 0 \in Nat
    OBVIOUS
  <2> QED
    BY <1>3, <2>1, SendAppended, Zenon DEF Flushes
<1> QED
  BY <1>1, <1>2, <1>4, SameSorts, TypePartsNext, Zenon DEF Flushes, SameDown

LEMMA ConnectedTask ==
  ASSUME TypeOK, HeadIs({"connected"})
  PROVE  Head(queue).kind \in {"direct", "proxy"} /\ Head(queue).initialData \in Seq(1..MaxUp)
<1>1. Head(queue) \in TaskRecord /\ Head(queue).task = "connected"
  BY HeadSorts DEF HeadIs
<1> QED
  BY <1>1, TaskSorts

LEMMA OpeningSort ==
  ASSUME TypeOK, NEW initial \in Seq(1..MaxUp)
  PROVE  OpeningChunks(initial) \in Seq(Seq(1..MaxUp))
<1>1. <<initial>> \in Seq(Seq(1..MaxUp)) /\ <<pendingData>> \in Seq(Seq(1..MaxUp))
      /\ <<>> \in Seq(Seq(1..MaxUp))
  BY Queues
<1>2. /\ (IF Head(queue).kind = "direct" /\ initial # <<>> THEN <<initial>> ELSE <<>>)
           \in Seq(Seq(1..MaxUp))
      /\ (IF pendingData # <<>> THEN <<pendingData>> ELSE <<>>) \in Seq(Seq(1..MaxUp))
  BY <1>1, Zenon
<1> QED
  BY <1>2, ConcatProperties, Zenon DEF OpeningChunks

LEMMA ConnectsType ==
  ASSUME TypeOK, SendsInv, NEW initial, Connects(initial)
  PROVE  TypeOK' /\ SendsInv'
<1>1. QueueSort' /\ HeadIs({"connected"})
  BY QueueSorts, Zenon DEF Connects
<1>2. Head(queue).kind \in {"direct", "proxy"} /\ initial \in Seq(1..MaxUp)
  BY <1>1, ConnectedTask, Zenon DEF Connects
<1>3. RouteSort'
  <2>1. Head(queue).kind \in {None, "direct", "proxy"} /\ None \in {None, "direct", "proxy"}
    BY <1>2
  <2> QED
    BY <2>1, TypeParts, Zenon DEF Connects, RouteSort
<1>4. TimerSort' /\ PendingSort'
  <2>1. "idle" \in {None, "idle", "uplinkOnly", "downlinkOnly"} /\ <<>> \in Seq(1..MaxUp)
    OBVIOUS
  <2> QED
    BY <2>1, Flags, Zenon DEF Connects, TimerSort, PendingSort
<1>5. Len(initial) \in Nat /\ Len(pendingData) \in Nat
  BY <1>2, Queues, LenProperties
<1>6. Len(initial) + Len(pendingData) \in Nat /\ recved + Len(initial) \in Nat
  BY <1>5, Numbers
<1>7. WindowSort'
  BY <1>6, Sorts, Zenon DEF Connects, WindowSort
<1>8. SendSort' /\ SendsInv'
  <2>1. "initial" \in {"initial", "flush"}
    OBVIOUS
  <2>2. OpeningChunks(initial) \in Seq(Seq(1..MaxUp))
    BY <1>2, OpeningSort, Zenon
  <2>3. CASE OpeningChunks(initial) # <<>>
    BY <1>6, <2>1, <2>2, <2>3, SendAppended, Zenon DEF Connects
  <2>4. CASE OpeningChunks(initial) = <<>>
    BY <2>4, SameSorts, Zenon DEF Connects, SameSends, SendsInv
  <2> QED
    BY <2>3, <2>4
<1>9. ReceiveSort'
  BY Flags, ArmsType, Zenon DEF Connects
<1> QED
  BY <1>1, <1>3, <1>4, <1>7, <1>8, <1>9, SameSorts, TypePartsNext, Zenon DEF Connects

LEMMA StepType ==
  ASSUME TypeOK, PcbInv, SendsInv, Step
  PROVE  TypeOK' /\ PcbInv' /\ SendsInv'
<1>1. CASE Releases \/ AfterClose
  BY <1>1, ClosedType
<1>2. CASE ~(Releases \/ AfterClose)
  <2>1. Stays
    BY <1>2, Zenon DEF Step, Quiet, Buffers, Commits, Coalesces, DialEnds, DialOpens, SendDone,
       SendLost, Arrives, Redrains, Delivers, Drains, Acks, Flushes, FlushesNothing, FlushOver,
       Connects, DownlinkEnds
  <2>2. TypeOK' /\ SendsInv'
    BY <1>2, StayingType, CommitsType, CoalescesType, DialOpensType, SendType, ArrivesType,
       RedrainsType, DeliversType, FlushesType, ConnectsType, Zenon DEF Step
  <2> QED
    BY <2>1, <2>2, StaysPcb
<1> QED
  BY <1>1, <1>2

-----------------------------------------------------------------------------
(* The executor's queue after a task is taken or posted. *)

LEMMA QueueTail ==
  ASSUME TypeOK, NEW kinds, HeadIs(kinds)
  PROVE  /\ Len(queue) \in Nat /\ Len(queue) >= 1 /\ DOMAIN queue = 1..Len(queue)
         /\ 1 \in DOMAIN queue /\ queue[1] = Head(queue) /\ queue[1].task \in kinds
         /\ Len(queue') = Len(queue) - 1 /\ DOMAIN queue' = 1..Len(queue) - 1
         /\ \A i \in DOMAIN queue' : i + 1 \in DOMAIN queue /\ queue'[i] = queue[i + 1]
         /\ \A i \in DOMAIN queue : i # 1 => i - 1 \in DOMAIN queue' /\ queue'[i - 1] = queue[i]
<1>1. queue # <<>> /\ queue' = Tail(queue) /\ Head(queue).task \in kinds
  BY DEF HeadIs
<1>2. queue \in Seq(TaskRecord)
  BY Sorts
<1>3. /\ Tail(queue) \in Seq(TaskRecord) /\ Len(Tail(queue)) = Len(queue) - 1
      /\ \A i \in 1..Len(Tail(queue)) : Tail(queue)[i] = queue[i + 1]
  BY <1>1, <1>2, HeadTailProperties
<1>4. Len(queue) \in Nat /\ Len(queue) >= 1 /\ DOMAIN queue = 1..Len(queue)
  BY <1>1, <1>2, LenProperties, EmptySeq
<1>5. queue[1] = Head(queue)
  BY <1>1, <1>2
<1>6. DOMAIN queue' = 1..Len(queue) - 1 /\ Len(queue') = Len(queue) - 1
  BY <1>1, <1>3, LenProperties
<1>7. \A i \in DOMAIN queue' : i + 1 \in DOMAIN queue /\ queue'[i] = queue[i + 1]
  BY <1>1, <1>3, <1>4, <1>6
<1>8. \A i \in DOMAIN queue : i # 1 => i - 1 \in DOMAIN queue' /\ queue'[i - 1] = queue[i]
  <2> SUFFICES ASSUME NEW i \in DOMAIN queue, i # 1
               PROVE  i - 1 \in DOMAIN queue' /\ queue'[i - 1] = queue[i]
    OBVIOUS
  <2>1. i - 1 \in DOMAIN queue' /\ (i - 1) + 1 = i
    BY <1>4, <1>6
  <2> QED
    BY <1>7, <2>1
<1> QED
  BY <1>1, <1>4, <1>5, <1>6, <1>7, <1>8

LEMMA QueueAppend ==
  ASSUME TypeOK, NEW t \in TaskRecord, queue' = Append(queue, t)
  PROVE  /\ Len(queue) \in Nat /\ DOMAIN queue = 1..Len(queue)
         /\ Len(queue') = Len(queue) + 1 /\ DOMAIN queue' = 1..Len(queue) + 1
         /\ \A i \in DOMAIN queue : i \in DOMAIN queue' /\ queue'[i] = queue[i]
         /\ Len(queue) + 1 \in DOMAIN queue' /\ queue'[Len(queue) + 1] = t
         /\ \A i \in DOMAIN queue' : i \in DOMAIN queue \/ i = Len(queue) + 1
<1>1. queue \in Seq(TaskRecord)
  BY Sorts
<1>2. Len(queue) \in Nat /\ DOMAIN queue = 1..Len(queue)
  BY <1>1, LenProperties
<1>3. /\ queue' \in Seq(TaskRecord) /\ Len(queue') = Len(queue) + 1
      /\ \A i \in 1..Len(queue) : queue'[i] = queue[i]
      /\ queue'[Len(queue) + 1] = t
  BY <1>1, AppendProperties
<1>4. DOMAIN queue' = 1..Len(queue) + 1
  BY <1>2, <1>3, LenProperties
<1> QED
  BY <1>2, <1>3, <1>4

(* The tasks a coroutine posts are acknowledgements and the flush's end. *)
LEMMA QueuePosted ==
  ASSUME TypeOK, SendsInv, NEW i \in DOMAIN sends, queue' = Posted(sends[i])
  PROVE  /\ Len(queue) \in Nat /\ DOMAIN queue = 1..Len(queue)
         /\ Len(queue') \in Nat /\ DOMAIN queue' = 1..Len(queue')
         /\ Len(queue') >= Len(queue)
         /\ \A j \in DOMAIN queue : j \in DOMAIN queue' /\ queue'[j] = queue[j]
         /\ \A j \in DOMAIN queue' : j \notin DOMAIN queue =>
              \/ queue'[j].task = "ack"
              \/ queue'[j].task = "flushDone" /\ sends[i].kind = "flush"
                   /\ Len(sends[i].chunks) = 1 /\ j = Len(queue')
         /\ sends[i].kind = "flush" /\ Len(sends[i].chunks) = 1 =>
              queue'[Len(queue')].task = "flushDone" /\ Len(queue') > Len(queue)
<1> DEFINE co == sends[i]
           a == AckTask(Len(Head(co.chunks)))
           b == AckTask(co.totalAck)
<1>1. Head(co.chunks) \in Seq(1..MaxUp) /\ co.totalAck \in Nat
  BY CoSorts, ChunkSorts DEF SendsInv
<1>2. Len(Head(co.chunks)) \in Nat
  BY <1>1, LenProperties
<1>3. a \in TaskRecord /\ b \in TaskRecord /\ DoneTask \in TaskRecord
  BY <1>1, <1>2, TaskMakers, Zenon
<1>4. a.task = "ack" /\ b.task = "ack" /\ DoneTask.task = "flushDone"
  BY DEF AckTask, DoneTask
<1>5. queue \in Seq(TaskRecord) /\ Len(queue) \in Nat /\ DOMAIN queue = 1..Len(queue)
  BY Sorts, LenProperties
<1>6. \A t \in TaskRecord, q \in Seq(TaskRecord) : \A r : r = Append(q, t) =>
        /\ r \in Seq(TaskRecord) /\ Len(r) = Len(q) + 1 /\ DOMAIN r = 1..Len(q) + 1
        /\ \A k \in 1..Len(q) : r[k] = q[k]
        /\ r[Len(q) + 1] = t
  <2> SUFFICES ASSUME NEW t \in TaskRecord, NEW q \in Seq(TaskRecord), NEW r, r = Append(q, t)
               PROVE  /\ r \in Seq(TaskRecord) /\ Len(r) = Len(q) + 1 /\ DOMAIN r = 1..Len(q) + 1
                      /\ \A k \in 1..Len(q) : r[k] = q[k]
                      /\ r[Len(q) + 1] = t
    OBVIOUS
  <2> QED
    BY AppendProperties, LenProperties
<1>7. queue' = Posted(co)
  OBVIOUS
<1>8. /\ co.kind = "flush" /\ Len(co.chunks) = 1 =>
           queue' = Append(Append(queue, a), DoneTask)
      /\ co.kind = "flush" /\ Len(co.chunks) # 1 => queue' = Append(queue, a)
      /\ co.kind # "flush" => queue' = Append(queue, b) \/ queue' = queue
  BY <1>7, Zenon DEF Posted, a, b
<1>9. sends[i] = co
  OBVIOUS
<1> HIDE DEF co, a, b
<1>10. CASE co.kind = "flush" /\ Len(co.chunks) = 1
  <2> DEFINE q == Append(queue, a)
  <2>1. queue' = Append(q, DoneTask)
    BY <1>10, <1>8
  <2>2. /\ q \in Seq(TaskRecord) /\ Len(q) = Len(queue) + 1
        /\ \A k \in 1..Len(queue) : q[k] = queue[k]
        /\ q[Len(queue) + 1] = a
    BY <1>3, <1>5, <1>6
  <2> HIDE DEF q
  <2>3. /\ queue' \in Seq(TaskRecord) /\ Len(queue') = Len(q) + 1
        /\ DOMAIN queue' = 1..Len(q) + 1
        /\ \A k \in 1..Len(q) : queue'[k] = q[k]
        /\ queue'[Len(q) + 1] = DoneTask
    BY <1>3, <1>6, <2>1, <2>2
  <2>4. /\ Len(queue') \in Nat /\ DOMAIN queue' = 1..Len(queue') /\ Len(queue') >= Len(queue)
        /\ \A j \in DOMAIN queue : j \in DOMAIN queue' /\ queue'[j] = queue[j]
    BY <1>5, <2>2, <2>3
  <2>5. \A j \in DOMAIN queue' : j \notin DOMAIN queue =>
          queue'[j].task = "ack" \/ (queue'[j].task = "flushDone" /\ j = Len(queue'))
    BY <1>4, <1>5, <2>2, <2>3
  <2>6. queue'[Len(queue')].task = "flushDone" /\ Len(queue') > Len(queue)
    BY <1>4, <1>5, <2>2, <2>3
  <2> QED
    BY <1>5, <1>10, <1>9, <2>4, <2>5, <2>6, Zenon
<1>11. CASE co.kind = "flush" /\ Len(co.chunks) # 1
  <2>1. /\ queue' \in Seq(TaskRecord) /\ Len(queue') = Len(queue) + 1
        /\ DOMAIN queue' = 1..Len(queue) + 1
        /\ \A k \in 1..Len(queue) : queue'[k] = queue[k]
        /\ queue'[Len(queue) + 1] = a
    BY <1>3, <1>5, <1>6, <1>11, <1>8
  <2>2. /\ Len(queue') \in Nat /\ DOMAIN queue' = 1..Len(queue') /\ Len(queue') >= Len(queue)
        /\ \A j \in DOMAIN queue : j \in DOMAIN queue' /\ queue'[j] = queue[j]
    BY <1>5, <2>1
  <2>3. \A j \in DOMAIN queue' : j \notin DOMAIN queue => queue'[j].task = "ack"
    BY <1>4, <1>5, <2>1
  <2> QED
    BY <1>5, <1>11, <1>9, <2>2, <2>3, Zenon
<1>12. CASE co.kind # "flush"
  <2>1. CASE queue' = queue
    BY <1>5, <1>12, <1>9, <2>1
  <2>2. CASE queue' = Append(queue, b)
    <3>1. /\ queue' \in Seq(TaskRecord) /\ Len(queue') = Len(queue) + 1
          /\ DOMAIN queue' = 1..Len(queue) + 1
          /\ \A k \in 1..Len(queue) : queue'[k] = queue[k]
          /\ queue'[Len(queue) + 1] = b
      BY <1>3, <1>5, <1>6, <2>2
    <3>2. /\ Len(queue') \in Nat /\ DOMAIN queue' = 1..Len(queue') /\ Len(queue') >= Len(queue)
          /\ \A j \in DOMAIN queue : j \in DOMAIN queue' /\ queue'[j] = queue[j]
      BY <1>5, <3>1
    <3>3. \A j \in DOMAIN queue' : j \notin DOMAIN queue => queue'[j].task = "ack"
      BY <1>4, <1>5, <3>1
    <3> QED
      BY <1>5, <1>12, <1>9, <3>2, <3>3, Zenon
  <2> QED
    BY <1>12, <1>8, <2>1, <2>2
<1> QED
  BY <1>10, <1>11, <1>12

-----------------------------------------------------------------------------
(* The phases of a connection. *)

\* What the open phase needs of the executor's queue.
NoOutcome == \A i \in DOMAIN queue : queue[i].task \notin {"connected", "connectFailed"}

LEMMA PhaseKept ==
  ASSUME PhaseInv, closed = FALSE, closed' = FALSE, SameRoute, SameBuffer, sends' = sends,
         SameDown, SameRemote, recved' = recved, queue' = queue,
         activityTimer' = None <=> activityTimer = None,
         pendingData' = pendingData \/ sniffing = TRUE \/ connecting # None
  PROVE  PhaseInv'
<1> USE DEF SameRoute, SameBuffer, SameDown, SameLwip, SameReceive, SameRemote
<1>1. Untouched => Untouched'
  BY Zenon DEF Untouched
<1>2. SniffPhase => SniffPhase'
  BY <1>1, Zenon DEF SniffPhase
<1>3. Dialing => Dialing'
  BY Zenon DEF Dialing
<1>4. DialFailed => DialFailed'
  BY Zenon DEF DialFailed
<1>5. DialDone => DialDone'
  BY Zenon DEF DialDone
<1>6. DialPhase => DialPhase'
  BY <1>1, <1>3, <1>4, <1>5, Zenon DEF DialPhase
<1>7. OpenPhase => OpenPhase'
  <2>1. OpenPhase => ~(sniffing = TRUE \/ connecting # None)
    BY DEF OpenPhase
  <2> QED
    BY <2>1, Zenon DEF OpenPhase
<1>8. SniffPhase' \/ DialPhase' \/ OpenPhase'
  BY <1>2, <1>6, <1>7, Zenon DEF PhaseInv
<1>9. ~(closed' = TRUE)
  OBVIOUS
<1> QED
  BY <1>8, <1>9, Zenon DEF PhaseInv

LEMMA OpenKept ==
  ASSUME OpenPhase, closed' = FALSE, SameRoute, pendingData' = pendingData,
         activityTimer' # None, NoOutcome'
  PROVE  PhaseInv' /\ OpenPhase'
<1>1. OpenPhase'
  BY Zenon DEF OpenPhase, SameRoute, NoOutcome
<1>2. ~(closed' = TRUE)
  OBVIOUS
<1> QED
  BY <1>1, <1>2, Zenon DEF PhaseInv

(* Which phase a step can be taken in. *)
LEMMA OpenWhen ==
  ASSUME TypeOK, PhaseInv, closed = FALSE,
         \/ sniffing = FALSE /\ connecting = None /\ connection # None
         \/ sends # <<>> \/ receives > 0 \/ sndUsed > 0 \/ drainRetries > 0
         \/ HeadIs({"ack", "flush", "flushDone", "received", "sendFailed"})
  PROVE  OpenPhase
<1>1. ~SniffPhase
  <2> SUFFICES ASSUME SniffPhase PROVE FALSE
    OBVIOUS
  <2>1. ~HeadIs({"ack", "flush", "flushDone", "received", "sendFailed"})
    BY DEF SniffPhase, HeadIs
  <2> QED
    BY <2>1 DEF SniffPhase, Untouched
<1>2. ~DialPhase
  <2> SUFFICES ASSUME DialPhase PROVE FALSE
    OBVIOUS
  <2>1. connecting # None
    BY DEF DialPhase, None
  <2>2. ~HeadIs({"ack", "flush", "flushDone", "received", "sendFailed"})
    <3> SUFFICES ASSUME HeadIs({"ack", "flush", "flushDone", "received", "sendFailed"})
                 PROVE  FALSE
      OBVIOUS
    <3>1. queue[1].task \in {"ack", "flush", "flushDone", "received", "sendFailed"} /\ queue # <<>>
      BY QueueTail DEF HeadIs
    <3> QED
      BY <3>1 DEF DialPhase, Dialing, DialFailed, DialDone
  <2> QED
    BY <2>1, <2>2 DEF DialPhase, Untouched
<1> QED
  BY <1>1, <1>2 DEF PhaseInv

LEMMA TailOutcome ==
  ASSUME TypeOK, OpenPhase, NEW kinds, HeadIs(kinds)
  PROVE  NoOutcome'
<1>1. \A i \in DOMAIN queue' : i + 1 \in DOMAIN queue /\ queue'[i] = queue[i + 1]
  BY QueueTail, Zenon
<1> QED
  BY <1>1, Zenon DEF OpenPhase, NoOutcome

LEMMA AppendOutcome ==
  ASSUME TypeOK, OpenPhase, NEW t \in TaskRecord, queue' = Append(queue, t),
         t.task \notin {"connected", "connectFailed"}
  PROVE  NoOutcome'
<1>1. \A i \in DOMAIN queue' : \/ i \in DOMAIN queue /\ queue'[i] = queue[i]
                               \/ queue'[i] = t
  BY QueueAppend, Zenon
<1> QED
  BY <1>1, Zenon DEF OpenPhase, NoOutcome

LEMMA SameOutcome ==
  ASSUME OpenPhase, queue' = queue
  PROVE  NoOutcome'
BY Zenon DEF OpenPhase, NoOutcome

LEMMA QueuePhase ==
  ASSUME TypeOK, PhaseInv,
         Acks \/ Flushes \/ FlushesNothing \/ FlushOver \/ DownlinkEnds
           \/ (\E k \in Nat : Delivers(k)) \/ (\E used, retries, k \in Nat : Redrains(used, retries, k))
  PROVE  PhaseInv' /\ OpenPhase /\ OpenPhase'
<1> DEFINE Kinds == {"ack", "flush", "flushDone", "received", "sendFailed"}
<1>1. /\ Stays /\ SameRoute /\ pendingData' = pendingData
      /\ activityTimer' = activityTimer \/ activityTimer' = "uplinkOnly"
  BY Zenon DEF Acks, Flushes, FlushesNothing, FlushOver, DownlinkEnds, Delivers, Redrains, Drains,
     SameUp, SameTimer
<1>2. closed = FALSE /\ closed' = FALSE
  BY <1>1, Zenon DEF Stays
<1>3. OpenPhase /\ NoOutcome'
  <2>1. CASE \E used, retries, k \in Nat : Redrains(used, retries, k)
    <3>1. (sndUsed > 0 \/ drainRetries > 0) /\ queue' = queue
      BY <2>1, Zenon DEF Redrains
    <3> QED
      BY <1>2, <3>1, OpenWhen, SameOutcome, Zenon
  <2>2. CASE ~(\E used, retries, k \in Nat : Redrains(used, retries, k))
    <3>1. \E kinds \in SUBSET Kinds : HeadIs(kinds)
      <4>1. {"ack"} \in SUBSET Kinds /\ {"flush"} \in SUBSET Kinds /\ {"flushDone"} \in SUBSET Kinds
            /\ {"received"} \in SUBSET Kinds /\ {"flush", "flushDone"} \in SUBSET Kinds
        OBVIOUS
      <4> HIDE DEF Kinds
      <4> QED
        BY <2>2, <4>1, Zenon DEF Acks, Flushes, FlushesNothing, FlushOver, DownlinkEnds, Delivers
    <3>2. HeadIs(Kinds)
      BY <3>1 DEF HeadIs
    <3> QED
      BY <1>2, <3>2, OpenWhen, TailOutcome, Zenon
  <2> QED
    BY <2>1, <2>2
<1>4. activityTimer' # None
  BY <1>1, <1>3 DEF OpenPhase, None
<1> QED
  BY <1>1, <1>2, <1>3, <1>4, OpenKept, Zenon

LEMMA SendPhase ==
  ASSUME TypeOK, SendsInv, PhaseInv, NEW i \in DOMAIN sends, SendDone(i) \/ SendLost(i)
  PROVE  PhaseInv' /\ OpenPhase /\ OpenPhase'
<1>1. /\ Stays /\ SameRoute /\ pendingData' = pendingData /\ activityTimer' = activityTimer
  BY Zenon DEF SendDone, SendLost, SameTimer
<1>2. closed = FALSE /\ closed' = FALSE
  BY <1>1, Zenon DEF Stays
<1>3. OpenPhase
  <2>1. sends # <<>>
    OBVIOUS
  <2> QED
    BY <1>2, <2>1, OpenWhen, Zenon
<1>4. NoOutcome'
  <2>1. CASE SendDone(i)
    <3>1. queue' = Posted(sends[i])
      BY <2>1, PostedCases, Zenon DEF SendDone
    <3>2. \A j \in DOMAIN queue' : \/ j \in DOMAIN queue /\ queue'[j] = queue[j]
                                   \/ queue'[j].task \in {"ack", "flushDone"}
      BY <3>1, QueuePosted
    <3> QED
      BY <1>3, <3>2 DEF OpenPhase, NoOutcome
  <2>2. CASE SendLost(i)
    <3> DEFINE t == [task |-> "sendFailed", flush |-> sends[i].kind = "flush"]
    <3>1. t \in TaskRecord /\ t.task \notin {"connected", "connectFailed"}
      <4>1. (sends[i].kind = "flush") \in BOOLEAN
        OBVIOUS
      <4>2. t \in TaskRecord
        BY <4>1, TaskMakers, Zenon
      <4>3. t.task = "sendFailed"
        OBVIOUS
      <4> HIDE DEF t
      <4> QED
        BY <4>2, <4>3
    <3>2. queue' = Append(queue, t)
      BY <2>2, Zenon DEF SendLost
    <3> HIDE DEF t
    <3> QED
      BY <1>3, <3>1, <3>2, AppendOutcome, Zenon
  <2> QED
    BY <2>1, <2>2
<1>5. activityTimer' # None
  BY <1>1, <1>3, Zenon DEF OpenPhase
<1> QED
  BY <1>1, <1>2, <1>3, <1>4, <1>5, OpenKept, Zenon

LEMMA ArrivesPhase ==
  ASSUME TypeOK, PhaseInv, NEW outcome, NEW data, Arrives(outcome, data)
  PROVE  PhaseInv' /\ OpenPhase /\ OpenPhase'
<1>1. Stays /\ SameRoute /\ pendingData' = pendingData /\ activityTimer' = activityTimer
      /\ receives > 0
  BY Zenon DEF Arrives, SameUp, SameTimer
<1>2. closed = FALSE /\ closed' = FALSE
  BY <1>1, Zenon DEF Stays
<1>3. OpenPhase
  BY <1>1, <1>2, OpenWhen, Zenon
<1>4. NoOutcome'
  <2> DEFINE t == [task |-> "received", outcome |-> outcome, data |-> data]
  <2>1. t \in TaskRecord /\ queue' = Append(queue, t)
    BY TaskMakers, Zenon DEF Arrives
  <2>2. t.task = "received"
    OBVIOUS
  <2> HIDE DEF t
  <2>3. t.task \notin {"connected", "connectFailed"}
    BY <2>2
  <2> QED
    BY <1>3, <2>1, <2>3, AppendOutcome, Zenon
<1>5. activityTimer' # None
  BY <1>1, <1>3, Zenon DEF OpenPhase
<1> QED
  BY <1>1, <1>2, <1>3, <1>4, <1>5, OpenKept, Zenon

LEMMA CoalescesPhase ==
  ASSUME TypeOK, PhaseInv, Coalesces
  PROVE  PhaseInv' /\ OpenPhase /\ OpenPhase'
<1>1. /\ Stays /\ SameRoute /\ pendingData' = pendingData /\ activityTimer' = activityTimer
      /\ sniffing = FALSE /\ connecting = None /\ connection # None
      /\ queue' = queue \/ queue' = Append(queue, [task |-> "flush"])
  BY Zenon DEF Coalesces, SameTimer
<1>2. closed = FALSE /\ closed' = FALSE
  BY <1>1, Zenon DEF Stays
<1>3. OpenPhase
  BY <1>1, <1>2, OpenWhen, Zenon
<1>4. NoOutcome'
  <2>1. [task |-> "flush"].task \notin {"connected", "connectFailed"}
    OBVIOUS
  <2> QED
    BY <1>1, <1>3, <2>1, TaskMakers, SameOutcome, AppendOutcome, Zenon
<1>5. activityTimer' # None
  BY <1>1, <1>3, Zenon DEF OpenPhase
<1> QED
  BY <1>1, <1>2, <1>3, <1>4, <1>5, OpenKept, Zenon

LEMMA CommitsPhase ==
  ASSUME TypeOK, PhaseInv, NEW direct \in BOOLEAN, NEW pend, Commits(direct, pend)
  PROVE  PhaseInv' /\ SniffPhase /\ DialPhase' /\ Dialing'
<1>1. Stays /\ SameBuffer /\ sends' = sends /\ SameDown /\ SameRemote /\ SameTimer
      /\ recved' = recved /\ queue' = queue
      /\ sniffing' = FALSE /\ bypass' = direct
  BY Zenon DEF Commits, SameSends
<1>2. /\ connecting' = IF direct = TRUE THEN "direct" ELSE "proxy"
      /\ connection' = IF direct = TRUE THEN "direct" ELSE connection
  BY DEF Commits
<1>3. closed = FALSE /\ closed' = FALSE
  BY <1>1, Zenon DEF Stays
<1>4. SniffPhase
  <2>1. ~DialPhase
    BY DEF Commits, DialPhase, None
  <2>2. ~OpenPhase
    BY DEF Commits, OpenPhase
  <2> QED
    BY <1>3, <2>1, <2>2, Zenon DEF PhaseInv
<1>5. dial'.kind = connecting'
  BY DEF Commits
<1>6. Dialing'
  BY <1>1, <1>4, <1>5, Zenon DEF Dialing, SniffPhase, SameRemote
<1>7. Untouched'
  BY <1>1, <1>4, Zenon
     DEF SniffPhase, Untouched, SameBuffer, SameDown, SameLwip, SameReceive, SameRemote
<1>8. /\ connection' = IF bypass' = TRUE THEN "direct" ELSE None
      /\ connecting' = IF bypass' = TRUE THEN "direct" ELSE "proxy"
  <2>1. bypass' = direct /\ connection = None
    BY <1>1, <1>4, Zenon DEF SniffPhase
  <2> QED
    BY <1>2, <2>1
<1>9. DialPhase'
  <2>1. activityTimer' = None
    BY <1>1, <1>4, Zenon DEF SniffPhase, SameTimer
  <2> QED
    BY <1>1, <1>6, <1>7, <1>8, <2>1, Zenon DEF DialPhase
<1> QED
  BY <1>3, <1>4, <1>6, <1>9 DEF PhaseInv

LEMMA DialPhases ==
  ASSUME TypeOK, PhaseInv, closed = FALSE, dial.kind # None
  PROVE  DialPhase /\ Dialing
<1>1. NoDial.kind = None
  BY DialSorts
<1> QED
  BY <1>1, Zenon DEF PhaseInv, SniffPhase, OpenPhase, DialPhase, DialFailed, DialDone

LEMMA FirstTask ==
  ASSUME TypeOK, NEW t \in TaskRecord, queue = <<>>, queue' = Append(queue, t)
  PROVE  Len(queue') = 1 /\ queue'[1] = t
<1>1. Len(queue) = 0
  OBVIOUS
<1> QED
  BY <1>1, QueueAppend

LEMMA DialEndsPhase ==
  ASSUME TypeOK, PhaseInv, DialEnds \/ DialOpens
  PROVE  /\ PhaseInv' /\ DialPhase /\ Dialing /\ DialPhase'
         /\ DialEnds => DialFailed'
         /\ DialOpens => DialDone'
<1>1. /\ Stays /\ SameBuffer /\ sends' = sends /\ SameDown /\ SameTimer
      /\ recved' = recved /\ remoteSent' = remoteSent /\ sniffing' = sniffing
      /\ bypass' = bypass /\ connecting' = connecting /\ connection' = connection
      /\ dial.kind # None /\ dial' = NoDial
  BY Zenon DEF DialEnds, DialOpens, SameUp, SameSends, SameWindow, SameRemote
<1>2. closed = FALSE /\ closed' = FALSE
  BY <1>1, Zenon DEF Stays
<1>3. DialPhase /\ Dialing
  BY <1>1, <1>2, DialPhases, Zenon
<1>4. Untouched'
  BY <1>1, <1>3, Zenon
     DEF DialPhase, Untouched, SameBuffer, SameDown, SameLwip, SameReceive
<1>5. queue = <<>> /\ remoteOpen = FALSE /\ dial.kind = connecting
  BY <1>3, Zenon DEF Dialing
<1>6. DialEnds => DialFailed'
  <2> SUFFICES ASSUME DialEnds PROVE DialFailed'
    OBVIOUS
  <2> DEFINE t == [task |-> "connectFailed"]
  <2>1. t \in TaskRecord /\ queue' = Append(queue, t)
    BY TaskMakers, Zenon DEF DialEnds
  <2>2. t.task = "connectFailed"
    OBVIOUS
  <2> HIDE DEF t
  <2>3. Len(queue') = 1 /\ queue'[1] = t
    BY <1>5, <2>1, FirstTask, Zenon
  <2> QED
    BY <1>1, <1>5, <2>2, <2>3, Zenon DEF DialFailed, DialEnds, SameRemote
<1>7. DialOpens => DialDone'
  <2> SUFFICES ASSUME DialOpens PROVE DialDone'
    OBVIOUS
  <2> DEFINE t == [task |-> "connected", kind |-> dial.kind, initialData |-> dial.initialData]
  <2>1. dial.kind \in {"direct", "proxy"} /\ dial.initialData \in Seq(1..MaxUp)
    BY <1>1, DialSorts
  <2>2. t \in TaskRecord /\ queue' = Append(queue, t)
    BY <2>1, TaskMakers, Zenon DEF DialOpens
  <2>3. t.task = "connected" /\ t.kind = dial.kind
    OBVIOUS
  <2> HIDE DEF t
  <2>4. Len(queue') = 1 /\ queue'[1] = t
    BY <1>5, <2>2, FirstTask, Zenon
  <2> QED
    BY <1>1, <1>5, <2>3, <2>4, Zenon DEF DialDone
<1>8. DialPhase'
  BY <1>1, <1>3, <1>4, <1>6, <1>7, Zenon DEF DialPhase, SameTimer
<1> QED
  BY <1>2, <1>3, <1>6, <1>7, <1>8, Zenon DEF PhaseInv

LEMMA ConnectsPhase ==
  ASSUME TypeOK, PhaseInv, NEW initial, Connects(initial)
  PROVE  /\ PhaseInv' /\ DialPhase /\ DialDone /\ OpenPhase' /\ queue' = <<>>
         /\ queue[1] = Head(queue) /\ Head(queue).kind = connecting
         /\ initial = queue[1].initialData
<1>1. /\ Stays /\ HeadIs({"connected"})
      /\ sniffing' = sniffing /\ dial' = dial
      /\ connecting' = None /\ connection' = Head(queue).kind
      /\ activityTimer' = "idle" /\ pendingData' = <<>> /\ initial = Head(queue).initialData
  BY Zenon DEF Connects
<1>2. closed = FALSE /\ closed' = FALSE
  BY <1>1, Zenon DEF Stays
<1>3. /\ Len(queue) \in Nat /\ 1 \in DOMAIN queue /\ queue[1] = Head(queue)
      /\ queue[1].task = "connected" /\ queue # <<>> /\ queue' = Tail(queue)
  BY <1>1, QueueTail DEF HeadIs
<1>4. DialPhase /\ DialDone
  <2>1. ~SniffPhase /\ ~OpenPhase /\ ~Dialing /\ ~DialFailed
    BY <1>3 DEF SniffPhase, OpenPhase, Dialing, DialFailed
  <2> QED
    BY <1>2, <2>1, Zenon DEF PhaseInv, DialPhase
<1>5. queue' = <<>>
  <2>1. Len(queue) = 1 /\ queue \in Seq(TaskRecord)
    BY <1>4, Sorts DEF DialDone
  <2>2. Tail(queue) \in Seq(TaskRecord) /\ Len(Tail(queue)) = 0
    BY <1>3, <2>1, HeadTailProperties
  <2> QED
    BY <1>3, <2>2, EmptySeq
<1>6. Head(queue).kind = connecting /\ connecting # None
  BY <1>3, <1>4 DEF DialPhase, DialDone, None
<1>7. OpenPhase'
  <2>1. "idle" # None /\ \A i \in DOMAIN <<>> : FALSE
    BY DEF None
  <2> QED
    BY <1>1, <1>4, <1>5, <1>6, <2>1, Zenon DEF OpenPhase, DialPhase, DialDone
<1> QED
  BY <1>1, <1>2, <1>3, <1>4, <1>5, <1>6, <1>7, Zenon DEF PhaseInv

LEMMA ClosedPhase ==
  ASSUME TypeOK, PhaseInv, Releases \/ AfterClose
  PROVE  PhaseInv'
<1>1. closed' = TRUE
  BY DEF Releases, AfterClose
<1> SUFFICES ASSUME remoteOpen' = TRUE
             PROVE  Len(queue') = 1 /\ queue'[1].task = "connected"
  BY <1>1 DEF PhaseInv
<1>2. CASE Releases
  <2>1. remoteOpen = TRUE /\ connection = None /\ closed = FALSE
    BY <1>2, Zenon DEF Releases
  <2>2. DialPhase /\ DialDone
    <3>1. ~SniffPhase /\ ~OpenPhase /\ ~Dialing /\ ~DialFailed
      BY <2>1 DEF SniffPhase, OpenPhase, Dialing, DialFailed
    <3> QED
      BY <2>1, <3>1, Zenon DEF PhaseInv, DialPhase
  <2>3. ~HeadIs({"sendFailed", "connectFailed", "received"})
    BY <2>2, QueueTail DEF DialDone
  <2> QED
    BY <1>2, <2>2, <2>3 DEF Releases, DialDone
<1>3. CASE AfterClose
  <2>1. CASE queue' = queue /\ remoteOpen' = remoteOpen
    BY <1>3, <2>1, Zenon DEF PhaseInv, AfterClose
  <2>2. ASSUME queue # <<>>, queue' = Tail(queue), remoteOpen' = remoteOpen,
               Head(queue).task # "connected"
        PROVE  FALSE
    <3>1. queue[1].task = "connected"
      BY <1>3, <2>2, Zenon DEF PhaseInv, AfterClose
    <3>2. queue[1] = Head(queue)
      BY <2>2, Sorts
    <3> QED
      BY <2>2, <3>1, <3>2
  <2> QED
    BY <1>3, <2>1, <2>2 DEF AfterClose
<1> QED
  BY <1>2, <1>3

LEMMA StepPhase ==
  ASSUME TypeOK, SendsInv, PhaseInv, Step
  PROVE  PhaseInv'
<1>1. CASE Quiet
  BY <1>1, PhaseKept, Zenon DEF Quiet, Stays, SameUp, SameSends, SameWindow
<1>2. CASE Buffers
  BY <1>2, PhaseKept, Zenon DEF Buffers, Stays, SameSends, SameTimer
<1> QED
  BY <1>1, <1>2, CommitsPhase, DialEndsPhase, ConnectsPhase, ClosedPhase, QueuePhase, SendPhase,
     ArrivesPhase, CoalescesPhase, Zenon DEF Step

LEMMA InitialPhase ==
  ASSUME Init
  PROVE  TypeOK /\ PcbInv /\ SendsInv /\ PhaseInv
<1>1. /\ bypass \in BOOLEAN /\ handshakeCarriesInitialData \in BOOLEAN /\ sniffing \in BOOLEAN
  BY DEF Init
<1>2. /\ connecting = IF sniffing = TRUE THEN None ELSE IF bypass = TRUE THEN "direct" ELSE "proxy"
      /\ connection = IF sniffing = FALSE /\ bypass = TRUE THEN "direct" ELSE None
      /\ dial = IF sniffing = TRUE THEN NoDial ELSE [kind |-> connecting, initialData |-> <<>>]
      /\ sniffDeadline \in BOOLEAN
  BY <1>1 DEF Init
<1>3. /\ pendingData = <<>> /\ coalesceBuffer = <<>>
      /\ coalesceScheduled = FALSE /\ coalesceFlushInFlight = FALSE
      /\ pendingWrite = <<>> /\ receiveInFlight = FALSE
      /\ uplinkDone = FALSE /\ downlinkDone = FALSE
      /\ handshakeTimer = TRUE
      /\ activityTimer = None /\ hasActivity = FALSE
      /\ queue = <<>> /\ sends = <<>> /\ receives = 0 /\ drainRetries = 0
      /\ closed = FALSE /\ misuse = FALSE
      /\ delivered = 0 /\ recved = 0 /\ sndUsed = 0 /\ finSeen = FALSE
      /\ toLwip = <<>> /\ handedOver = <<>>
      /\ remoteOpen = FALSE /\ remoteSent = 0 /\ remoteEof = FALSE /\ stray = FALSE
  BY Zenon DEF Init
<1>4. TypeOK
  <2>1. Sorted
    BY <1>1, <1>2, <1>3 DEF Sorted
  <2>2. /\ connecting \in {None, "direct", "proxy"} /\ connection \in {None, "direct", "proxy"}
        /\ dial \in [kind : {None, "direct", "proxy"}, initialData : Seq(1..MaxUp)]
    BY <1>1, <1>2 DEF NoDial
  <2>3. /\ <<>> \in Seq(1..MaxUp) /\ <<>> \in Seq(1..MaxDown) /\ <<>> \in Seq(SendRecord)
        /\ <<>> \in Seq(TaskRecord) /\ 0 \in Nat
        /\ 0 \in 0..MaxUp /\ 0 \in 0..MaxDown /\ 0 \in 0..TCP_SND_BUF
        /\ None \in {None, "idle", "uplinkOnly", "downlinkOnly"}
    BY Sizes
  <2>4. RouteSort /\ BufferSort /\ SendSort /\ LwipSort /\ ReceiveSort
    BY <1>1, <1>3, <2>2, <2>3, Zenon DEF RouteSort, BufferSort, SendSort, LwipSort, ReceiveSort
  <2>5. RemoteSort /\ TimerSort /\ WindowSort /\ PcbSort /\ PendingSort /\ QueueSort
    BY <1>3, <2>3, Zenon DEF RemoteSort, TimerSort, WindowSort, PcbSort, PendingSort, QueueSort
  <2> QED
    BY <2>1, <2>4, <2>5, TypeParts, Zenon
<1>5. PcbInv /\ SendsInv
  BY <1>3 DEF PcbInv, SendsInv
<1>6. Untouched
  BY <1>3, Zenon DEF Untouched
<1>7. SniffPhase \/ DialPhase
  <2>1. CASE sniffing = TRUE
    BY <1>2, <1>3, <1>6, <2>1, Zenon DEF SniffPhase
  <2>2. CASE sniffing = FALSE
    <3>1. dial.kind = connecting
      BY <1>2, <2>2
    <3>2. Dialing
      BY <1>3, <3>1, Zenon DEF Dialing
    <3>3. connecting = IF bypass = TRUE THEN "direct" ELSE "proxy"
      BY <1>2, <2>2
    <3>4. connection = IF bypass = TRUE THEN "direct" ELSE None
      BY <1>2, <2>2
    <3> QED
      BY <1>3, <1>6, <2>2, <3>2, <3>3, <3>4, Zenon DEF DialPhase
  <2> QED
    BY <1>1, <2>1, <2>2
<1> QED
  BY <1>3, <1>4, <1>5, <1>7 DEF PhaseInv

-----------------------------------------------------------------------------
(* The flags of the coalescing buffer. *)

\* No flush is posted, ended or started.
SameTasks == /\ HasFlush' <=> HasFlush
             /\ HasEnd' <=> HasEnd
             /\ OneFlush => OneFlush'
             /\ OneEnd => OneEnd'
SameRuns == (HasRun' <=> HasRun) /\ (OneRun => OneRun')

LEMMA KeptTasks ==
  ASSUME queue' = queue PROVE SameTasks
BY Zenon DEF SameTasks, HasFlush, HasEnd, OneFlush, OneEnd, FlushEnds

LEMMA KeptRuns ==
  ASSUME sends' = sends PROVE SameRuns
BY Zenon DEF SameRuns, HasRun, OneRun, FlushRuns

LEMMA FlushKept ==
  ASSUME FlushInv, Stays, SameBuffer, SameTasks, SameRuns
  PROVE  FlushInv'
BY Zenon DEF FlushInv, Stays, SameBuffer, SameTasks, SameRuns

LEMMA TaskTaken ==
  ASSUME TypeOK, NEW kinds, HeadIs(kinds)
  PROVE  /\ "flush" \notin kinds /\ "flushDone" \notin kinds /\ "sendFailed" \notin kinds
              => SameTasks
         /\ kinds = {"flush"} => /\ HasFlush
                                 /\ OneFlush => ~HasFlush' /\ OneFlush'
                                 /\ HasEnd' <=> HasEnd
                                 /\ OneEnd => OneEnd'
         /\ kinds = {"flushDone"} => /\ HasEnd
                                     /\ OneEnd => ~HasEnd' /\ OneEnd'
                                     /\ HasFlush' <=> HasFlush
                                     /\ OneFlush => OneFlush'
<1>1. /\ 1 \in DOMAIN queue /\ queue[1].task \in kinds
      /\ \A i \in DOMAIN queue' : i + 1 \in DOMAIN queue /\ queue'[i] = queue[i + 1]
      /\ \A i \in DOMAIN queue : i # 1 => i - 1 \in DOMAIN queue' /\ queue'[i - 1] = queue[i]
  BY QueueTail, Zenon
<1>2. /\ \A i \in DOMAIN queue' : i \in Nat /\ i + 1 # 1
      /\ \A i, j \in DOMAIN queue' : i + 1 = j + 1 => i = j
  <2>1. DOMAIN queue' = 1..Len(queue) - 1 /\ Len(queue) \in Nat
    BY QueueTail, Zenon
  <2> QED
    BY <2>1
<1>3. OneFlush => OneFlush'
  <2> SUFFICES ASSUME OneFlush, NEW i \in DOMAIN queue', NEW j \in DOMAIN queue',
                      queue'[i].task = "flush", queue'[j].task = "flush"
               PROVE  i = j
    BY DEF OneFlush
  <2>1. queue[i + 1].task = "flush" /\ queue[j + 1].task = "flush"
        /\ i + 1 \in DOMAIN queue /\ j + 1 \in DOMAIN queue
    BY <1>1
  <2>2. i + 1 = j + 1
    BY <2>1, Zenon DEF OneFlush
  <2> QED
    BY <1>2, <2>2
<1>4. OneEnd => OneEnd'
  <2> SUFFICES ASSUME OneEnd, NEW i \in DOMAIN queue', NEW j \in DOMAIN queue',
                      FlushEnds(i)', FlushEnds(j)'
               PROVE  i = j
    BY DEF OneEnd
  <2>1. FlushEnds(i + 1) /\ FlushEnds(j + 1)
    BY <1>1, Zenon DEF FlushEnds
  <2>2. i + 1 = j + 1
    BY <1>1, <2>1, Zenon DEF OneEnd
  <2> QED
    BY <1>2, <2>2
<1>5. (HasFlush' => HasFlush) /\ (HasEnd' => HasEnd)
  <2>1. HasFlush' => HasFlush
    <3> SUFFICES ASSUME NEW i \in DOMAIN queue', queue'[i].task = "flush" PROVE HasFlush
      BY Zenon DEF HasFlush
    <3>1. i + 1 \in DOMAIN queue /\ queue[i + 1].task = "flush"
      BY <1>1
    <3> QED
      BY <3>1, Zenon DEF HasFlush
  <2>2. HasEnd' => HasEnd
    <3> SUFFICES ASSUME NEW i \in DOMAIN queue', FlushEnds(i)' PROVE HasEnd
      BY Zenon DEF HasEnd
    <3>1. i + 1 \in DOMAIN queue /\ FlushEnds(i + 1)
      BY <1>1 DEF FlushEnds
    <3> QED
      BY <3>1, Zenon DEF HasEnd
  <2> QED
    BY <2>1, <2>2
<1>6. queue[1].task # "flush" => (HasFlush => HasFlush')
  BY <1>1, Zenon DEF HasFlush
<1>7. ~FlushEnds(1) => (HasEnd => HasEnd')
  BY <1>1, ZenonT(30) DEF HasEnd, FlushEnds
<1>8. queue[1].task = "flush" => HasFlush /\ (OneFlush => ~HasFlush')
  BY <1>1, <1>2, Zenon DEF HasFlush, OneFlush
<1>9. queue[1].task = "flushDone" => HasEnd /\ (OneEnd => ~HasEnd')
  <2> SUFFICES ASSUME queue[1].task = "flushDone" PROVE HasEnd /\ (OneEnd => ~HasEnd')
    OBVIOUS
  <2>1. FlushEnds(1)
    BY DEF FlushEnds
  <2>2. HasEnd
    BY <1>1, <2>1, Zenon DEF HasEnd
  <2>3. ASSUME OneEnd, HasEnd' PROVE FALSE
    <3>1. PICK i \in DOMAIN queue' : FlushEnds(i)'
      BY <2>3, Zenon DEF HasEnd
    <3>2. FlushEnds(i + 1)
      BY <1>1, <3>1, Zenon DEF FlushEnds
    <3> QED
      BY <1>1, <1>2, <2>1, <2>3, <3>2, Zenon DEF OneEnd
  <2> QED
    BY <2>2, <2>3
<1>10. ASSUME "flush" \notin kinds, "flushDone" \notin kinds, "sendFailed" \notin kinds
       PROVE  SameTasks
  <2>1. queue[1].task # "flush" /\ ~FlushEnds(1)
    BY <1>1, <1>10 DEF FlushEnds
  <2> QED
    BY <1>3, <1>4, <1>5, <1>6, <1>7, <2>1, Zenon DEF SameTasks
<1>11. ASSUME kinds = {"flush"}
       PROVE  HasFlush /\ (OneFlush => ~HasFlush' /\ OneFlush') /\ (HasEnd' <=> HasEnd)
              /\ (OneEnd => OneEnd')
  <2>1. queue[1].task = "flush" /\ ~FlushEnds(1)
    BY <1>1, <1>11 DEF FlushEnds
  <2> QED
    BY <1>3, <1>4, <1>5, <1>7, <1>8, <2>1, Zenon
<1>12. ASSUME kinds = {"flushDone"}
       PROVE  HasEnd /\ (OneEnd => ~HasEnd' /\ OneEnd') /\ (HasFlush' <=> HasFlush)
              /\ (OneFlush => OneFlush')
  <2>1. queue[1].task = "flushDone"
    BY <1>1, <1>12
  <2>2. queue[1].task # "flush"
    BY <2>1
  <2> QED
    BY <1>3, <1>4, <1>5, <1>6, <1>9, <2>1, <2>2, Zenon
<1> QED
  BY <1>10, <1>11, <1>12, Zenon

LEMMA TaskPosted ==
  ASSUME TypeOK, NEW t \in TaskRecord, queue' = Append(queue, t)
  PROVE  /\ t.task \in {"ack", "connected", "connectFailed", "received"} => SameTasks
         /\ t.task = "sendFailed" /\ t.flush = FALSE => SameTasks
         /\ t.task = "flush" => /\ HasFlush' /\ (HasEnd' <=> HasEnd)
                                /\ ~HasFlush => OneFlush'
                                /\ OneEnd => OneEnd'
         /\ t.task = "flushDone" \/ (t.task = "sendFailed" /\ t.flush = TRUE) =>
              /\ HasEnd' /\ (HasFlush' <=> HasFlush)
              /\ ~HasEnd => OneEnd'
              /\ OneFlush => OneFlush'
<1>1. PICK n : n = Len(queue) + 1
  OBVIOUS
<1> DEFINE Ends == t.task = "flushDone" \/ (t.task = "sendFailed" /\ t.flush = TRUE)
<1>2. /\ \A i \in DOMAIN queue : i \in DOMAIN queue' /\ queue'[i] = queue[i]
      /\ n \in DOMAIN queue' /\ queue'[n] = t
      /\ \A i \in DOMAIN queue' : i \in DOMAIN queue \/ i = n
  BY <1>1, QueueAppend, Zenon
<1>3. FlushEnds(n)' <=> Ends
  BY <1>2, Zenon DEF FlushEnds
<1>4. \A i \in DOMAIN queue : FlushEnds(i)' <=> FlushEnds(i)
  BY <1>2, Zenon DEF FlushEnds
<1> HIDE DEF Ends
<1>5. t.task # "flush" => (HasFlush' <=> HasFlush) /\ (OneFlush => OneFlush')
  BY <1>2, Zenon DEF HasFlush, OneFlush
<1>6. ~Ends => (HasEnd' <=> HasEnd) /\ (OneEnd => OneEnd')
  <2> SUFFICES ASSUME ~Ends PROVE (HasEnd' <=> HasEnd) /\ (OneEnd => OneEnd')
    OBVIOUS
  <2>1. \A i \in DOMAIN queue' : FlushEnds(i)' => i \in DOMAIN queue /\ FlushEnds(i)
    BY <1>2, <1>3, <1>4, Zenon
  <2> QED
    BY <1>2, <1>4, <2>1, Zenon DEF HasEnd, OneEnd
<1>7. t.task = "flush" => HasFlush' /\ (~HasFlush => OneFlush')
  BY <1>2, Zenon DEF HasFlush, OneFlush
<1>8. Ends => HasEnd' /\ (~HasEnd => OneEnd')
  <2> SUFFICES ASSUME Ends PROVE HasEnd' /\ (~HasEnd => OneEnd')
    OBVIOUS
  <2>1. HasEnd'
    BY <1>2, <1>3, Zenon DEF HasEnd
  <2>2. ~HasEnd => OneEnd'
    <3>1. ~HasEnd => \A i \in DOMAIN queue' : FlushEnds(i)' => i = n
      BY <1>2, <1>4, Zenon DEF HasEnd
    <3> QED
      BY <3>1, Zenon DEF OneEnd
  <2> QED
    BY <2>1, <2>2
<1>9. t.task \in {"ack", "connected", "connectFailed", "received"} => ~Ends /\ t.task # "flush"
  BY DEF Ends
<1>10. t.task = "sendFailed" /\ t.flush = FALSE => ~Ends /\ t.task # "flush"
  BY DEF Ends
<1>11. t.task = "flush" => ~Ends
  BY DEF Ends
<1>12. Ends => t.task # "flush"
  BY <1>11
<1>13. t.task = "flushDone" \/ (t.task = "sendFailed" /\ t.flush = TRUE) => Ends
  BY DEF Ends
<1> QED
  BY <1>5, <1>6, <1>7, <1>8, <1>9, <1>10, <1>11, <1>12, <1>13, Zenon DEF SameTasks

(* The coroutines after one is launched, ends or passes its next chunk. *)
LEMMA SendsAppended ==
  ASSUME TypeOK, NEW co \in SendRecord, sends' = Append(sends, co)
  PROVE  /\ Len(sends) \in Nat /\ DOMAIN sends = 1..Len(sends)
         /\ Len(sends') = Len(sends) + 1 /\ DOMAIN sends' = 1..Len(sends) + 1
         /\ \A j \in DOMAIN sends : j \in DOMAIN sends' /\ sends'[j] = sends[j]
         /\ Len(sends) + 1 \in DOMAIN sends' /\ sends'[Len(sends) + 1] = co
         /\ \A j \in DOMAIN sends' : j \in DOMAIN sends \/ j = Len(sends) + 1
<1>1. sends \in Seq(SendRecord)
  BY Sorts
<1>2. Len(sends) \in Nat /\ DOMAIN sends = 1..Len(sends)
  BY <1>1, LenProperties
<1>3. /\ sends' \in Seq(SendRecord) /\ Len(sends') = Len(sends) + 1
      /\ \A i \in 1..Len(sends) : sends'[i] = sends[i]
      /\ sends'[Len(sends) + 1] = co
  BY <1>1, AppendProperties
<1>4. DOMAIN sends' = 1..Len(sends) + 1
  BY <1>2, <1>3, LenProperties
<1> QED
  BY <1>2, <1>3, <1>4

LEMMA SendsRemoved ==
  ASSUME TypeOK, NEW i \in DOMAIN sends, sends' = RemoveAt(sends, i)
  PROVE  /\ Len(sends) \in Nat /\ DOMAIN sends = 1..Len(sends) /\ i \in Nat
         /\ Len(sends') = Len(sends) - 1 /\ DOMAIN sends' = 1..Len(sends) - 1
         /\ \A j \in DOMAIN sends' :
              /\ j \in Nat
              /\ j < i => j \in DOMAIN sends /\ j # i /\ sends'[j] = sends[j]
              /\ ~(j < i) => j + 1 \in DOMAIN sends /\ j + 1 # i /\ sends'[j] = sends[j + 1]
         /\ \A j \in DOMAIN sends : j # i => \E k \in DOMAIN sends' : sends'[k] = sends[j]
<1>1. sends \in Seq(SendRecord)
  BY Sorts
<1>2. Len(sends) \in Nat /\ DOMAIN sends = 1..Len(sends) /\ i \in Nat /\ i >= 1 /\ i <= Len(sends)
  BY <1>1, LenProperties
<1>3. /\ sends' \in Seq(SendRecord) /\ Len(sends') = Len(sends) - 1
      /\ \A j \in 1..Len(sends) - 1 : sends'[j] = IF j < i THEN sends[j] ELSE sends[j + 1]
  BY <1>1, RemoveFacts
<1>4. DOMAIN sends' = 1..Len(sends) - 1
  BY <1>2, <1>3, LenProperties
<1>5. \A j \in DOMAIN sends' :
        /\ j \in Nat
        /\ j < i => j \in DOMAIN sends /\ j # i /\ sends'[j] = sends[j]
        /\ ~(j < i) => j + 1 \in DOMAIN sends /\ j + 1 # i /\ sends'[j] = sends[j + 1]
  BY <1>2, <1>3, <1>4
<1>6. \A j \in DOMAIN sends : j # i => \E k \in DOMAIN sends' : sends'[k] = sends[j]
  <2> SUFFICES ASSUME NEW j \in DOMAIN sends, j # i
               PROVE  \E k \in DOMAIN sends' : sends'[k] = sends[j]
    OBVIOUS
  <2>1. CASE j < i
    <3>1. j \in DOMAIN sends'
      BY <1>2, <1>4, <2>1
    <3> QED
      BY <1>5, <2>1, <3>1
  <2>2. CASE ~(j < i)
    <3>1. j - 1 \in DOMAIN sends' /\ ~(j - 1 < i) /\ (j - 1) + 1 = j
      BY <1>2, <1>4, <2>2
    <3>2. sends'[j - 1] = sends[j]
      BY <1>5, <3>1
    <3> QED
      BY <3>1, <3>2
  <2> QED
    BY <2>1, <2>2
<1> QED
  BY <1>2, <1>3, <1>4, <1>5, <1>6

LEMMA SendsShortened ==
  ASSUME TypeOK, NEW i \in DOMAIN sends, NEW c, sends' = [sends EXCEPT ![i].chunks = c]
  PROVE  /\ DOMAIN sends' = DOMAIN sends
         /\ \A j \in DOMAIN sends : j # i => sends'[j] = sends[j]
         /\ sends'[i].kind = sends[i].kind /\ sends'[i].chunks = c
         /\ sends'[i].totalAck = sends[i].totalAck
<1>1. sends' = [sends EXCEPT ![i] = [sends[i] EXCEPT !.chunks = c]]
  OBVIOUS
<1>2. DOMAIN sends' = DOMAIN sends /\ sends'[i] = [sends[i] EXCEPT !.chunks = c]
  BY <1>1
<1>3. \A j \in DOMAIN sends : j # i => sends'[j] = sends[j]
  BY <1>1
<1>4. /\ [sends[i] EXCEPT !.chunks = c].kind = sends[i].kind
      /\ [sends[i] EXCEPT !.chunks = c].chunks = c
      /\ [sends[i] EXCEPT !.chunks = c].totalAck = sends[i].totalAck
  BY CoSorts DEF SendRecord
<1> QED
  BY <1>2, <1>3, <1>4

LEMMA RunLaunched ==
  ASSUME TypeOK, NEW co \in SendRecord, sends' = Append(sends, co)
  PROVE  /\ co.kind # "flush" => SameRuns
         /\ co.kind = "flush" => HasRun' /\ (~HasRun => OneRun')
<1>0. PICK n : n = Len(sends) + 1
  OBVIOUS
<1>1. /\ \A j \in DOMAIN sends : j \in DOMAIN sends' /\ sends'[j] = sends[j]
      /\ n \in DOMAIN sends' /\ sends'[n] = co
      /\ \A j \in DOMAIN sends' : j \in DOMAIN sends \/ j = n
  BY <1>0, SendsAppended, Zenon
<1> QED
  BY <1>1, Zenon DEF SameRuns, HasRun, OneRun, FlushRuns

LEMMA RunEnded ==
  ASSUME TypeOK, NEW i \in DOMAIN sends, sends' = RemoveAt(sends, i), OneRun
  PROVE  /\ OneRun'
         /\ sends[i].kind # "flush" => SameRuns
         /\ sends[i].kind = "flush" => ~HasRun'
<1>1. /\ \A j \in DOMAIN sends' :
           /\ j < i => j \in DOMAIN sends /\ j # i /\ sends'[j] = sends[j]
           /\ ~(j < i) => j + 1 \in DOMAIN sends /\ j + 1 # i /\ sends'[j] = sends[j + 1]
      /\ \A j \in DOMAIN sends : j # i => \E k \in DOMAIN sends' : sends'[k] = sends[j]
  BY SendsRemoved, ZenonT(30)
<1>2. i \in Nat /\ \A j \in DOMAIN sends' : j \in Nat
  BY SendsRemoved, Zenon
<1>3. \A j \in DOMAIN sends' : FlushRuns(j)' =>
        /\ j < i => j \in DOMAIN sends /\ j # i /\ FlushRuns(j)
        /\ ~(j < i) => j + 1 \in DOMAIN sends /\ j + 1 # i /\ FlushRuns(j + 1)
  BY <1>1 DEF FlushRuns
<1>4. OneRun'
  <2> SUFFICES ASSUME NEW j \in DOMAIN sends', NEW k \in DOMAIN sends',
                      FlushRuns(j)', FlushRuns(k)'
               PROVE  j = k
    BY DEF OneRun
  <2> DEFINE a == IF j < i THEN j ELSE j + 1
             b == IF k < i THEN k ELSE k + 1
  <2>1. a \in DOMAIN sends /\ a # i /\ FlushRuns(a)
    BY <1>3
  <2>2. b \in DOMAIN sends /\ b # i /\ FlushRuns(b)
    BY <1>3
  <2>3. a = b
    BY <2>1, <2>2, Zenon DEF OneRun
  <2>4. j \in Nat /\ k \in Nat
    BY <1>2
  <2> QED
    BY <1>2, <2>1, <2>3, <2>4
<1>5. HasRun' => \E j \in DOMAIN sends : j # i /\ FlushRuns(j)
  BY <1>3, Zenon DEF HasRun
<1>6. (\E j \in DOMAIN sends : j # i /\ FlushRuns(j)) => HasRun'
  <2> SUFFICES ASSUME NEW j \in DOMAIN sends, j # i, FlushRuns(j) PROVE HasRun'
    OBVIOUS
  <2>1. PICK k \in DOMAIN sends' : sends'[k] = sends[j]
    BY <1>1, Zenon
  <2>2. FlushRuns(k)'
    BY <2>1, Zenon DEF FlushRuns
  <2> QED
    BY <2>2, Zenon DEF HasRun
<1>7. sends[i].kind = "flush" => ~HasRun'
  BY <1>5, Zenon DEF OneRun, FlushRuns
<1>8. sends[i].kind # "flush" => SameRuns
  BY <1>4, <1>5, <1>6, Zenon DEF SameRuns, HasRun, FlushRuns
<1> QED
  BY <1>4, <1>7, <1>8

LEMMA RunContinues ==
  ASSUME TypeOK, NEW i \in DOMAIN sends, NEW c, sends' = [sends EXCEPT ![i].chunks = c]
  PROVE  SameRuns
<1>1. DOMAIN sends' = DOMAIN sends /\ \A j \in DOMAIN sends : sends'[j].kind = sends[j].kind
  BY SendsShortened, Zenon
<1>2. \A j \in DOMAIN sends : FlushRuns(j)' <=> FlushRuns(j)
  BY <1>1 DEF FlushRuns
<1> QED
  BY <1>1, <1>2, Zenon DEF SameRuns, HasRun, OneRun

LEMMA LastChunk ==
  ASSUME TypeOK, SendsInv, NEW i \in DOMAIN sends
  PROVE  /\ Len(sends[i].chunks) \in Nat /\ Len(sends[i].chunks) >= 1
         /\ Tail(sends[i].chunks) = <<>> <=> Len(sends[i].chunks) = 1
<1> DEFINE c == sends[i].chunks
<1>1. c \in Seq(Seq(1..MaxUp)) /\ c # <<>>
  BY CoSorts, Zenon DEF SendsInv
<1> HIDE DEF c
<1>2. Len(c) \in Nat /\ Len(c) >= 1 /\ Tail(c) \in Seq(Seq(1..MaxUp)) /\ Len(Tail(c)) = Len(c) - 1
  BY <1>1, HeadTailProperties, LenProperties, EmptySeq
<1>3. Tail(c) = <<>> <=> Len(c) = 1
  <2>1. Tail(c) = <<>> <=> Len(Tail(c)) = 0
    BY <1>2, EmptySeq
  <2> QED
    BY <1>2, <2>1, SMTT(30)
<1> QED
  BY <1>2, <1>3 DEF c

LEMMA FlushSame ==
  ASSUME FlushInv, Stays, SameBuffer, sends' = sends, queue' = queue
  PROVE  FlushInv'
BY KeptTasks, KeptRuns, FlushKept, Zenon

LEMMA CoalescesFlush ==
  ASSUME TypeOK, FlushInv, Coalesces
  PROVE  FlushInv'
<1>1. Stays /\ closed = FALSE /\ closed' = FALSE /\ sends' = sends
      /\ coalesceFlushInFlight' = coalesceFlushInFlight
  BY Zenon DEF Coalesces, Stays, SameSends
<1>2. SameRuns
  BY <1>1, KeptRuns, Zenon
<1>3. CASE /\ coalesceFlushInFlight = TRUE \/ coalesceScheduled = TRUE
           /\ coalesceScheduled' = coalesceScheduled /\ queue' = queue
  BY <1>1, <1>2, <1>3, KeptTasks, Zenon DEF FlushInv, SameTasks, SameRuns
<1>4. CASE /\ coalesceFlushInFlight = FALSE /\ coalesceScheduled = FALSE
           /\ coalesceScheduled' = TRUE /\ queue' = Append(queue, [task |-> "flush"])
  <2>1. [task |-> "flush"] \in TaskRecord /\ [task |-> "flush"].task = "flush"
    BY TaskMakers
  <2>2. HasFlush' /\ (HasEnd' <=> HasEnd) /\ (~HasFlush => OneFlush') /\ (OneEnd => OneEnd')
    BY <1>4, <2>1, TaskPosted, Zenon
  <2>3. ~(FALSE = TRUE)
    OBVIOUS
  <2> QED
    BY <1>1, <1>2, <1>4, <2>2, <2>3, Zenon DEF FlushInv, SameRuns
<1> QED
  BY <1>3, <1>4, Zenon DEF Coalesces

LEMMA DialEndsFlush ==
  ASSUME TypeOK, FlushInv, DialEnds \/ DialOpens
  PROVE  FlushInv'
<1>1. Stays /\ SameBuffer /\ sends' = sends
  BY Zenon DEF DialEnds, DialOpens, SameUp, SameSends
<1>2. PICK t \in TaskRecord : queue' = Append(queue, t) /\ t.task \in {"connected", "connectFailed"}
  <2>1. CASE DialEnds
    <3>1. [task |-> "connectFailed"].task \in {"connected", "connectFailed"}
      OBVIOUS
    <3> QED
      BY <2>1, <3>1, TaskMakers, Zenon DEF DialEnds
  <2>2. CASE DialOpens
    <3> DEFINE t == [task |-> "connected", kind |-> dial.kind, initialData |-> dial.initialData]
    <3>1. dial.kind \in {"direct", "proxy"} /\ dial.initialData \in Seq(1..MaxUp)
      BY <2>2, DialSorts DEF DialOpens
    <3>2. t \in TaskRecord /\ queue' = Append(queue, t)
      BY <2>2, <3>1, TaskMakers, Zenon DEF DialOpens
    <3>3. t.task \in {"connected", "connectFailed"}
      OBVIOUS
    <3> QED
      BY <3>2, <3>3, Zenon
  <2> QED
    BY <2>1, <2>2
<1>3. t.task \in {"ack", "connected", "connectFailed", "received"}
  BY <1>2
<1> QED
  BY <1>1, <1>2, <1>3, TaskPosted, KeptRuns, FlushKept, Zenon

LEMMA ArrivesFlush ==
  ASSUME TypeOK, FlushInv, NEW outcome, NEW data, Arrives(outcome, data)
  PROVE  FlushInv'
<1> DEFINE t == [task |-> "received", outcome |-> outcome, data |-> data]
<1>1. Stays /\ SameBuffer /\ sends' = sends
  BY Zenon DEF Arrives, SameUp, SameSends
<1>2. t \in TaskRecord /\ queue' = Append(queue, t)
  BY TaskMakers, Zenon DEF Arrives
<1>3. t.task \in {"ack", "connected", "connectFailed", "received"}
  OBVIOUS
<1> HIDE DEF t
<1> QED
  BY <1>1, <1>2, <1>3, TaskPosted, KeptRuns, FlushKept, Zenon

LEMMA TakenFlush ==
  ASSUME TypeOK, FlushInv, Stays, SameBuffer, sends' = sends, HeadIs({"ack"}) \/ HeadIs({"received"})
  PROVE  FlushInv'
<1>1. /\ "flush" \notin {"ack"} /\ "flushDone" \notin {"ack"} /\ "sendFailed" \notin {"ack"}
      /\ "flush" \notin {"received"} /\ "flushDone" \notin {"received"}
      /\ "sendFailed" \notin {"received"}
  OBVIOUS
<1>2. SameTasks
  BY <1>1, TaskTaken, Zenon
<1> QED
  BY <1>2, KeptRuns, FlushKept, Zenon

LEMMA SendDoneFlush ==
  ASSUME TypeOK, SendsInv, FlushInv, NEW i \in DOMAIN sends, SendDone(i)
  PROVE  FlushInv'
<1>1. /\ Stays /\ SameBuffer /\ closed = FALSE /\ closed' = FALSE
      /\ coalesceBuffer' = coalesceBuffer /\ coalesceScheduled' = coalesceScheduled
      /\ coalesceFlushInFlight' = coalesceFlushInFlight
  BY Zenon DEF SendDone, Stays, SameBuffer
<1>2. queue' = Posted(sends[i])
  BY PostedCases, Zenon DEF SendDone
<1>3. Len(sends[i].chunks) = 1 => sends' = RemoveAt(sends, i)
  BY LastChunk, Zenon DEF SendDone
<1>4. Len(sends[i].chunks) # 1 => \E c : sends' = [sends EXCEPT ![i].chunks = c]
  BY LastChunk, Zenon DEF SendDone
<1>5. OneRun
  BY <1>1, Zenon DEF FlushInv
<1>6. CASE sends[i].kind = "flush" /\ Len(sends[i].chunks) = 1
  <2>1. /\ \A j \in DOMAIN queue : j \in DOMAIN queue' /\ queue'[j] = queue[j]
        /\ \A j \in DOMAIN queue' : j \notin DOMAIN queue =>
             queue'[j].task = "ack" \/ (queue'[j].task = "flushDone" /\ j = Len(queue'))
        /\ queue'[Len(queue')].task = "flushDone" /\ Len(queue') \in DOMAIN queue'
    <3>1. Len(queue') \in Nat /\ DOMAIN queue' = 1..Len(queue') /\ Len(queue) \in Nat
          /\ Len(queue') >= Len(queue) /\ DOMAIN queue = 1..Len(queue)
          /\ Len(queue') > Len(queue)
      BY <1>2, <1>6, QueuePosted
    <3>2. Len(queue') \in DOMAIN queue'
      BY <3>1
    <3>3. \A j \in DOMAIN queue : j \in DOMAIN queue' /\ queue'[j] = queue[j]
      BY <1>2, QueuePosted, Zenon
    <3>4. \A j \in DOMAIN queue' : j \notin DOMAIN queue =>
            queue'[j].task = "ack" \/ (queue'[j].task = "flushDone" /\ j = Len(queue'))
      BY <1>2, QueuePosted
    <3>5. queue'[Len(queue')].task = "flushDone"
      BY <1>2, <1>6, QueuePosted
    <3> QED
      BY <3>2, <3>3, <3>4, <3>5
  <2>2. HasRun /\ ~HasEnd
    <3>1. HasRun
      BY <1>6, Zenon DEF HasRun, FlushRuns
    <3> QED
      BY <1>1, <3>1, Zenon DEF FlushInv
  <2>3. ~HasRun' /\ OneRun'
    BY <1>3, <1>5, <1>6, RunEnded, Zenon
  <2>4. PICK m : m = Len(queue')
    OBVIOUS
  <2>5. \A j \in DOMAIN queue' : FlushEnds(j)' <=> j = m
    <3> SUFFICES ASSUME NEW j \in DOMAIN queue' PROVE FlushEnds(j)' <=> j = m
      OBVIOUS
    <3>1. CASE j \in DOMAIN queue
      <4>1. ~FlushEnds(j)
        BY <2>2, <3>1, Zenon DEF HasEnd
      <4>2. ~FlushEnds(j)'
        BY <2>1, <3>1, <4>1 DEF FlushEnds
      <4>3. FlushEnds(m)'
        BY <2>1, <2>4 DEF FlushEnds
      <4> QED
        BY <4>2, <4>3
    <3>2. CASE j \notin DOMAIN queue
      BY <2>1, <2>4, <3>2 DEF FlushEnds
    <3> QED
      BY <3>1, <3>2
  <2>6. HasEnd' /\ OneEnd'
    BY <2>1, <2>4, <2>5, Zenon DEF HasEnd, OneEnd
  <2>7. \A j \in DOMAIN queue' : queue'[j].task = "flush" => j \in DOMAIN queue
    BY <2>1
  <2>8. (HasFlush' <=> HasFlush) /\ (OneFlush => OneFlush')
    BY <2>1, <2>7, Zenon DEF HasFlush, OneFlush
  <2> QED
    BY <1>1, <2>2, <2>3, <2>6, <2>8, Zenon DEF FlushInv
<1>7. CASE sends[i].kind # "flush" \/ Len(sends[i].chunks) # 1
  <2>1. /\ \A j \in DOMAIN queue : j \in DOMAIN queue' /\ queue'[j] = queue[j]
        /\ \A j \in DOMAIN queue' : j \notin DOMAIN queue => queue'[j].task = "ack"
    BY <1>2, <1>7, QueuePosted, Zenon
  <2>2. \A j \in DOMAIN queue' : queue'[j].task = "flush" \/ FlushEnds(j)' => j \in DOMAIN queue
    BY <2>1 DEF FlushEnds
  <2>3. \A j \in DOMAIN queue : FlushEnds(j)' <=> FlushEnds(j)
    BY <2>1 DEF FlushEnds
  <2>4. SameTasks
    BY <2>1, <2>2, <2>3, Zenon DEF SameTasks, HasFlush, HasEnd, OneFlush, OneEnd
  <2>5. SameRuns
    BY <1>3, <1>4, <1>5, <1>7, RunEnded, RunContinues, Zenon
  <2> QED
    BY <1>1, <2>4, <2>5, FlushKept, Zenon
<1> QED
  BY <1>6, <1>7

LEMMA SendLostFlush ==
  ASSUME TypeOK, SendsInv, FlushInv, NEW i \in DOMAIN sends, SendLost(i)
  PROVE  FlushInv'
<1> DEFINE t == [task |-> "sendFailed", flush |-> sends[i].kind = "flush"]
<1>1. /\ Stays /\ SameBuffer /\ closed = FALSE /\ closed' = FALSE
      /\ coalesceBuffer' = coalesceBuffer /\ coalesceScheduled' = coalesceScheduled
      /\ coalesceFlushInFlight' = coalesceFlushInFlight
      /\ sends' = RemoveAt(sends, i) /\ queue' = Append(queue, t)
  BY Zenon DEF SendLost, Stays, SameBuffer
<1>2. t.task = "sendFailed" /\ (t.flush = TRUE <=> sends[i].kind = "flush")
      /\ (t.flush = FALSE <=> sends[i].kind # "flush")
  OBVIOUS
<1>3. t \in TaskRecord
  <2>1. (sends[i].kind = "flush") \in BOOLEAN
    OBVIOUS
  <2> QED
    BY <2>1, TaskMakers, Zenon
<1> HIDE DEF t
<1>4. OneRun
  BY <1>1, Zenon DEF FlushInv
<1>5. CASE sends[i].kind = "flush"
  <2>1. HasRun /\ ~HasEnd
    <3>1. HasRun
      BY <1>5, Zenon DEF HasRun, FlushRuns
    <3> QED
      BY <1>1, <3>1, Zenon DEF FlushInv
  <2>2. ~HasRun' /\ OneRun'
    BY <1>1, <1>4, <1>5, RunEnded, Zenon
  <2>3. HasEnd' /\ (HasFlush' <=> HasFlush) /\ OneEnd' /\ (OneFlush => OneFlush')
    BY <1>1, <1>2, <1>3, <1>5, <2>1, TaskPosted, Zenon
  <2> QED
    BY <1>1, <2>1, <2>2, <2>3, Zenon DEF FlushInv
<1>6. CASE sends[i].kind # "flush"
  <2>1. SameTasks /\ SameRuns
    BY <1>1, <1>2, <1>3, <1>4, <1>6, TaskPosted, RunEnded, Zenon
  <2> QED
    BY <1>1, <2>1, FlushKept, Zenon
<1> QED
  BY <1>5, <1>6

LEMMA HeadEither ==
  ASSUME NEW k1, NEW k2, HeadIs({k1, k2})
  PROVE  HeadIs({k1}) \/ HeadIs({k2})
BY DEF HeadIs

LEMMA FlushesFlush ==
  ASSUME TypeOK, SendsInv, FlushInv, Flushes
  PROVE  FlushInv'
<1>1. /\ closed = FALSE /\ closed' = FALSE /\ HeadIs({"flush", "flushDone"})
      /\ coalesceBuffer' = <<>> /\ coalesceScheduled' = FALSE /\ coalesceFlushInFlight' = TRUE
      /\ sends' = Append(sends, Coroutine("flush", Chunks(coalesceBuffer), 0))
  BY Zenon DEF Flushes, Stays
<1>2. /\ Coroutine("flush", Chunks(coalesceBuffer), 0) \in SendRecord
      /\ Coroutine("flush", Chunks(coalesceBuffer), 0).kind = "flush"
  <2> DEFINE c == Chunks(coalesceBuffer)
  <2>1. c \in Seq(Seq(1..MaxUp))
    BY Queues, ChunksCut, Zenon DEF Flushes
  <2> HIDE DEF c
  <2>2. Coroutine("flush", c, 0) \in SendRecord /\ Coroutine("flush", c, 0).kind = "flush"
    BY <2>1 DEF Coroutine, SendRecord
  <2> QED
    BY <2>2 DEF c
<1>3. HasRun' /\ (~HasRun => OneRun')
  BY <1>1, <1>2, RunLaunched, Zenon
<1>4. ~HasRun /\ ~HasEnd' /\ ~HasFlush' /\ OneFlush' /\ OneEnd'
  <2>1. CASE HeadIs({"flush"})
    <3>1. HasFlush /\ (OneFlush => ~HasFlush' /\ OneFlush') /\ (HasEnd' <=> HasEnd)
          /\ (OneEnd => OneEnd')
      BY <2>1, TaskTaken, Zenon
    <3> QED
      BY <1>1, <3>1, Zenon DEF FlushInv
  <2>2. CASE HeadIs({"flushDone"})
    <3>1. HasEnd /\ (OneEnd => ~HasEnd' /\ OneEnd') /\ (HasFlush' <=> HasFlush)
          /\ (OneFlush => OneFlush')
      BY <2>2, TaskTaken, Zenon
    <3> QED
      BY <1>1, <3>1, Zenon DEF FlushInv
  <2> QED
    BY <1>1, <2>1, <2>2, HeadEither, Zenon
<1>5. ~(FALSE = TRUE)
  OBVIOUS
<1> QED
  BY <1>1, <1>3, <1>4, <1>5, Zenon DEF FlushInv

LEMMA FlushesNothingFlush ==
  ASSUME TypeOK, FlushInv, OpenPhase, FlushesNothing
  PROVE  FlushInv'
<1>1. /\ closed = FALSE /\ closed' = FALSE /\ sends' = sends
      /\ coalesceBuffer' = <<>> /\ coalesceScheduled' = FALSE
      /\ coalesceFlushInFlight' = coalesceFlushInFlight /\ HeadIs({"flush"})
  BY Zenon DEF FlushesNothing, Stays, SameSends, OpenPhase
<1>2. SameRuns
  BY <1>1, KeptRuns, Zenon
<1>3. HasFlush /\ (OneFlush => ~HasFlush' /\ OneFlush') /\ (HasEnd' <=> HasEnd)
      /\ (OneEnd => OneEnd')
  BY <1>1, TaskTaken, Zenon
<1>4. ~(FALSE = TRUE)
  OBVIOUS
<1> QED
  BY <1>1, <1>2, <1>3, <1>4, Zenon DEF FlushInv, SameRuns

LEMMA FlushOverFlush ==
  ASSUME TypeOK, FlushInv, FlushOver
  PROVE  FlushInv'
<1>1. /\ closed = FALSE /\ closed' = FALSE /\ sends' = sends
      /\ coalesceBuffer = <<>> /\ coalesceBuffer' = coalesceBuffer
      /\ coalesceScheduled' = coalesceScheduled
      /\ coalesceFlushInFlight' = FALSE /\ HeadIs({"flushDone"})
  BY Zenon DEF FlushOver, Stays, SameSends
<1>2. SameRuns
  BY <1>1, KeptRuns, Zenon
<1>3. HasEnd /\ (OneEnd => ~HasEnd' /\ OneEnd') /\ (HasFlush' <=> HasFlush)
      /\ (OneFlush => OneFlush')
  BY <1>1, TaskTaken, Zenon
<1>4. ~(FALSE = TRUE)
  OBVIOUS
<1> QED
  BY <1>1, <1>2, <1>3, <1>4, Zenon DEF FlushInv, SameRuns

LEMMA ConnectsFlush ==
  ASSUME TypeOK, SendsInv, PhaseInv, NEW initial, Connects(initial)
  PROVE  FlushInv'
<1>1. DialPhase /\ queue' = <<>>
  BY ConnectsPhase, Zenon
<1>2. /\ closed' = FALSE /\ SameBuffer
      /\ \/ sends' = sends
         \/ sends' = Append(sends, Coroutine("initial", OpeningChunks(initial),
                                             Len(initial) + Len(pendingData)))
  BY Zenon DEF Connects, Stays, SameSends
<1>3. /\ coalesceBuffer' = <<>> /\ coalesceScheduled' = FALSE /\ coalesceFlushInFlight' = FALSE
      /\ sends = <<>>
  BY <1>1, <1>2, Zenon DEF DialPhase, Untouched, SameBuffer
<1>4. ~HasFlush' /\ ~HasEnd' /\ OneFlush' /\ OneEnd'
  <2>1. DOMAIN queue' = {}
    BY <1>1
  <2> QED
    BY <2>1 DEF HasFlush, HasEnd, OneFlush, OneEnd
<1>5. ~HasRun' /\ OneRun'
  <2>1. \A j \in DOMAIN sends' : sends'[j].kind = "initial"
    <3> DEFINE c == OpeningChunks(initial)
               n == Len(initial) + Len(pendingData)
    <3> HIDE DEF c, n
    <3>1. CASE sends' = <<>>
      BY <3>1
    <3>2. CASE sends' = Append(<<>>, Coroutine("initial", c, n))
      BY <3>2 DEF Coroutine
    <3> QED
      BY <1>2, <1>3, <3>1, <3>2, Zenon DEF c, n
  <2> QED
    BY <2>1 DEF HasRun, OneRun, FlushRuns
<1>6. ~(FALSE = TRUE)
  OBVIOUS
<1> QED
  BY <1>2, <1>3, <1>4, <1>5, <1>6, Zenon DEF FlushInv

LEMMA StepFlush ==
  ASSUME TypeOK, SendsInv, PhaseInv, FlushInv, Step
  PROVE  FlushInv'
<1>1. CASE Releases \/ AfterClose
  <2>1. ~(closed' = FALSE)
    BY <1>1 DEF Releases, AfterClose
  <2> QED
    BY <2>1 DEF FlushInv
<1>2. CASE Quiet \/ Buffers \/ \E direct \in BOOLEAN, pend \in Seq(1..MaxUp) : Commits(direct, pend)
  <2>1. Stays /\ SameBuffer /\ sends' = sends /\ queue' = queue
    BY <1>2, Zenon DEF Quiet, Buffers, Commits, SameUp, SameSends
  <2> QED
    BY <2>1, FlushSame, Zenon
<1>3. CASE \E used, retries, k \in Nat : Redrains(used, retries, k)
  <2>1. Stays /\ SameBuffer /\ sends' = sends /\ queue' = queue
    BY <1>3, Zenon DEF Redrains, Drains, SameUp, SameSends
  <2> QED
    BY <2>1, FlushSame, Zenon
<1>4. CASE Acks \/ DownlinkEnds \/ \E k \in Nat : Delivers(k)
  <2>1. Stays /\ SameBuffer /\ sends' = sends /\ (HeadIs({"ack"}) \/ HeadIs({"received"}))
    BY <1>4, Zenon DEF Acks, DownlinkEnds, Delivers, Drains, SameUp, SameSends
  <2> QED
    BY <2>1, TakenFlush, Zenon
<1>5. CASE FlushesNothing
  BY <1>5, QueuePhase, FlushesNothingFlush, Zenon
<1> QED
  BY <1>1, <1>2, <1>3, <1>4, <1>5, CoalescesFlush, DialEndsFlush, ArrivesFlush, SendDoneFlush,
     SendLostFlush, FlushesFlush, FlushOverFlush, ConnectsFlush, Zenon DEF Step

LEMMA InitialFlush ==
  ASSUME Init PROVE FlushInv /\ InitialInv
BY DEF Init, FlushInv, HasFlush, HasEnd, HasRun, OneFlush, OneEnd, OneRun, InitialInv, OneInitial

(* A coroutine that ends, goes on or is a flush leaves one initial send.   *)
LEMMA InitialKept ==
  ASSUME TypeOK, OneInitial,
         \/ sends' = sends
         \/ \E i \in DOMAIN sends : sends' = RemoveAt(sends, i)
         \/ \E i \in DOMAIN sends : \E c : sends' = [sends EXCEPT ![i].chunks = c]
         \/ \E co \in SendRecord : co.kind = "flush" /\ sends' = Append(sends, co)
  PROVE  OneInitial'
<1>1. CASE sends' = sends
  BY <1>1, Zenon DEF OneInitial, FlushRuns
<1>2. ASSUME NEW i \in DOMAIN sends, sends' = RemoveAt(sends, i) PROVE OneInitial'
  <2>1. \A j \in DOMAIN sends' :
          /\ j < i => j \in DOMAIN sends /\ j # i /\ sends'[j] = sends[j]
          /\ ~(j < i) => j + 1 \in DOMAIN sends /\ j + 1 # i /\ sends'[j] = sends[j + 1]
    BY <1>2, SendsRemoved, ZenonT(30)
  <2>2. i \in Nat /\ \A j \in DOMAIN sends' : j \in Nat
    BY <1>2, SendsRemoved, Zenon
  <2> SUFFICES ASSUME NEW j \in DOMAIN sends', NEW k \in DOMAIN sends',
                      ~FlushRuns(j)', ~FlushRuns(k)'
               PROVE  j = k
    BY DEF OneInitial
  <2> DEFINE a == IF j < i THEN j ELSE j + 1
             b == IF k < i THEN k ELSE k + 1
  <2>3. a \in DOMAIN sends /\ a # i /\ ~FlushRuns(a)
    BY <2>1 DEF FlushRuns
  <2>4. b \in DOMAIN sends /\ b # i /\ ~FlushRuns(b)
    BY <2>1 DEF FlushRuns
  <2>5. a = b
    BY <2>3, <2>4, Zenon DEF OneInitial
  <2>6. j \in Nat /\ k \in Nat
    BY <2>2
  <2> QED
    BY <2>2, <2>3, <2>5, <2>6
<1>3. ASSUME NEW i \in DOMAIN sends, NEW c, sends' = [sends EXCEPT ![i].chunks = c]
      PROVE  OneInitial'
  <2>1. DOMAIN sends' = DOMAIN sends /\ \A j \in DOMAIN sends : sends'[j].kind = sends[j].kind
    BY <1>3, SendsShortened, Zenon
  <2>2. \A j \in DOMAIN sends : FlushRuns(j)' <=> FlushRuns(j)
    BY <2>1 DEF FlushRuns
  <2> QED
    BY <2>1, <2>2, Zenon DEF OneInitial
<1>4. ASSUME NEW co \in SendRecord, co.kind = "flush", sends' = Append(sends, co)
      PROVE  OneInitial'
  <2>0. PICK n : n = Len(sends) + 1
    OBVIOUS
  <2>1. /\ \A j \in DOMAIN sends : j \in DOMAIN sends' /\ sends'[j] = sends[j]
        /\ n \in DOMAIN sends' /\ sends'[n] = co
        /\ \A j \in DOMAIN sends' : j \in DOMAIN sends \/ j = n
    BY <1>4, <2>0, SendsAppended, Zenon
  <2>2. \A j \in DOMAIN sends' : ~FlushRuns(j)' => j \in DOMAIN sends /\ ~FlushRuns(j)
    BY <1>4, <2>1 DEF FlushRuns
  <2> QED
    BY <2>2, Zenon DEF OneInitial
<1> QED
  BY <1>1, <1>2, <1>3, <1>4, Zenon

LEMMA StepInitial ==
  ASSUME TypeOK, SendsInv, PhaseInv, InitialInv, Step
  PROVE  InitialInv'
<1>1. CASE Releases \/ AfterClose
  <2>1. ~(closed' = FALSE)
    BY <1>1 DEF Releases, AfterClose
  <2> QED
    BY <2>1 DEF InitialInv
<1>2. CASE Stays
  <2>1. OneInitial
    BY <1>2, Zenon DEF Stays, InitialInv
  <2>2. CASE \E initial : Connects(initial)
    <3>1. PICK initial : Connects(initial)
      BY <2>2, Zenon
    <3>2. sends = <<>>
      BY <3>1, ConnectsPhase, Zenon DEF DialPhase, Untouched
    <3> DEFINE co == Coroutine("initial", OpeningChunks(initial), Len(initial) + Len(pendingData))
    <3>3. sends' = <<>> \/ sends' = Append(<<>>, co)
      BY <3>1, <3>2, Zenon DEF Connects, SameSends
    <3> HIDE DEF co
    <3>4. \A j, k \in DOMAIN sends' : j = k
      BY <3>3
    <3> QED
      BY <3>4, Zenon DEF InitialInv, OneInitial
  <2>3. CASE Flushes
    <3> DEFINE c == Chunks(coalesceBuffer)
    <3>1. c \in Seq(Seq(1..MaxUp))
      BY <2>3, Queues, ChunksCut, Zenon DEF Flushes
    <3>2. sends' = Append(sends, Coroutine("flush", c, 0))
      BY <2>3, Zenon DEF Flushes
    <3> HIDE DEF c
    <3>3. Coroutine("flush", c, 0) \in SendRecord /\ Coroutine("flush", c, 0).kind = "flush"
      BY <3>1 DEF Coroutine, SendRecord
    <3> QED
      BY <2>1, <3>2, <3>3, InitialKept, Zenon DEF InitialInv
  <2>4. CASE \E i \in DOMAIN sends : SendDone(i) \/ SendLost(i)
    <3>1. PICK i \in DOMAIN sends : SendDone(i) \/ SendLost(i)
      BY <2>4, Zenon
    <3>2. sends' = RemoveAt(sends, i) \/ \E c : sends' = [sends EXCEPT ![i].chunks = c]
      BY <3>1, Zenon DEF SendDone, SendLost
    <3> QED
      BY <2>1, <3>2, InitialKept, Zenon DEF InitialInv
  <2>5. CASE sends' = sends
    BY <2>1, <2>5, InitialKept, Zenon DEF InitialInv
  <2>6. Step => \/ Releases \/ AfterClose
                \/ \E initial : Connects(initial)
                \/ Flushes
                \/ \E i \in DOMAIN sends : SendDone(i) \/ SendLost(i)
                \/ sends' = sends
    BY Zenon DEF Step, Quiet, Buffers, Commits, Coalesces, DialEnds, DialOpens, Arrives, Redrains,
       Delivers, Drains, Acks, FlushesNothing, FlushOver, DownlinkEnds, SameUp, SameSends
  <2> QED
    BY <1>1, <2>2, <2>3, <2>4, <2>5, <2>6, Zenon
<1>3. Step => Releases \/ AfterClose \/ Stays
  BY Zenon DEF Step, Quiet, Buffers, Commits, Coalesces, DialEnds, DialOpens, SendDone, SendLost,
     Arrives, Redrains, Delivers, Drains, Acks, Flushes, FlushesNothing, FlushOver, Connects,
     DownlinkEnds
<1> QED
  BY <1>1, <1>2, <1>3, Zenon

-----------------------------------------------------------------------------
(* The downlink. *)

\* No receive is posted to the executor or taken from its queue.
SameArrivals ==
  /\ HasReceived' <=> HasReceived
  /\ OneReceived => OneReceived'
  /\ \A i \in DOMAIN queue' : queue'[i].task = "received" =>
       \E j \in DOMAIN queue : queue'[i] = queue[j]

LEMMA KeptArrivals ==
  ASSUME queue' = queue PROVE SameArrivals
BY Zenon DEF SameArrivals, HasReceived, OneReceived

LEMMA TakenArrivals ==
  ASSUME TypeOK, NEW kinds, HeadIs(kinds)
  PROVE  /\ "received" \notin kinds => SameArrivals
         /\ kinds = {"received"} => HasReceived /\ (OneReceived => ~HasReceived' /\ OneReceived')
<1>1. /\ 1 \in DOMAIN queue /\ queue[1].task \in kinds
      /\ \A i \in DOMAIN queue' : i + 1 \in DOMAIN queue /\ queue'[i] = queue[i + 1]
      /\ \A i \in DOMAIN queue : i # 1 => i - 1 \in DOMAIN queue' /\ queue'[i - 1] = queue[i]
  BY QueueTail, Zenon
<1>2. /\ \A i \in DOMAIN queue' : i \in Nat /\ i + 1 # 1
      /\ \A i, j \in DOMAIN queue' : i + 1 = j + 1 => i = j
  <2>1. DOMAIN queue' = 1..Len(queue) - 1 /\ Len(queue) \in Nat
    BY QueueTail, Zenon
  <2> QED
    BY <2>1
<1>3. OneReceived => OneReceived'
  <2> SUFFICES ASSUME OneReceived, NEW i \in DOMAIN queue', NEW j \in DOMAIN queue',
                      queue'[i].task = "received", queue'[j].task = "received"
               PROVE  i = j
    BY DEF OneReceived
  <2>1. PICK m, n : m = i + 1 /\ n = j + 1
    OBVIOUS
  <2>2. m \in DOMAIN queue /\ n \in DOMAIN queue /\ queue'[i] = queue[m] /\ queue'[j] = queue[n]
    BY <1>1, <2>1, Zenon
  <2>3. queue[m].task = "received" /\ queue[n].task = "received"
    BY <2>2
  <2>4. m = n
    BY <2>2, <2>3, Zenon DEF OneReceived
  <2> QED
    BY <1>2, <2>1, <2>4, Zenon
<1>4. HasReceived' => HasReceived
  BY <1>1, Zenon DEF HasReceived
<1>5. queue[1].task # "received" => (HasReceived => HasReceived')
  BY <1>1, Zenon DEF HasReceived
<1>6. queue[1].task = "received" => HasReceived /\ (OneReceived => ~HasReceived')
  BY <1>1, <1>2, Zenon DEF HasReceived, OneReceived
<1>7. \A i \in DOMAIN queue' : \E j \in DOMAIN queue : queue'[i] = queue[j]
  BY <1>1, Zenon
<1>8. ASSUME "received" \notin kinds PROVE SameArrivals
  <2>1. queue[1].task # "received"
    BY <1>1, <1>8
  <2> QED
    BY <1>3, <1>4, <1>5, <1>7, <2>1, Zenon DEF SameArrivals
<1>9. ASSUME kinds = {"received"}
      PROVE  HasReceived /\ (OneReceived => ~HasReceived' /\ OneReceived')
  <2>1. queue[1].task = "received"
    BY <1>1, <1>9
  <2> QED
    BY <1>3, <1>6, <2>1, Zenon
<1> QED
  BY <1>8, <1>9, Zenon

LEMMA PostedArrivals ==
  ASSUME TypeOK, NEW t \in TaskRecord, queue' = Append(queue, t)
  PROVE  /\ t.task # "received" => SameArrivals
         /\ t.task = "received" =>
              /\ HasReceived'
              /\ ~HasReceived => OneReceived'
              /\ ~HasReceived => \A i \in DOMAIN queue' : queue'[i].task = "received" => queue'[i] = t
<1>0. PICK n : n = Len(queue) + 1
  OBVIOUS
<1>1. /\ \A i \in DOMAIN queue : i \in DOMAIN queue' /\ queue'[i] = queue[i]
      /\ n \in DOMAIN queue' /\ queue'[n] = t
      /\ \A i \in DOMAIN queue' : i \in DOMAIN queue \/ i = n
  BY <1>0, QueueAppend, Zenon
<1>2. t.task # "received" => SameArrivals
  <2> SUFFICES ASSUME t.task # "received" PROVE SameArrivals
    OBVIOUS
  <2>1. \A i \in DOMAIN queue' : queue'[i].task = "received" => i \in DOMAIN queue
    BY <1>1, Zenon
  <2> QED
    BY <1>1, <2>1, Zenon DEF SameArrivals, HasReceived, OneReceived
<1>3. ASSUME t.task = "received"
      PROVE  /\ HasReceived'
             /\ ~HasReceived => OneReceived'
             /\ ~HasReceived => \A i \in DOMAIN queue' : queue'[i].task = "received" => queue'[i] = t
  <2>1. HasReceived'
    BY <1>1, <1>3, Zenon DEF HasReceived
  <2>2. ~HasReceived => \A i \in DOMAIN queue' : queue'[i].task = "received" => i = n
    BY <1>1, Zenon DEF HasReceived
  <2> QED
    BY <1>1, <2>1, <2>2, Zenon DEF OneReceived
<1> QED
  BY <1>2, <1>3, Zenon

LEMMA SendArrivals ==
  ASSUME TypeOK, SendsInv, NEW i \in DOMAIN sends, SendDone(i) \/ SendLost(i)
  PROVE  SameArrivals
<1>1. CASE SendDone(i)
  <2>1. queue' = Posted(sends[i])
    BY <1>1, PostedCases, Zenon DEF SendDone
  <2>2. /\ \A j \in DOMAIN queue : j \in DOMAIN queue' /\ queue'[j] = queue[j]
        /\ \A j \in DOMAIN queue' : j \notin DOMAIN queue => queue'[j].task \in {"ack", "flushDone"}
    BY <2>1, QueuePosted
  <2>3. \A j \in DOMAIN queue' : queue'[j].task = "received" => j \in DOMAIN queue
    BY <2>2
  <2> QED
    BY <2>2, <2>3, Zenon DEF SameArrivals, HasReceived, OneReceived
<1>2. CASE SendLost(i)
  <2> DEFINE t == [task |-> "sendFailed", flush |-> sends[i].kind = "flush"]
  <2>1. (sends[i].kind = "flush") \in BOOLEAN /\ t.task # "received"
    OBVIOUS
  <2>2. t \in TaskRecord /\ queue' = Append(queue, t)
    BY <1>2, <2>1, TaskMakers, Zenon DEF SendLost
  <2> HIDE DEF t
  <2> QED
    BY <2>1, <2>2, PostedArrivals, Zenon
<1> QED
  BY <1>1, <1>2

LEMMA DownlinkKept ==
  ASSUME DownlinkInv, Stays, SameArrivals, SameDown, remoteSent' = remoteSent,
         downlinkDone' = downlinkDone, activityTimer' = None <=> activityTimer = None
  PROVE  DownlinkInv'
<1>1. closed = FALSE /\ closed' = FALSE
  BY DEF Stays
<1>2. fed' = fed
  BY Zenon DEF fed, SameDown, SameLwip
<1>3. ReceiveInv'
  BY <1>1, Zenon DEF DownlinkInv, ReceiveInv, SameArrivals, SameDown, SameReceive
<1>4. FedInv'
  <2>1. \A i \in DOMAIN queue' : queue'[i].task = "received" => Carries(queue'[i])
    BY <1>1, Zenon DEF DownlinkInv, FedInv, SameArrivals
  <2>2. \A i \in DOMAIN queue' : queue'[i].task = "received" => Carries(queue[i])'
    BY <1>2, <2>1 DEF Carries
  <2> QED
    BY <1>1, <1>2, <2>2, Zenon DEF DownlinkInv, FedInv, SameArrivals
<1>5. ResumeInv'
  BY <1>1, Zenon DEF DownlinkInv, ResumeInv, SameArrivals, SameDown, SameReceive, SameLwip
<1> QED
  BY <1>3, <1>4, <1>5, Zenon DEF DownlinkInv

LEMMA Rejoined ==
  ASSUME NEW S, NEW s \in Seq(S), NEW k \in Nat, k <= Len(s)
  PROVE  SubSeq(s, 1, k) \o SubSeq(s, k + 1, Len(s)) = s
<1> DEFINE a == SubSeq(s, 1, k)
           b == SubSeq(s, k + 1, Len(s))
<1>1. Len(s) \in Nat /\ \A j \in 1..Len(s) : s[j] \in S
  BY LenProperties, ElementOfSeq
<1>2. a \in Seq(S) /\ Len(a) = k /\ \A j \in 1..k : a[j] = s[j]
  <2>1. 1 \in Int /\ k \in Int /\ \A j \in 1..k : s[j] \in S
    BY <1>1
  <2>2. /\ a \in Seq(S) /\ Len(a) = IF 1 <= k THEN k - 1 + 1 ELSE 0
        /\ \A j \in 1..k - 1 + 1 : a[j] = s[1 + j - 1]
    BY <2>1, SubSeqProperties
  <2> QED
    BY <1>1, <2>2
<1>3. b \in Seq(S) /\ Len(b) = Len(s) - k /\ \A j \in 1..Len(s) - k : b[j] = s[k + j]
  <2>1. k + 1 \in Int /\ Len(s) \in Int /\ \A j \in k + 1..Len(s) : s[j] \in S
    BY <1>1
  <2>2. /\ b \in Seq(S) /\ Len(b) = IF k + 1 <= Len(s) THEN Len(s) - (k + 1) + 1 ELSE 0
        /\ \A j \in 1..Len(s) - (k + 1) + 1 : b[j] = s[(k + 1) + j - 1]
    BY <2>1, SubSeqProperties
  <2> QED
    BY <1>1, <2>2
<1> HIDE DEF a, b
<1>4. /\ a \o b \in Seq(S) /\ Len(a \o b) = Len(a) + Len(b)
      /\ \A j \in 1..Len(a) + Len(b) : (a \o b)[j] = IF j <= Len(a) THEN a[j] ELSE b[j - Len(a)]
  BY <1>2, <1>3, ConcatProperties
<1>5. Len(a \o b) = Len(s)
  BY <1>1, <1>2, <1>3, <1>4
<1>6. \A j \in 1..Len(s) : (a \o b)[j] = s[j]
  <2> SUFFICES ASSUME NEW j \in 1..Len(s) PROVE (a \o b)[j] = s[j]
    OBVIOUS
  <2>1. (a \o b)[j] = IF j <= k THEN a[j] ELSE b[j - k]
    <3>1. j \in 1..Len(a) + Len(b)
      BY <1>1, <1>2, <1>3
    <3>2. (a \o b)[j] = IF j <= Len(a) THEN a[j] ELSE b[j - Len(a)]
      BY <1>4, <3>1
    <3> QED
      BY <1>2, <3>2
  <2>2. CASE j <= k
    BY <1>1, <1>2, <2>1, <2>2
  <2>3. CASE ~(j <= k)
    <3>1. j - k \in 1..Len(s) - k /\ k + (j - k) = j
      BY <1>1, <2>3
    <3> QED
      BY <1>3, <2>1, <2>3, <3>1
  <2> QED
    BY <2>2, <2>3
<1>7. a \o b = s
  BY <1>4, <1>5, <1>6, SeqEqual
<1> QED
  BY <1>7 DEF a, b

LEMMA DrainFed ==
  ASSUME TypeOK, NEW pw \in Seq(1..MaxDown), NEW k \in Nat, k <= Len(pw),
         toLwip' = toLwip \o SubSeq(pw, 1, k), pendingWrite' = SubSeq(pw, k + 1, Len(pw))
  PROVE  fed' = toLwip \o pw
<1> DEFINE a == SubSeq(pw, 1, k)
           b == SubSeq(pw, k + 1, Len(pw))
<1>1. a \in Seq(1..MaxDown) /\ b \in Seq(1..MaxDown) /\ toLwip \in Seq(1..MaxDown)
  BY Pieces, Queues, Zenon
<1>2. a \o b = pw
  BY Rejoined, Zenon
<1>3. fed' = (toLwip \o a) \o b
  BY Zenon DEF fed
<1> HIDE DEF a, b
<1>4. (toLwip \o a) \o b = toLwip \o (a \o b)
  BY <1>1, ConcatAssociative, SMTT(30)
<1> QED
  BY <1>2, <1>3, <1>4, Zenon

LEMMA DrainsReceive ==
  ASSUME TypeOK, NEW pw \in Seq(1..MaxDown), NEW inFlight \in BOOLEAN,
         NEW used \in Nat, NEW retries \in Nat, NEW k \in Nat,
         Drains(pw, inFlight, used, retries, k),
         receives = 0 \/ receives = 1,
         inFlight = TRUE <=> receives = 1 \/ HasReceived',
         ~(receives = 1 /\ HasReceived'), OneReceived'
  PROVE  ReceiveInv' /\ ResumeInv'
<1>1. /\ k <= Len(pw) /\ sndUsed' = used + k
      /\ pendingWrite' = SubSeq(pw, k + 1, Len(pw))
      /\ \/ /\ pw # <<>> /\ k = 0
            /\ drainRetries' = retries + 1
            /\ receiveInFlight' = inFlight /\ receives' = receives
         \/ /\ pw = <<>> \/ k > 0
            /\ Arms(SubSeq(pw, k + 1, Len(pw)), inFlight)
  BY Zenon DEF Drains
<1>2. CASE /\ pw # <<>> /\ k = 0
           /\ drainRetries' = retries + 1
           /\ receiveInFlight' = inFlight /\ receives' = receives
  <2>1. ReceiveInv'
    BY <1>2, Zenon DEF ReceiveInv
  <2>2. drainRetries' > 0
    BY <1>2
  <2> QED
    BY <2>1, <2>2, Zenon DEF ResumeInv
<1>3. CASE /\ pw = <<>> \/ k > 0
           /\ Arms(SubSeq(pw, k + 1, Len(pw)), inFlight)
  <2> DEFINE rest == SubSeq(pw, k + 1, Len(pw))
  <2>1. rest \in Seq(1..MaxDown) /\ (pw = <<>> => Len(rest) = 0)
    <3>1. rest \in Seq(1..MaxDown)
      BY <1>1, Pieces, Zenon
    <3>2. pw = <<>> => rest = <<>>
      BY <1>1
    <3> QED
      BY <3>1, <3>2
  <2> HIDE DEF rest
  <2>2. CASE /\ inFlight = TRUE \/ Len(rest) >= drainLowWaterMark
             /\ receiveInFlight' = inFlight /\ receives' = receives
    <3>1. ReceiveInv'
      BY <2>2, Zenon DEF ReceiveInv
    <3>2. inFlight = FALSE => sndUsed' > 0
      <4> SUFFICES ASSUME inFlight = FALSE PROVE sndUsed' > 0
        OBVIOUS
      <4>1. Len(rest) > 0 /\ Len(rest) \in Nat
        BY <2>1, <2>2, Sizes, LenProperties
      <4>2. k > 0
        BY <1>3, <2>1, <4>1
      <4> QED
        BY <1>1, <4>2
    <3>3. inFlight = TRUE => receives' = 1 \/ HasReceived'
      BY <2>2, Zenon
    <3> QED
      BY <3>1, <3>2, <3>3, Zenon DEF ResumeInv
  <2>3. CASE /\ inFlight = FALSE /\ receiveInFlight' = TRUE /\ receives' = receives + 1
    <3>1. receives = 0 /\ ~HasReceived'
      BY <2>3
    <3>2. receives' = 1
      BY <2>3, <3>1
    <3> QED
      BY <2>3, <3>1, <3>2, Zenon DEF ReceiveInv, ResumeInv
  <2> QED
    BY <1>3, <2>2, <2>3, Zenon DEF Arms, rest
<1> QED
  BY <1>1, <1>2, <1>3, Zenon

LEMMA RedrainsDownlink ==
  ASSUME TypeOK, DownlinkInv, NEW used \in Nat, NEW retries \in Nat, NEW k \in Nat,
         Redrains(used, retries, k)
  PROVE  DownlinkInv'
<1>1. /\ Drains(pendingWrite, receiveInFlight, used, retries, k) /\ queue' = queue
      /\ closed = FALSE /\ closed' = FALSE /\ remoteSent' = remoteSent
  BY Zenon DEF Redrains, Drains, Stays, SameRemote
<1>2. SameArrivals /\ ReceiveInv /\ FedInv
  BY <1>1, KeptArrivals, Zenon DEF DownlinkInv
<1>3. ReceiveInv' /\ ResumeInv'
  <2>1. /\ receives = 0 \/ receives = 1
        /\ receiveInFlight = TRUE <=> receives = 1 \/ HasReceived'
        /\ ~(receives = 1 /\ HasReceived') /\ OneReceived'
    BY <1>2, Zenon DEF ReceiveInv, SameArrivals
  <2> QED
    BY <1>1, <2>1, Queues, Flags, DrainsReceive, Zenon
<1>4. fed' = fed
  <2>1. fed' = toLwip \o pendingWrite
    BY <1>1, Queues, DrainFed, Zenon DEF Drains
  <2> QED
    BY <2>1, Zenon DEF fed
<1>5. FedInv'
  <2>1. \A i \in DOMAIN queue' : queue'[i].task = "received" => Carries(queue'[i])
    BY <1>2, Zenon DEF FedInv, SameArrivals
  <2>2. \A i \in DOMAIN queue' : queue'[i].task = "received" => Carries(queue[i])'
    BY <1>1, <1>4, <2>1 DEF Carries
  <2> QED
    BY <1>1, <1>2, <1>4, <2>2, Zenon DEF FedInv, SameArrivals
<1> QED
  BY <1>3, <1>5, Zenon DEF DownlinkInv

LEMMA FedSort ==
  ASSUME TypeOK
  PROVE  fed \in Seq(1..MaxDown) /\ Len(fed) \in Nat /\ DOMAIN fed = 1..Len(fed)
<1>1. fed \in Seq(1..MaxDown)
  BY Queues, ConcatProperties DEF fed
<1> QED
  BY <1>1, LenProperties

LEMMA HeadReceived ==
  ASSUME TypeOK, DownlinkInv, closed = FALSE, HeadIs({"received"})
  PROVE  /\ Carries(Head(queue)) /\ HasReceived /\ ~HasReceived' /\ OneReceived'
         /\ receives = 0
         /\ \A i \in DOMAIN queue' : queue'[i].task # "received"
<1>1. ReceiveInv /\ FedInv
  BY Zenon DEF DownlinkInv
<1>2. HasReceived /\ ~HasReceived' /\ OneReceived'
  BY <1>1, TakenArrivals, Zenon DEF ReceiveInv
<1>3. 1 \in DOMAIN queue /\ queue[1] = Head(queue) /\ queue[1].task = "received"
  BY QueueTail
<1>4. Carries(Head(queue))
  BY <1>1, <1>3, Zenon DEF FedInv
<1> QED
  BY <1>1, <1>2, <1>4, Zenon DEF ReceiveInv, HasReceived

LEMMA DeliversDownlink ==
  ASSUME TypeOK, DownlinkInv, NEW k \in Nat, Delivers(k)
  PROVE  DownlinkInv'
<1> DEFINE d == Head(queue).data
           pw == pendingWrite \o d
<1>1. /\ HeadIs({"received"}) /\ Drains(pw, FALSE, sndUsed, drainRetries, k)
      /\ closed = FALSE /\ closed' = FALSE /\ remoteSent' = remoteSent
  BY Zenon DEF Delivers, Drains, Stays, SameRemote
<1>2. /\ Carries(Head(queue)) /\ HasReceived /\ ~HasReceived' /\ OneReceived'
      /\ receives = 0 /\ \A i \in DOMAIN queue' : queue'[i].task # "received"
  BY <1>1, HeadReceived, Zenon
<1>3. d \in Seq(1..MaxDown) /\ pw \in Seq(1..MaxDown)
  BY <1>1, DeliveryData, Zenon
<1>4. ReceiveInv' /\ ResumeInv'
  <2>1. /\ FALSE \in BOOLEAN /\ sndUsed \in Nat /\ drainRetries \in Nat
        /\ (FALSE = TRUE <=> receives = 1 \/ HasReceived') /\ ~(receives = 1 /\ HasReceived')
    BY <1>2, Numbers
  <2> QED
    BY <1>1, <1>2, <1>3, <2>1, DrainsReceive, Zenon
<1>5. fed' = fed \o d
  <2>1. fed' = toLwip \o pw
    BY <1>1, <1>3, DrainFed, Zenon DEF Drains
  <2> HIDE DEF d
  <2>2. (toLwip \o pendingWrite) \o d = toLwip \o (pendingWrite \o d)
    BY <1>3, Queues, ConcatAssociative
  <2> QED
    BY <2>1, <2>2, Zenon DEF fed
<1>6. d = [n \in 1..remoteSent - Len(fed) |-> Len(fed) + n]
  BY <1>2, Zenon DEF Carries
<1>7. (\A n \in DOMAIN fed' : fed'[n] = n) /\ Len(fed') = remoteSent
  <2>1. PICK e : e = d
    OBVIOUS
  <2>2. PICK f : f = fed
    OBVIOUS
  <2>3. PICK g : g = fed'
    OBVIOUS
  <2>4. PICK L \in Nat : L = Len(f)
    BY <2>2, FedSort, Zenon
  <2> HIDE DEF d, pw
  <2>5. f \in Seq(1..MaxDown) /\ e \in Seq(1..MaxDown) /\ g = f \o e
    BY <1>3, <1>5, <2>1, <2>2, <2>3, FedSort, Zenon
  <2>6. e = [n \in 1..remoteSent - L |-> L + n]
    BY <1>6, <2>1, <2>2, <2>4, Zenon
  <2>7. remoteSent \in Nat /\ (\A n \in 1..L : f[n] = n)
    <3>1. \A n \in DOMAIN f : f[n] = n
      BY <1>1, <2>2, Zenon DEF DownlinkInv, FedInv
    <3>2. DOMAIN f = 1..L
      BY <2>2, <2>4, FedSort, Zenon
    <3> QED
      BY <3>1, <3>2, Numbers
  <2>8. Len(e) \in Nat /\ DOMAIN e = 1..Len(e)
    BY <2>5, LenProperties
  <2>9. remoteSent >= L
    <3>1. Len(fed) <= remoteSent
      BY <1>1, Zenon DEF DownlinkInv, FedInv
    <3> QED
      BY <2>2, <2>4, <3>1
  <2>10. Len(e) = remoteSent - L
    BY <2>6, <2>7, <2>8, <2>9
  <2>11. /\ Len(g) = L + Len(e)
         /\ \A n \in 1..L + Len(e) : g[n] = IF n <= L THEN f[n] ELSE e[n - L]
         /\ g \in Seq(1..MaxDown)
    BY <2>4, <2>5, ConcatProperties
  <2>12. Len(g) = remoteSent /\ DOMAIN g = 1..remoteSent
    BY <2>7, <2>10, <2>11, LenProperties
  <2>13. \A n \in 1..remoteSent : g[n] = n
    <3> SUFFICES ASSUME NEW n \in 1..remoteSent PROVE g[n] = n
      OBVIOUS
    <3>1. CASE n <= L
      BY <2>7, <2>10, <2>11, <3>1
    <3>2. CASE ~(n <= L)
      <4>1. n - L \in 1..remoteSent - L
        BY <2>7, <3>2
      <4>2. e[n - L] = L + (n - L)
        BY <2>6, <4>1
      <4>3. g[n] = e[n - L]
        BY <2>7, <2>10, <2>11, <3>2
      <4> QED
        BY <2>7, <4>2, <4>3
    <3> QED
      BY <3>1, <3>2
  <2> QED
    BY <2>3, <2>12, <2>13, Zenon
<1>8. FedInv'
  <2>1. remoteSent <= remoteSent
    BY Numbers
  <2> QED
    BY <1>1, <1>2, <1>7, <2>1, Zenon DEF FedInv
<1> QED
  BY <1>4, <1>8, Zenon DEF DownlinkInv

LEMMA ArrivesDownlink ==
  ASSUME TypeOK, DownlinkInv, NEW outcome, NEW data, Arrives(outcome, data)
  PROVE  DownlinkInv'
<1> DEFINE t == [task |-> "received", outcome |-> outcome, data |-> data]
<1>1. /\ closed = FALSE /\ closed' = FALSE /\ SameLwip
      /\ receiveInFlight' = receiveInFlight /\ receives > 0 /\ receives' = receives - 1
      /\ data \in Seq(1..MaxDown) /\ data = [j \in 1..Len(data) |-> remoteSent + j]
      /\ remoteSent' = remoteSent + Len(data) /\ (outcome # "data" => data = <<>>)
      /\ t \in TaskRecord /\ queue' = Append(queue, t)
  BY TaskMakers, Zenon DEF Arrives, Stays
<1>2. t.task = "received" /\ t.data = data /\ t.outcome = outcome
  OBVIOUS
<1> HIDE DEF t
<1>3. ReceiveInv /\ FedInv
  BY <1>1, Zenon DEF DownlinkInv
<1>4. receives = 1 /\ receives' = 0 /\ ~HasReceived
  <2>1. receives = 1
    BY <1>1, <1>3 DEF ReceiveInv
  <2>2. receives' = 0
    BY <1>1, <2>1
  <2> QED
    BY <1>3, <2>1, <2>2, Zenon DEF ReceiveInv
<1>5. /\ HasReceived' /\ OneReceived'
      /\ \A i \in DOMAIN queue' : queue'[i].task = "received" => queue'[i] = t
  BY <1>1, <1>2, <1>4, PostedArrivals, Zenon
<1>6. ReceiveInv'
  <2>1. ~(0 = 1) /\ receiveInFlight = TRUE
    BY <1>3, <1>4 DEF ReceiveInv
  <2> QED
    BY <1>1, <1>4, <1>5, <2>1, Zenon DEF ReceiveInv
<1>7. ResumeInv'
  BY <1>5, Zenon DEF ResumeInv
<1>8. fed' = fed /\ Len(fed) = remoteSent
  BY <1>1, <1>3, <1>4, Zenon DEF fed, SameLwip, FedInv
<1>9. remoteSent' - Len(fed') = Len(data) /\ Len(fed') <= remoteSent'
  <2>1. Len(data) \in Nat /\ remoteSent \in Nat
    BY <1>1, Numbers, LenProperties
  <2>2. Len(fed') = remoteSent
    BY <1>8, Zenon
  <2> QED
    BY <1>1, <2>1, <2>2
<1>10. data = [n \in 1..remoteSent' - Len(fed') |-> Len(fed') + n]
  <2>1. Len(fed') = remoteSent
    BY <1>8, Zenon
  <2> QED
    BY <1>1, <1>9, <2>1, Zenon
<1>11. \A i \in DOMAIN queue' : queue'[i].task = "received" => Carries(queue[i])'
  BY <1>1, <1>2, <1>5, <1>10, Zenon DEF Carries
<1>12. FedInv'
  BY <1>3, <1>5, <1>8, <1>9, <1>11, Zenon DEF FedInv
<1> QED
  BY <1>6, <1>7, <1>12, Zenon DEF DownlinkInv

LEMMA EndsDownlink ==
  ASSUME TypeOK, DownlinkInv, DownlinkEnds
  PROVE  DownlinkInv'
<1>1. /\ closed = FALSE /\ closed' = FALSE /\ SameLwip /\ HeadIs({"received"})
      /\ Head(queue).outcome = "eof" /\ remoteSent' = remoteSent
      /\ downlinkDone' = TRUE /\ receiveInFlight' = FALSE /\ receives' = receives
  BY Zenon DEF DownlinkEnds, Stays, SameRemote
<1>2. /\ Carries(Head(queue)) /\ HasReceived /\ ~HasReceived' /\ OneReceived'
      /\ receives = 0 /\ \A i \in DOMAIN queue' : queue'[i].task # "received"
  BY <1>1, HeadReceived, Zenon
<1>3. ReceiveInv' /\ ResumeInv'
  <2>1. ~(FALSE = TRUE) /\ ~(TRUE = FALSE) /\ ~(0 = 1)
    OBVIOUS
  <2> QED
    BY <1>1, <1>2, <2>1, Zenon DEF ReceiveInv, ResumeInv
<1>4. fed' = fed /\ FedInv
  BY <1>1, Zenon DEF fed, SameLwip, DownlinkInv
<1>5. Len(fed) = remoteSent
  <2>1. "eof" # "data"
    OBVIOUS
  <2>2. <<>> = [n \in 1..remoteSent - Len(fed) |-> Len(fed) + n]
    BY <1>1, <1>2, <2>1, Zenon DEF Carries
  <2>3. PICK L \in Nat : L = Len(fed)
    BY FedSort
  <2>4. L <= remoteSent /\ remoteSent \in Nat
    BY <1>4, <2>3, Numbers DEF FedInv
  <2>5. <<>> = [n \in 1..remoteSent - L |-> L + n]
    BY <2>2, <2>3, Zenon
  <2>6. 1..remoteSent - L = {}
    <3>1. DOMAIN <<>> = {}
      OBVIOUS
    <3> QED
      BY <2>5, <3>1, Zenon
  <2>7. remoteSent - L = 0
    BY <2>4, <2>6
  <2> QED
    BY <2>3, <2>4, <2>7
<1>6. FedInv'
  BY <1>1, <1>2, <1>4, <1>5, Zenon DEF FedInv
<1> QED
  BY <1>3, <1>6, Zenon DEF DownlinkInv

LEMMA ConnectsDownlink ==
  ASSUME TypeOK, PhaseInv, NEW initial, Connects(initial)
  PROVE  DownlinkInv'
<1>1. DialPhase /\ queue' = <<>>
  BY ConnectsPhase, Zenon
<1>2. /\ closed' = FALSE /\ SameLwip /\ SameRemote /\ Arms(pendingWrite, receiveInFlight)
  BY Zenon DEF Connects, Stays
<1>3. /\ pendingWrite = <<>> /\ receiveInFlight = FALSE /\ receives = 0
      /\ toLwip = <<>> /\ remoteSent = 0
  BY <1>1, Zenon DEF DialPhase, Untouched
<1>4. receiveInFlight' = TRUE /\ receives' = 1
  <2>1. Len(pendingWrite) < drainLowWaterMark /\ ~(Len(pendingWrite) >= drainLowWaterMark)
    BY <1>3, Sizes
  <2>2. receiveInFlight' = TRUE /\ receives' = receives + 1
    BY <1>2, <1>3, <2>1 DEF Arms
  <2> QED
    BY <1>3, <2>2
<1>5. ~HasReceived' /\ OneReceived' /\ \A i \in DOMAIN queue' : FALSE
  <2>1. DOMAIN queue' = {}
    BY <1>1
  <2> QED
    BY <2>1 DEF HasReceived, OneReceived
<1>6. fed' = <<>> \o <<>> /\ remoteSent' = 0
  BY <1>2, <1>3, Zenon DEF fed, SameLwip, SameRemote
<1>7. Len(fed') = 0 /\ Len(fed') <= remoteSent' /\ (\A n \in DOMAIN fed' : fed'[n] = n)
  <2>1. fed' = <<>>
    BY <1>6
  <2> QED
    BY <1>6, <2>1
<1>8. FedInv'
  BY <1>5, <1>6, <1>7, Zenon DEF FedInv
<1>9. ReceiveInv' /\ ResumeInv'
  BY <1>4, <1>5, Zenon DEF ReceiveInv, ResumeInv
<1> QED
  BY <1>8, <1>9, Zenon DEF DownlinkInv

LEMMA StepDownlink ==
  ASSUME TypeOK, SendsInv, PhaseInv, DownlinkInv, Step
  PROVE  DownlinkInv'
<1>1. CASE Releases \/ AfterClose
  <2>1. ~(closed' = FALSE)
    BY <1>1 DEF Releases, AfterClose
  <2> QED
    BY <2>1 DEF DownlinkInv
<1>2. CASE Quiet \/ Buffers \/ \E direct \in BOOLEAN, pend \in Seq(1..MaxUp) : Commits(direct, pend)
  <2>1. /\ Stays /\ SameDown /\ queue' = queue /\ remoteSent' = remoteSent
        /\ downlinkDone' = downlinkDone /\ (activityTimer' = None <=> activityTimer = None)
    BY <1>2, Zenon DEF Quiet, Buffers, Commits, SameTimer, SameRemote
  <2> QED
    BY <2>1, KeptArrivals, DownlinkKept, Zenon
<1>3. CASE Coalesces \/ DialEnds \/ DialOpens
  <2>1. /\ Stays /\ SameDown /\ remoteSent' = remoteSent
        /\ downlinkDone' = downlinkDone /\ (activityTimer' = None <=> activityTimer = None)
    BY <1>3, Zenon DEF Coalesces, DialEnds, DialOpens, SameTimer, SameRemote
  <2>2. SameArrivals
    <3>1. CASE Coalesces
      <4>1. [task |-> "flush"].task # "received"
        OBVIOUS
      <4> QED
        BY <3>1, <4>1, TaskMakers, KeptArrivals, PostedArrivals, Zenon DEF Coalesces
    <3>2. CASE DialEnds
      <4>1. [task |-> "connectFailed"].task # "received"
        OBVIOUS
      <4> QED
        BY <3>2, <4>1, TaskMakers, PostedArrivals, Zenon DEF DialEnds
    <3>3. CASE DialOpens
      <4> DEFINE t == [task |-> "connected", kind |-> dial.kind, initialData |-> dial.initialData]
      <4>1. dial.kind \in {"direct", "proxy"} /\ dial.initialData \in Seq(1..MaxUp)
        BY <3>3, DialSorts DEF DialOpens
      <4>2. t \in TaskRecord /\ queue' = Append(queue, t)
        BY <3>3, <4>1, TaskMakers, Zenon DEF DialOpens
      <4>3. t.task # "received"
        OBVIOUS
      <4> QED
        BY <4>2, <4>3, PostedArrivals, Zenon
    <3> QED
      BY <1>3, <3>1, <3>2, <3>3
  <2> QED
    BY <2>1, <2>2, DownlinkKept, Zenon
<1>4. CASE \E i \in DOMAIN sends : SendDone(i) \/ SendLost(i)
  <2>1. /\ Stays /\ SameDown /\ remoteSent' = remoteSent
        /\ downlinkDone' = downlinkDone /\ (activityTimer' = None <=> activityTimer = None)
    BY <1>4, Zenon DEF SendDone, SendLost, SameTimer, SameRemote
  <2> QED
    BY <1>4, <2>1, SendArrivals, DownlinkKept, Zenon
<1>5. CASE Acks \/ Flushes \/ FlushesNothing \/ FlushOver
  <2>1. /\ Stays /\ SameDown /\ remoteSent' = remoteSent
        /\ downlinkDone' = downlinkDone /\ (activityTimer' = None <=> activityTimer = None)
        /\ \/ HeadIs({"ack"}) \/ HeadIs({"flush"}) \/ HeadIs({"flushDone"})
           \/ HeadIs({"flush", "flushDone"})
    BY <1>5, Zenon DEF Acks, Flushes, FlushesNothing, FlushOver, SameTimer, SameRemote
  <2>2. /\ "received" \notin {"ack"} /\ "received" \notin {"flush"}
        /\ "received" \notin {"flushDone"} /\ "received" \notin {"flush", "flushDone"}
    OBVIOUS
  <2>3. SameArrivals
    BY <2>1, <2>2, TakenArrivals, Zenon
  <2> QED
    BY <2>1, <2>3, DownlinkKept, Zenon
<1> QED
  BY <1>1, <1>2, <1>3, <1>4, <1>5, ArrivesDownlink, RedrainsDownlink, DeliversDownlink,
     EndsDownlink, ConnectsDownlink, Zenon DEF Step

LEMMA InitialDownlink ==
  ASSUME Init PROVE DownlinkInv
<1>1. /\ queue = <<>> /\ receives = 0 /\ receiveInFlight = FALSE /\ activityTimer = None
      /\ toLwip = <<>> /\ pendingWrite = <<>> /\ remoteSent = 0
  BY Zenon DEF Init
<1>2. ~HasReceived /\ OneReceived
  BY <1>1 DEF HasReceived, OneReceived
<1>3. ReceiveInv /\ ResumeInv
  BY <1>1, <1>2 DEF ReceiveInv, ResumeInv
<1>4. FedInv
  BY <1>1, <1>2 DEF FedInv, fed
<1> QED
  BY <1>3, <1>4 DEF DownlinkInv

-----------------------------------------------------------------------------
(* The uplink. *)

LEMMA RunEmpty ==
  \A n : Run(<<>>, n)
BY DEF Run

LEMMA RunConcat ==
  ASSUME NEW S, NEW s \in Seq(S), NEW t \in Seq(S), NEW from \in Nat,
         Run(s, from), Run(t, from + Len(s))
  PROVE  Run(s \o t, from)
<1>1. /\ s \o t \in Seq(S) /\ Len(s \o t) = Len(s) + Len(t)
      /\ \A k \in 1..Len(s) + Len(t) : (s \o t)[k] = IF k <= Len(s) THEN s[k] ELSE t[k - Len(s)]
  BY ConcatProperties
<1>2. Len(s) \in Nat /\ Len(t) \in Nat /\ DOMAIN s = 1..Len(s) /\ DOMAIN t = 1..Len(t)
      /\ DOMAIN (s \o t) = 1..Len(s) + Len(t)
  BY <1>1, LenProperties
<1> SUFFICES ASSUME NEW k \in 1..Len(s) + Len(t) PROVE (s \o t)[k] = from + k
  BY <1>2 DEF Run
<1>3. (s \o t)[k] = IF k <= Len(s) THEN s[k] ELSE t[k - Len(s)]
  BY <1>1
<1>4. CASE k <= Len(s)
  <2>1. k \in DOMAIN s
    BY <1>2, <1>4
  <2> QED
    BY <1>3, <1>4, <2>1 DEF Run
<1>5. CASE ~(k <= Len(s))
  <2>1. k - Len(s) \in DOMAIN t
    BY <1>2, <1>5
  <2>2. t[k - Len(s)] = (from + Len(s)) + (k - Len(s))
    BY <2>1 DEF Run
  <2> QED
    BY <1>2, <1>3, <1>5, <2>2
<1> QED
  BY <1>4, <1>5

LEMMA RunAppend ==
  ASSUME NEW s \in Seq(1..MaxUp), NEW from \in Nat, NEW x, x = from + Len(s) + 1, x \in 1..MaxUp,
         Run(s, from)
  PROVE  Run(Append(s, x), from) /\ Len(Append(s, x)) = Len(s) + 1
<1>1. /\ Append(s, x) \in Seq(1..MaxUp) /\ Len(Append(s, x)) = Len(s) + 1
      /\ \A k \in 1..Len(s) : Append(s, x)[k] = s[k]
      /\ Append(s, x)[Len(s) + 1] = x
  BY AppendProperties
<1>2. Len(s) \in Nat /\ DOMAIN s = 1..Len(s) /\ DOMAIN Append(s, x) = 1..Len(s) + 1
  BY <1>1, LenProperties
<1>3. \A k \in 1..Len(s) + 1 : Append(s, x)[k] = from + k
  <2> SUFFICES ASSUME NEW k \in 1..Len(s) + 1 PROVE Append(s, x)[k] = from + k
    OBVIOUS
  <2>1. CASE k \in 1..Len(s)
    BY <1>1, <1>2, <2>1 DEF Run
  <2>2. CASE k = Len(s) + 1
    BY <1>1, <1>2, <2>2
  <2> QED
    BY <1>2, <2>1, <2>2
<1> QED
  BY <1>1, <1>2, <1>3 DEF Run

(* A unit more at the end of a stream. *)
LEMMA ContinuesAppend ==
  ASSUME TypeOK, NEW s \in Seq(1..MaxUp), NEW from \in Nat, Continues(s, from),
         delivered < MaxUp, delivered' = delivered + 1
  PROVE  /\ Run(Append(s, delivered + 1), from)
         /\ delivered' = from + Len(Append(s, delivered + 1))
<1>1. delivered = from + Len(s) /\ Run(s, from) /\ Len(s) \in Nat
  BY LenProperties DEF Continues
<1>2. delivered + 1 = from + Len(s) + 1 /\ delivered + 1 \in 1..MaxUp
  BY <1>1, Numbers, Sizes
<1>3. Run(Append(s, delivered + 1), from) /\ Len(Append(s, delivered + 1)) = Len(s) + 1
  BY <1>1, <1>2, RunAppend
<1> QED
  BY <1>1, <1>3

(* The phases exclude each other. *)
LEMMA ExclusiveNext ==
  /\ SniffPhase' => ~DialPhase' /\ ~OpenPhase'
  /\ DialPhase' => ~OpenPhase'
  /\ Dialing' => ~DialDone' /\ ~DialFailed'
  /\ DialFailed' => ~DialDone'
<1>1. SniffPhase' => ~DialPhase' /\ ~OpenPhase'
  BY DEF SniffPhase, DialPhase, OpenPhase
<1>2. DialPhase' => ~OpenPhase'
  BY DEF DialPhase, OpenPhase, None
<1>3. Dialing' => ~DialDone' /\ ~DialFailed'
  BY DEF Dialing, DialDone, DialFailed
<1>4. DialFailed' => ~DialDone'
  BY DEF DialFailed, DialDone
<1> QED
  BY <1>1, <1>2, <1>3, <1>4

LEMMA OpenUplinkNext ==
  ASSUME OpenPhase', bypass' = FALSE => Run(handedOver, 0)' /\ OpenUplink'
  PROVE  UplinkInv'
BY ExclusiveNext, Zenon DEF UplinkInv

LEMMA LostKept ==
  ASSUME TypeOK, HasLost
  PROVE  /\ queue' = queue => HasLost'
         /\ \A kinds : HeadIs(kinds) /\ "sendFailed" \notin kinds => HasLost'
         /\ \A t \in TaskRecord : queue' = Append(queue, t) => HasLost'
<1>1. PICK i \in DOMAIN queue : queue[i].task = "sendFailed" /\ queue[i].flush = TRUE
  BY DEF HasLost
<1>2. queue' = queue => HasLost'
  BY <1>1, Zenon DEF HasLost
<1>3. ASSUME NEW kinds, HeadIs(kinds), "sendFailed" \notin kinds
      PROVE  HasLost'
  <2>1. /\ queue[1].task \in kinds
        /\ \A j \in DOMAIN queue : j # 1 => j - 1 \in DOMAIN queue' /\ queue'[j - 1] = queue[j]
    BY <1>3, QueueTail, Zenon
  <2>2. i # 1
    BY <1>1, <1>3, <2>1
  <2> QED
    BY <1>1, <2>1, <2>2, Zenon DEF HasLost
<1>4. ASSUME NEW t \in TaskRecord, queue' = Append(queue, t)
      PROVE  HasLost'
  <2>1. \A j \in DOMAIN queue : j \in DOMAIN queue' /\ queue'[j] = queue[j]
    BY <1>4, QueueAppend, Zenon
  <2> QED
    BY <1>1, <2>1, Zenon DEF HasLost
<1> QED
  BY <1>2, <1>3, <1>4

(* Nothing of the uplink changes in an open connection. *)
LEMMA OpenUplinkKept ==
  ASSUME UplinkInv, closed = FALSE, OpenPhase, OpenPhase', bypass' = bypass, SameSends,
         coalesceBuffer' = coalesceBuffer, delivered' = delivered, HasLost => HasLost'
  PROVE  UplinkInv'
<1> SUFFICES ASSUME bypass = FALSE PROVE Run(handedOver, 0)' /\ OpenUplink'
  BY OpenUplinkNext, Zenon
<1>1. Run(handedOver, 0) /\ OpenUplink
  BY Zenon DEF UplinkInv
<1>2. sends' = sends /\ handedOver' = handedOver
  BY DEF SameSends
<1>3. Run(handedOver, 0)'
  BY <1>1, <1>2, Zenon
<1>4. Continues(coalesceBuffer, Len(handedOver)) => Continues(coalesceBuffer, Len(handedOver))'
  BY <1>2, Zenon DEF Continues
<1>5. \A i \in DOMAIN sends : FlushCarries(sends[i].chunks) => FlushCarries(sends[i].chunks)'
  BY <1>2, Zenon DEF FlushCarries, Continues
<1>6. HasRun => HasRun'
  BY <1>2, Zenon DEF HasRun, FlushRuns
<1>7. OpenUplink'
  BY <1>1, <1>2, <1>4, <1>5, <1>6, Zenon DEF OpenUplink, FlushRuns
<1> QED
  BY <1>3, <1>7

LEMMA QueueUplink ==
  ASSUME TypeOK, PhaseInv, UplinkInv,
         Acks \/ FlushesNothing \/ FlushOver \/ DownlinkEnds
           \/ (\E k \in Nat : Delivers(k)) \/ (\E used, retries, k \in Nat : Redrains(used, retries, k))
  PROVE  UplinkInv'
<1>1. OpenPhase /\ OpenPhase'
  BY QueuePhase, Zenon
<1>2. /\ Stays /\ SameRoute /\ SameSends /\ delivered' = delivered
  BY Zenon DEF Acks, FlushesNothing, FlushOver, DownlinkEnds, Delivers, Redrains, Drains,
     SameUp, SameWindow
<1>3. coalesceBuffer' = coalesceBuffer
  <2>1. CASE FlushesNothing
    <3>1. connection # None
      BY <1>1, Zenon DEF OpenPhase
    <3> QED
      BY <2>1, <3>1, Zenon DEF FlushesNothing
  <2>2. CASE ~FlushesNothing
    BY <2>2, Zenon DEF Acks, FlushOver, DownlinkEnds, Delivers, Redrains, Drains, SameUp, SameBuffer
  <2> QED
    BY <2>1, <2>2
<1>4. HasLost => HasLost'
  <2>1. \/ HeadIs({"ack"}) \/ HeadIs({"flush"}) \/ HeadIs({"flushDone"})
        \/ HeadIs({"flush", "flushDone"}) \/ HeadIs({"received"}) \/ queue' = queue
    BY Zenon DEF Acks, FlushesNothing, FlushOver, DownlinkEnds, Delivers, Redrains
  <2>2. /\ "sendFailed" \notin {"ack"} /\ "sendFailed" \notin {"flush"}
        /\ "sendFailed" \notin {"flushDone"} /\ "sendFailed" \notin {"flush", "flushDone"}
        /\ "sendFailed" \notin {"received"}
    OBVIOUS
  <2> QED
    BY <2>1, <2>2, LostKept, Zenon
<1> QED
  BY <1>1, <1>2, <1>3, <1>4, OpenUplinkKept, Zenon DEF Stays, SameRoute

LEMMA ArrivesUplink ==
  ASSUME TypeOK, PhaseInv, UplinkInv, NEW outcome, NEW data, Arrives(outcome, data)
  PROVE  UplinkInv'
<1>1. OpenPhase /\ OpenPhase'
  BY ArrivesPhase, Zenon
<1>2. /\ Stays /\ SameRoute /\ SameSends /\ delivered' = delivered /\ coalesceBuffer' = coalesceBuffer
  BY Zenon DEF Arrives, SameUp, SameWindow, SameBuffer
<1>3. HasLost => HasLost'
  BY TaskMakers, LostKept, Zenon DEF Arrives
<1> QED
  BY <1>1, <1>2, <1>3, OpenUplinkKept, Zenon DEF Stays, SameRoute

LEMMA CoalescesUplink ==
  ASSUME TypeOK, SendsInv, PhaseInv, UplinkInv, Coalesces
  PROVE  UplinkInv'
<1>1. OpenPhase /\ OpenPhase'
  BY CoalescesPhase, Zenon
<1>2. /\ closed = FALSE /\ bypass' = bypass /\ sends' = sends /\ handedOver' = handedOver
      /\ delivered < MaxUp /\ delivered' = delivered + 1
      /\ coalesceBuffer' = Append(coalesceBuffer, delivered + 1)
  BY Zenon DEF Coalesces, Stays, SameRoute, SameSends
<1>3. HasLost => HasLost'
  BY TaskMakers, LostKept, Zenon DEF Coalesces
<1> SUFFICES ASSUME bypass = FALSE PROVE Run(handedOver, 0)' /\ OpenUplink'
  BY <1>1, <1>2, OpenUplinkNext, Zenon
<1>4. Run(handedOver, 0) /\ OpenUplink
  BY <1>1, <1>2, Zenon DEF UplinkInv
<1>5. Run(handedOver, 0)'
  BY <1>2, <1>4, Zenon
<1>6. \A from \in Nat : Continues(coalesceBuffer, from) =>
                         /\ Run(coalesceBuffer', from) /\ delivered' = from + Len(coalesceBuffer')
  BY <1>2, Queues, ContinuesAppend, Zenon
<1>7. Continues(coalesceBuffer, Len(handedOver)) => Continues(coalesceBuffer, Len(handedOver))'
  <2>1. Len(handedOver) \in Nat
    BY Queues, LenProperties
  <2> QED
    BY <1>2, <1>6, <2>1, Zenon DEF Continues
<1>8. \A i \in DOMAIN sends : FlushCarries(sends[i].chunks) /\ sends[i].chunks # <<>>
                                => FlushCarries(sends[i].chunks)'
  <2> SUFFICES ASSUME NEW i \in DOMAIN sends, FlushCarries(sends[i].chunks),
                      sends[i].chunks # <<>>
               PROVE  FlushCarries(sends[i].chunks)'
    OBVIOUS
  <2>1. PICK c : c = sends[i].chunks
    OBVIOUS
  <2>2. PICK e : /\ Offsets(c, e) /\ e[1] = Len(handedOver)
                 /\ Continues(coalesceBuffer, e[Len(c)])
    BY <2>1, Zenon DEF FlushCarries
  <2>3. Len(c) \in Nat /\ Len(c) \in 1..Len(c)
    <3>1. c \in Seq(Seq(1..MaxUp)) /\ c # <<>>
      BY <2>1, CoSorts, Zenon
    <3> QED
      BY <3>1, LenProperties, EmptySeq
  <2>4. e[Len(c)] \in Nat
    BY <2>2, <2>3 DEF Offsets
  <2>5. Run(coalesceBuffer', e[Len(c)]) /\ delivered' = e[Len(c)] + Len(coalesceBuffer')
    BY <1>6, <2>2, <2>4, Zenon
  <2>6. c = sends'[i].chunks
    BY <1>2, <2>1, Zenon
  <2> QED
    BY <1>2, <2>2, <2>5, <2>6, Zenon DEF FlushCarries, Continues
<1>9. HasRun => HasRun'
  BY <1>2, Zenon DEF HasRun, FlushRuns
<1>10. OpenUplink'
  BY <1>2, <1>3, <1>4, <1>7, <1>8, <1>9, Zenon DEF OpenUplink, FlushRuns, SendsInv
<1> QED
  BY <1>5, <1>10

LEMMA RemovedSends ==
  ASSUME TypeOK, NEW i \in DOMAIN sends, sends' = RemoveAt(sends, i)
  PROVE  /\ \A j \in DOMAIN sends' : \E k \in DOMAIN sends : k # i /\ sends'[j] = sends[k]
         /\ \A k \in DOMAIN sends : k # i => \E j \in DOMAIN sends' : sends'[j] = sends[k]
<1>1. ASSUME NEW j \in DOMAIN sends'
      PROVE  \E k \in DOMAIN sends : k # i /\ sends'[j] = sends[k]
  <2>1. /\ j < i => j \in DOMAIN sends /\ j # i /\ sends'[j] = sends[j]
        /\ ~(j < i) => j + 1 \in DOMAIN sends /\ j + 1 # i /\ sends'[j] = sends[j + 1]
    BY SendsRemoved, Zenon
  <2>2. CASE j < i
    BY <2>1, <2>2, Zenon
  <2>3. CASE ~(j < i)
    BY <2>1, <2>3, Zenon
  <2> QED
    BY <2>2, <2>3
<1>2. \A k \in DOMAIN sends : k # i => \E j \in DOMAIN sends' : sends'[j] = sends[k]
  BY SendsRemoved, Zenon
<1> QED
  BY <1>1, <1>2

(* The next chunk of a flush is handed over. *)
LEMMA OffsetsTail ==
  ASSUME NEW c \in Seq(Seq(1..MaxUp)), Len(c) >= 2, NEW e, Offsets(c, e)
  PROVE  \E d : /\ Offsets(Tail(c), d) /\ d[1] = e[1] + Len(c[2])
                /\ d[Len(Tail(c))] = e[Len(c)]
<1>1. /\ Len(c) \in Nat /\ e \in [1..Len(c) -> Nat]
      /\ \A j \in 2..Len(c) : e[j] = e[j - 1] + Len(c[j]) /\ Run(c[j], e[j - 1])
  BY LenProperties DEF Offsets
<1>2. PICK t : t = Tail(c)
  OBVIOUS
<1>3. /\ Len(t) = Len(c) - 1 /\ \A j \in 1..Len(c) - 1 : t[j] = c[j + 1]
  <2>1. c # <<>>
    BY <1>1
  <2> QED
    BY <1>1, <1>2, <2>1, HeadTailProperties
<1>4. PICK d : d = [j \in 1..Len(t) |-> e[j + 1]]
  OBVIOUS
<1>5. d \in [1..Len(t) -> Nat]
  BY <1>1, <1>3, <1>4
<1>6. \A j \in 1..Len(t) : d[j] = e[j + 1]
  BY <1>4
<1>7. ASSUME NEW j \in 2..Len(t)
      PROVE  d[j] = d[j - 1] + Len(t[j]) /\ Run(t[j], d[j - 1])
  <2>1. j \in Nat /\ j + 1 \in 2..Len(c) /\ j \in 1..Len(t) /\ j - 1 \in 1..Len(t)
        /\ j \in 1..Len(c) - 1 /\ (j + 1) - 1 = j /\ (j - 1) + 1 = j
    BY <1>1, <1>3
  <2>2. d[j] = e[j + 1] /\ d[j - 1] = e[j] /\ t[j] = c[j + 1]
    BY <1>3, <1>6, <2>1
  <2>3. e[j + 1] = e[j] + Len(c[j + 1]) /\ Run(c[j + 1], e[j])
    BY <1>1, <2>1
  <2> QED
    BY <2>2, <2>3
<1>8. Offsets(t, d)
  BY <1>5, <1>7, Zenon DEF Offsets
<1>9. d[1] = e[1] + Len(c[2]) /\ d[Len(t)] = e[Len(c)]
  <2>1. 1 \in 1..Len(t) /\ Len(t) \in 1..Len(t) /\ 2 \in 2..Len(c) /\ Len(t) + 1 = Len(c)
    BY <1>1, <1>3
  <2>2. d[1] = e[2] /\ d[Len(t)] = e[Len(c)]
    <3>1. d[1] = e[1 + 1] /\ d[Len(t)] = e[Len(t) + 1]
      BY <1>6, <2>1, Zenon
    <3>2. 1 + 1 = 2
      OBVIOUS
    <3> QED
      BY <2>1, <3>1, <3>2
  <2>3. e[2] = e[1] + Len(c[2])
    BY <1>1, <2>1
  <2> QED
    BY <2>2, <2>3
<1> QED
  BY <1>2, <1>8, <1>9, Zenon

(* The chunks of a flush hold the run the buffer held. *)
LEMMA CutOffsets ==
  ASSUME NEW buf \in Seq(1..MaxUp), NEW c \in Seq(Seq(1..MaxUp)), Len(c) >= 1,
         NEW cut, Cut(buf, c, cut), NEW from \in Nat, Run(buf, from)
  PROVE  /\ Run(c[1], from)
         /\ \E e : /\ Offsets(c, e) /\ e[1] = from + Len(c[1])
                   /\ e[Len(c)] = from + Len(buf)
<1>1. Len(c) \in Nat /\ Len(buf) \in Nat /\ DOMAIN buf = 1..Len(buf)
  BY LenProperties
<1>2. /\ cut \in [0..Len(c) -> Nat] /\ cut[0] = 0 /\ cut[Len(c)] = Len(buf)
      /\ \A i \in 1..Len(c) :
           /\ cut[i - 1] < cut[i] /\ cut[i] <= Len(buf)
           /\ Len(c[i]) = cut[i] - cut[i - 1]
           /\ \A k \in 1..Len(c[i]) : c[i][k] = buf[cut[i - 1] + k]
  BY Zenon DEF Cut
<1>3. ASSUME NEW i \in 1..Len(c)
      PROVE  /\ cut[i] \in Nat /\ cut[i - 1] \in Nat
             /\ cut[i] = cut[i - 1] + Len(c[i]) /\ Run(c[i], from + cut[i - 1])
  <2>1. i \in 0..Len(c) /\ i - 1 \in 0..Len(c)
    BY <1>1
  <2>2. cut[i] \in Nat /\ cut[i - 1] \in Nat
    BY <1>2, <2>1
  <2>3. /\ cut[i - 1] < cut[i] /\ cut[i] <= Len(buf) /\ Len(c[i]) = cut[i] - cut[i - 1]
        /\ \A k \in 1..Len(c[i]) : c[i][k] = buf[cut[i - 1] + k]
    BY <1>2, Zenon
  <2>4. c[i] \in Seq(1..MaxUp) /\ DOMAIN c[i] = 1..Len(c[i])
    BY <1>1
  <2>5. \A k \in 1..Len(c[i]) : c[i][k] = (from + cut[i - 1]) + k
    <3> SUFFICES ASSUME NEW k \in 1..Len(c[i]) PROVE c[i][k] = (from + cut[i - 1]) + k
      OBVIOUS
    <3>1. cut[i - 1] + k \in 1..Len(buf)
      BY <1>1, <2>2, <2>3
    <3>2. buf[cut[i - 1] + k] = from + (cut[i - 1] + k)
      BY <1>1, <3>1 DEF Run
    <3>3. c[i][k] = buf[cut[i - 1] + k]
      BY <2>3, Zenon
    <3> QED
      BY <2>2, <3>2, <3>3
  <2>6. Run(c[i], from + cut[i - 1])
    BY <2>4, <2>5, Zenon DEF Run
  <2> QED
    BY <2>2, <2>3, <2>6
<1>4. Run(c[1], from) /\ cut[1] = Len(c[1]) /\ cut[1] \in Nat
  <2>1. 1 \in 1..Len(c) /\ 1 - 1 = 0
    BY <1>1
  <2>2. cut[1] \in Nat /\ cut[1] = cut[0] + Len(c[1]) /\ Run(c[1], from + cut[0])
    BY <1>3, <2>1
  <2>3. Len(c[1]) \in Nat
    BY <2>1, <1>1, LenProperties
  <2> QED
    BY <1>2, <2>2, <2>3
<1>5. PICK e : e = [j \in 1..Len(c) |-> from + cut[j]]
  OBVIOUS
<1>6. \A j \in 1..Len(c) : e[j] = from + cut[j] /\ e[j] \in Nat
  BY <1>3, <1>5
<1>7. e \in [1..Len(c) -> Nat]
  BY <1>5, <1>6
<1>8. ASSUME NEW j \in 2..Len(c)
      PROVE  e[j] = e[j - 1] + Len(c[j]) /\ Run(c[j], e[j - 1])
  <2>1. j \in 1..Len(c) /\ j - 1 \in 1..Len(c)
    BY <1>1
  <2>2. /\ cut[j] \in Nat /\ cut[j - 1] \in Nat
        /\ cut[j] = cut[j - 1] + Len(c[j]) /\ Run(c[j], from + cut[j - 1])
    BY <1>3, <2>1
  <2>3. e[j] = from + cut[j] /\ e[j - 1] = from + cut[j - 1]
    BY <1>6, <2>1
  <2>4. c[j] \in Seq(1..MaxUp) /\ Len(c[j]) \in Nat
    BY <1>1, <2>1, LenProperties
  <2>5. e[j] = e[j - 1] + Len(c[j])
    BY <2>2, <2>3, <2>4
  <2> QED
    BY <2>2, <2>3, <2>5
<1>9. Offsets(c, e)
  BY <1>7, <1>8, Zenon DEF Offsets
<1>10. e[1] = from + Len(c[1]) /\ e[Len(c)] = from + Len(buf)
  <2>1. 1 \in 1..Len(c) /\ Len(c) \in 1..Len(c)
    BY <1>1
  <2> QED
    BY <1>2, <1>4, <1>6, <2>1
<1> QED
  BY <1>4, <1>9, <1>10, Zenon

LEMMA PostedLost ==
  ASSUME TypeOK, SendsInv, NEW i \in DOMAIN sends, SendDone(i), HasLost
  PROVE  HasLost'
<1>1. queue' = Posted(sends[i])
  BY PostedCases, Zenon DEF SendDone
<1>2. \A j \in DOMAIN queue : j \in DOMAIN queue' /\ queue'[j] = queue[j]
  BY <1>1, QueuePosted, Zenon
<1> QED
  BY <1>2, Zenon DEF HasLost

(* The coroutines other than the removed one carry on. *)
LEMMA OthersCarry ==
  ASSUME TypeOK, SendsInv, OpenUplink, NEW i \in DOMAIN sends, sends' = RemoveAt(sends, i),
         handedOver' = handedOver, delivered' = delivered, coalesceBuffer' = coalesceBuffer
  PROVE  /\ \A j \in DOMAIN sends' : ~FlushRuns(j)' => Len(sends'[j].chunks) = 1
         /\ \A j \in DOMAIN sends' : FlushRuns(j)' => FlushCarries(sends[j].chunks)'
         /\ sends[i].kind # "flush" /\ HasRun => HasRun'
<1>1. /\ \A j \in DOMAIN sends' : \E k \in DOMAIN sends : k # i /\ sends'[j] = sends[k]
      /\ \A k \in DOMAIN sends : k # i => \E j \in DOMAIN sends' : sends'[j] = sends[k]
  BY RemovedSends, Zenon
<1>2. \A j \in DOMAIN sends' : ~FlushRuns(j)' => Len(sends'[j].chunks) = 1
  BY <1>1 DEF OpenUplink, FlushRuns
<1>3. \A j \in DOMAIN sends' : FlushRuns(j)' => FlushCarries(sends[j].chunks)'
  <2> SUFFICES ASSUME NEW j \in DOMAIN sends', FlushRuns(j)' PROVE FlushCarries(sends[j].chunks)'
    OBVIOUS
  <2>1. PICK k \in DOMAIN sends : sends'[j] = sends[k]
    BY <1>1, Zenon
  <2>2. FlushCarries(sends[k].chunks)
    BY <2>1, Zenon DEF OpenUplink, FlushRuns
  <2>3. PICK c : c = sends[k].chunks /\ c = sends'[j].chunks
    BY <2>1, Zenon
  <2>4. PICK e : /\ Offsets(c, e) /\ e[1] = Len(handedOver)
                 /\ Continues(coalesceBuffer, e[Len(c)])
    BY <2>2, <2>3, Zenon DEF FlushCarries
  <2> QED
    BY <2>3, <2>4, Zenon DEF FlushCarries, Continues
<1>4. sends[i].kind # "flush" /\ HasRun => HasRun'
  <2> SUFFICES ASSUME sends[i].kind # "flush", NEW k \in DOMAIN sends, FlushRuns(k)
               PROVE  HasRun'
    BY Zenon DEF HasRun
  <2>1. k # i
    BY Zenon DEF FlushRuns
  <2>2. PICK j \in DOMAIN sends' : sends'[j] = sends[k]
    BY <1>1, <2>1, Zenon
  <2> QED
    BY <2>2, Zenon DEF HasRun, FlushRuns
<1> QED
  BY <1>2, <1>3, <1>4

LEMMA SendDoneUplink ==
  ASSUME TypeOK, SendsInv, PhaseInv, FlushInv, UplinkInv, NEW i \in DOMAIN sends, SendDone(i)
  PROVE  UplinkInv'
<1>1. OpenPhase /\ OpenPhase'
  BY SendPhase, Zenon
<1>2. /\ closed = FALSE /\ bypass' = bypass
      /\ delivered' = delivered /\ coalesceBuffer' = coalesceBuffer
  BY Zenon DEF SendDone, Stays, SameRoute, SameWindow, SameBuffer
<1>3. HasLost => HasLost'
  BY PostedLost, Zenon
<1> SUFFICES ASSUME bypass = FALSE PROVE Run(handedOver, 0)' /\ OpenUplink'
  BY <1>1, <1>2, OpenUplinkNext, Zenon
<1>4. Run(handedOver, 0) /\ OpenUplink
  BY <1>1, <1>2, Zenon DEF UplinkInv
<1>5. PICK c : c = sends[i].chunks
  OBVIOUS
<1>6. c \in Seq(Seq(1..MaxUp)) /\ Len(c) \in Nat /\ Len(c) >= 1 /\ (Tail(c) = <<>> <=> Len(c) = 1)
  <2>1. Len(c) \in Nat /\ Len(c) >= 1 /\ (Tail(c) = <<>> <=> Len(c) = 1)
    BY <1>5, LastChunk, Zenon
  <2>2. c \in Seq(Seq(1..MaxUp))
    BY <1>5, CoSorts, Zenon
  <2> QED
    BY <2>1, <2>2
<1>7. FlushRuns(i) => \E e : /\ Offsets(c, e) /\ e[1] = Len(handedOver)
                             /\ Continues(coalesceBuffer, e[Len(c)])
  BY <1>4, <1>5, Zenon DEF OpenUplink, FlushCarries
<1>8. CASE Len(c) = 1
  <2>1. sends' = RemoveAt(sends, i) /\ handedOver' = handedOver
    BY <1>5, <1>6, <1>8, Zenon DEF SendDone
  <2>2. /\ \A j \in DOMAIN sends' : ~FlushRuns(j)' => Len(sends'[j].chunks) = 1
        /\ \A j \in DOMAIN sends' : FlushRuns(j)' => FlushCarries(sends[j].chunks)'
        /\ sends[i].kind # "flush" /\ HasRun => HasRun'
    BY <1>2, <1>4, <2>1, OthersCarry, Zenon
  <2>3. Continues(coalesceBuffer, Len(handedOver)) => Continues(coalesceBuffer, Len(handedOver))'
    BY <1>2, <2>1, Zenon DEF Continues
  <2>4. FlushRuns(i) => Continues(coalesceBuffer, Len(handedOver))
    BY <1>7, <1>8
  <2>5. HasRun' \/ HasLost' \/ Continues(coalesceBuffer, Len(handedOver))'
    BY <1>3, <1>4, <2>2, <2>3, <2>4, Zenon DEF OpenUplink, FlushRuns
  <2>6. OpenUplink'
    BY <2>2, <2>5, Zenon DEF OpenUplink
  <2>7. Run(handedOver, 0)'
    BY <1>4, <2>1, Zenon
  <2> QED
    BY <2>6, <2>7
<1>9. CASE Len(c) # 1
  <2>1. FlushRuns(i)
    BY <1>4, <1>5, <1>9, Zenon DEF OpenUplink
  <2>2. PICK e : /\ Offsets(c, e) /\ e[1] = Len(handedOver)
                 /\ Continues(coalesceBuffer, e[Len(c)])
    BY <1>7, <2>1, Zenon
  <2>3. /\ sends' = [sends EXCEPT ![i].chunks = Tail(c)]
        /\ handedOver' = handedOver \o Head(Tail(c))
    BY <1>5, <1>6, <1>9, Zenon DEF SendDone
  <2>4. Head(Tail(c)) = c[2] /\ c[2] \in Seq(1..MaxUp) /\ Run(c[2], Len(handedOver))
    <3>1. Len(c) >= 2 /\ 2 \in 1..Len(c) /\ 2 \in 2..Len(c)
      BY <1>6, <1>9
    <3>2. c[2] \in Seq(1..MaxUp)
      BY <1>6, <3>1
    <3>3. Run(c[2], e[1])
      <4>1. 2 - 1 = 1
        OBVIOUS
      <4>2. Run(c[2], e[2 - 1])
        BY <2>2, <3>1, Zenon DEF Offsets
      <4> QED
        BY <4>1, <4>2
    <3>4. Head(Tail(c)) = c[2]
      BY <1>6, <3>1
    <3> QED
      BY <2>2, <3>2, <3>3, <3>4
  <2>5. Len(handedOver) \in Nat /\ handedOver \in Seq(1..MaxUp)
    BY Queues, LenProperties
  <2>6. Len(handedOver') = Len(handedOver) + Len(c[2])
    BY <2>3, <2>4, <2>5, ConcatProperties, ZenonT(30)
  <2>7. Run(handedOver', 0)
    <3>1. 0 \in Nat /\ 0 + Len(handedOver) = Len(handedOver)
      BY <2>5
    <3>2. Run(handedOver \o c[2], 0)
      BY <1>4, <2>4, <2>5, <3>1, RunConcat
    <3> QED
      BY <2>3, <2>4, <3>2, Zenon
  <2>8. PICK d : /\ Offsets(Tail(c), d) /\ d[1] = e[1] + Len(c[2])
                 /\ d[Len(Tail(c))] = e[Len(c)]
    <3>1. Len(c) >= 2
      BY <1>6, <1>9
    <3> QED
      BY <1>6, <2>2, <3>1, OffsetsTail, Zenon
  <2>9. PICK t : t = Tail(c)
    OBVIOUS
  <2>10. /\ DOMAIN sends' = DOMAIN sends
         /\ \A j \in DOMAIN sends : j # i => sends'[j] = sends[j]
         /\ sends'[i].kind = sends[i].kind /\ sends'[i].chunks = t
    BY <2>3, <2>9, SendsShortened, Zenon
  <2>11. FlushCarries(sends[i].chunks)'
    <3>1. /\ Offsets(t, d) /\ d[1] = Len(handedOver') /\ d[Len(t)] = e[Len(c)]
      BY <2>2, <2>6, <2>8, <2>9
    <3>2. Run(coalesceBuffer', d[Len(t)]) /\ delivered' = d[Len(t)] + Len(coalesceBuffer')
      BY <1>2, <2>2, <3>1, Zenon DEF Continues
    <3> QED
      BY <2>10, <3>1, <3>2, Zenon DEF FlushCarries, Continues
  <2>12. \A j \in DOMAIN sends : j # i => ~FlushRuns(j) /\ ~FlushRuns(j)'
    <3>1. \A j \in DOMAIN sends : j # i => ~FlushRuns(j)
      BY <1>2, <2>1, Zenon DEF FlushInv, OneRun
    <3> QED
      BY <2>10, <3>1 DEF FlushRuns
  <2>13. FlushRuns(i)'
    BY <2>1, <2>10, Zenon DEF FlushRuns
  <2>14. HasRun'
    BY <2>10, <2>13, Zenon DEF HasRun
  <2>15. \A j \in DOMAIN sends' : ~FlushRuns(j)' => Len(sends'[j].chunks) = 1
    <3> SUFFICES ASSUME NEW j \in DOMAIN sends, j # i PROVE Len(sends'[j].chunks) = 1
      BY <2>10, <2>13, Zenon
    <3>1. Len(sends[j].chunks) = 1
      BY <1>4, <2>12, Zenon DEF OpenUplink
    <3> QED
      BY <2>10, <3>1
  <2>16. \A j \in DOMAIN sends' : FlushRuns(j)' => FlushCarries(sends[j].chunks)'
    BY <2>10, <2>11, <2>12, Zenon
  <2> QED
    BY <2>7, <2>14, <2>15, <2>16, Zenon DEF OpenUplink
<1> QED
  BY <1>8, <1>9

LEMMA SendLostUplink ==
  ASSUME TypeOK, SendsInv, PhaseInv, UplinkInv, NEW i \in DOMAIN sends, SendLost(i)
  PROVE  UplinkInv'
<1> DEFINE t == [task |-> "sendFailed", flush |-> sends[i].kind = "flush"]
<1>1. OpenPhase /\ OpenPhase'
  BY SendPhase, Zenon
<1>2. /\ closed = FALSE /\ bypass' = bypass /\ handedOver' = handedOver
      /\ sends' = RemoveAt(sends, i) /\ queue' = Append(queue, t)
      /\ delivered' = delivered /\ coalesceBuffer' = coalesceBuffer
  BY Zenon DEF SendLost, Stays, SameRoute, SameWindow, SameBuffer
<1>3. t \in TaskRecord
  <2>1. (sends[i].kind = "flush") \in BOOLEAN
    OBVIOUS
  <2> QED
    BY <2>1, TaskMakers, Zenon
<1>4. t.task = "sendFailed" /\ (sends[i].kind = "flush" => t.flush = TRUE)
  OBVIOUS
<1> HIDE DEF t
<1>5. HasLost => HasLost'
  BY <1>2, <1>3, LostKept, Zenon
<1>6. sends[i].kind = "flush" => HasLost'
  <2>1. PICK n \in DOMAIN queue' : queue'[n] = t
    BY <1>2, <1>3, QueueAppend, Zenon
  <2> QED
    BY <1>4, <2>1, Zenon DEF HasLost
<1> SUFFICES ASSUME bypass = FALSE PROVE Run(handedOver, 0)' /\ OpenUplink'
  BY <1>1, <1>2, OpenUplinkNext, Zenon
<1>7. Run(handedOver, 0) /\ OpenUplink
  BY <1>1, <1>2, Zenon DEF UplinkInv
<1>8. Run(handedOver, 0)'
  BY <1>2, <1>7, Zenon
<1>9. /\ \A j \in DOMAIN sends' : ~FlushRuns(j)' => Len(sends'[j].chunks) = 1
      /\ \A j \in DOMAIN sends' : FlushRuns(j)' => FlushCarries(sends[j].chunks)'
      /\ sends[i].kind # "flush" /\ HasRun => HasRun'
  BY <1>2, <1>7, OthersCarry, Zenon
<1>10. Continues(coalesceBuffer, Len(handedOver)) => Continues(coalesceBuffer, Len(handedOver))'
  BY <1>2, Zenon DEF Continues
<1>11. HasRun' \/ HasLost' \/ Continues(coalesceBuffer, Len(handedOver))'
  BY <1>5, <1>6, <1>7, <1>9, <1>10, Zenon DEF OpenUplink
<1>12. OpenUplink'
  BY <1>9, <1>11, Zenon DEF OpenUplink
<1> QED
  BY <1>8, <1>12


LEMMA FlushesUplink ==
  ASSUME TypeOK, SendsInv, PhaseInv, FlushInv, UplinkInv, Flushes
  PROVE  UplinkInv'
<1>1. OpenPhase /\ OpenPhase'
  BY QueuePhase, Zenon
<1>2. /\ closed = FALSE /\ bypass' = bypass /\ delivered' = delivered
      /\ coalesceBuffer # <<>> /\ coalesceBuffer' = <<>> /\ HeadIs({"flush", "flushDone"})
  BY Zenon DEF Flushes, Stays, SameRoute, SameWindow
<1>3. PICK c : c = Chunks(coalesceBuffer)
  OBVIOUS
<1>4. sends' = Append(sends, Coroutine("flush", c, 0)) /\ handedOver' = handedOver \o Head(c)
  BY <1>3, Zenon DEF Flushes
<1> SUFFICES ASSUME bypass = FALSE PROVE Run(handedOver, 0)' /\ OpenUplink'
  BY <1>1, <1>2, OpenUplinkNext, Zenon
<1>5. Run(handedOver, 0) /\ OpenUplink
  BY <1>1, <1>2, Zenon DEF UplinkInv
<1>6. HasLost => HasEnd
  BY Zenon DEF HasLost, HasEnd, FlushEnds
<1>7. ~HasRun /\ ~HasLost
  <2>1. CASE HeadIs({"flush"})
    <3>1. HasFlush
      BY <2>1, TaskTaken, Zenon
    <3> QED
      BY <1>2, <1>6, <3>1, Zenon DEF FlushInv
  <2>2. CASE HeadIs({"flushDone"})
    <3>1. HasEnd
      BY <2>2, TaskTaken, Zenon
    <3>2. ~HasRun /\ OneEnd
      BY <1>2, <3>1, Zenon DEF FlushInv
    <3>3. 1 \in DOMAIN queue /\ queue[1].task = "flushDone"
      BY <2>2, QueueTail
    <3>4. ~HasLost
      <4> SUFFICES ASSUME NEW j \in DOMAIN queue,
                          queue[j].task = "sendFailed", queue[j].flush = TRUE
                   PROVE  FALSE
        BY Zenon DEF HasLost
      <4>1. FlushEnds(j) /\ FlushEnds(1)
        BY <3>3 DEF FlushEnds
      <4>2. j = 1
        BY <3>2, <3>3, <4>1, Zenon DEF OneEnd
      <4> QED
        BY <3>3, <4>2
    <3> QED
      BY <3>2, <3>4
  <2> QED
    BY <1>2, <2>1, <2>2, HeadEither, Zenon
<1>8. Run(coalesceBuffer, Len(handedOver)) /\ delivered = Len(handedOver) + Len(coalesceBuffer)
  BY <1>5, <1>7, Zenon DEF OpenUplink, Continues
<1>9. handedOver \in Seq(1..MaxUp) /\ Len(handedOver) \in Nat /\ coalesceBuffer \in Seq(1..MaxUp)
  BY Queues, LenProperties
<1>10. /\ c \in Seq(Seq(1..MaxUp)) /\ Len(c) >= 1 /\ \E cut : Cut(coalesceBuffer, c, cut)
  BY <1>2, <1>3, <1>9, ChunksCut, Zenon
<1>11. /\ Run(c[1], Len(handedOver))
       /\ \E e : /\ Offsets(c, e) /\ e[1] = Len(handedOver) + Len(c[1])
                 /\ e[Len(c)] = Len(handedOver) + Len(coalesceBuffer)
  BY <1>8, <1>9, <1>10, CutOffsets, Zenon
<1>12. PICK e : /\ Offsets(c, e) /\ e[1] = Len(handedOver) + Len(c[1])
                /\ e[Len(c)] = Len(handedOver) + Len(coalesceBuffer)
  BY <1>11, Zenon
<1>13. Head(c) = c[1] /\ c[1] \in Seq(1..MaxUp)
  BY <1>10
<1>14. handedOver' = handedOver \o c[1] /\ Len(handedOver') = Len(handedOver) + Len(c[1])
  BY <1>4, <1>9, <1>13, ConcatProperties
<1>15. Run(handedOver', 0)
  <2>1. 0 \in Nat /\ 0 + Len(handedOver) = Len(handedOver)
    BY <1>9
  <2>2. Run(handedOver \o c[1], 0)
    BY <1>5, <1>9, <1>11, <1>13, <2>1, RunConcat
  <2> QED
    BY <1>14, <2>2, Zenon
<1>16. PICK co : co = Coroutine("flush", c, 0)
  OBVIOUS
<1>17. co \in SendRecord /\ co.kind = "flush" /\ co.chunks = c
  BY <1>10, <1>16 DEF Coroutine, SendRecord
<1>18. PICK m : m \in DOMAIN sends' /\ sends'[m] = co
                /\ \A j \in DOMAIN sends' : j = m \/ (j \in DOMAIN sends /\ sends'[j] = sends[j])
  BY <1>4, <1>16, <1>17, SendsAppended, Zenon
<1>19. sends'[m].chunks = c /\ FlushRuns(m)'
  BY <1>17, <1>18, Zenon DEF FlushRuns
<1>20. FlushCarries(sends[m].chunks)'
  <2>1. Run(coalesceBuffer', e[Len(c)]) /\ delivered' = e[Len(c)] + Len(coalesceBuffer')
    <3>1. Len(coalesceBuffer') = 0 /\ Len(coalesceBuffer) \in Nat
      BY <1>2, <1>9, LenProperties
    <3>2. delivered' = e[Len(c)] + Len(coalesceBuffer')
      BY <1>2, <1>8, <1>9, <1>12, <3>1
    <3> QED
      BY <1>2, <3>2, RunEmpty, Zenon
  <2>2. Offsets(c, e) /\ e[1] = Len(handedOver')
    BY <1>12, <1>14
  <2> QED
    BY <1>19, <2>1, <2>2, Zenon DEF FlushCarries, Continues
<1>21. \A j \in DOMAIN sends' : j # m => ~FlushRuns(j)' /\ Len(sends'[j].chunks) = 1
  <2> SUFFICES ASSUME NEW j \in DOMAIN sends', j # m
               PROVE  ~FlushRuns(j)' /\ Len(sends'[j].chunks) = 1
    OBVIOUS
  <2>1. j \in DOMAIN sends /\ sends'[j] = sends[j]
    BY <1>18, Zenon
  <2>2. ~FlushRuns(j)
    BY <1>7, <2>1, Zenon DEF HasRun
  <2>3. Len(sends[j].chunks) = 1
    BY <1>5, <2>1, <2>2, Zenon DEF OpenUplink
  <2> QED
    BY <2>1, <2>2, <2>3 DEF FlushRuns
<1>22. HasRun'
  BY <1>18, <1>19, Zenon DEF HasRun
<1> QED
  BY <1>15, <1>19, <1>20, <1>21, <1>22, Zenon DEF OpenUplink

(* Nothing of the uplink was handed over before the dial ended. *)
LEMMA OpeningUplink ==
  ASSUME TypeOK, PhaseInv, UplinkInv, NEW initial, Connects(initial)
  PROVE  UplinkInv'
<1>1. /\ DialPhase /\ DialDone /\ OpenPhase'
      /\ queue[1] = Head(queue) /\ Head(queue).kind = connecting
      /\ initial = queue[1].initialData
  BY ConnectsPhase, Zenon
<1>2. /\ closed = FALSE /\ bypass' = bypass /\ delivered' = delivered
      /\ coalesceBuffer' = coalesceBuffer
  BY Zenon DEF Connects, Stays, SameBuffer
<1> SUFFICES ASSUME bypass = FALSE PROVE Run(handedOver, 0)' /\ OpenUplink'
  BY <1>1, <1>2, OpenUplinkNext, Zenon
<1>3. /\ handedOver = initial /\ Run(initial, 0)
      /\ Run(pendingData, Len(initial)) /\ delivered = Len(initial) + Len(pendingData)
  BY <1>1, <1>2, Zenon DEF UplinkInv, CarriedInv, Continues
<1>4. /\ pendingData \in Seq(1..MaxUp) /\ handedOver \in Seq(1..MaxUp)
      /\ Len(handedOver) \in Nat /\ Len(pendingData) \in Nat
  BY Queues, LenProperties
<1>5. connecting = "proxy" /\ sends = <<>> /\ coalesceBuffer = <<>>
  <2>1. bypass # TRUE
    OBVIOUS
  <2>2. connecting = IF bypass = TRUE THEN "direct" ELSE "proxy"
    BY <1>1, Zenon DEF DialPhase
  <2>3. connecting = "proxy"
    BY <2>1, <2>2
  <2> QED
    BY <1>1, <2>3, Zenon DEF DialPhase, Untouched
<1>6. OpeningChunks(initial) = IF pendingData # <<>> THEN <<pendingData>> ELSE <<>>
  <2>1. ~(Head(queue).kind = "direct" /\ initial # <<>>)
    BY <1>1, <1>5
  <2>2. <<pendingData>> \in Seq(Seq(1..MaxUp)) /\ <<>> \in Seq(Seq(1..MaxUp))
    BY <1>4
  <2>3. OpeningChunks(initial) = <<>> \o (IF pendingData # <<>> THEN <<pendingData>> ELSE <<>>)
    BY <2>1, Zenon DEF OpeningChunks
  <2>4. \A s \in Seq(Seq(1..MaxUp)) : <<>> \o s = s
    OBVIOUS
  <2> QED
    BY <2>2, <2>3, <2>4
<1>7. Len(coalesceBuffer') = 0 /\ coalesceBuffer' = <<>>
  BY <1>2, <1>5
<1>8. CASE pendingData # <<>>
  <2>1. PICK o : o = OpeningChunks(initial)
    OBVIOUS
  <2>2. o = <<pendingData>>
    BY <1>6, <1>8, <2>1
  <2>3. o # <<>> /\ Head(o) = pendingData /\ Len(o) = 1 /\ o \in Seq(Seq(1..MaxUp))
    BY <1>4, <2>2
  <2>4. PICK n : n = Len(initial) + Len(pendingData)
    OBVIOUS
  <2>5. PICK co : co = Coroutine("initial", o, n)
    OBVIOUS
  <2>6. sends' = Append(sends, co) /\ handedOver' = handedOver \o pendingData
    BY <2>1, <2>3, <2>4, <2>5, Zenon DEF Connects
  <2>7. co \in SendRecord /\ co.kind = "initial" /\ co.chunks = o
    <3>1. n \in Nat
      BY <1>3, <1>4, <2>4
    <3> QED
      BY <2>3, <2>5, <3>1 DEF Coroutine, SendRecord
  <2>8. \A j \in DOMAIN sends' : sends'[j] = co
    <3>1. \A j \in DOMAIN sends' : j \in DOMAIN sends \/ sends'[j] = co
      BY <2>6, <2>7, SendsAppended, Zenon
    <3>2. DOMAIN sends = {}
      BY <1>5
    <3> QED
      BY <3>1, <3>2
  <2>9. Run(handedOver', 0) /\ Len(handedOver') = Len(handedOver) + Len(pendingData)
    <3>1. 0 \in Nat /\ 0 + Len(handedOver) = Len(handedOver)
      BY <1>4
    <3>2. Run(handedOver \o pendingData, 0)
      BY <1>3, <1>4, <3>1, RunConcat
    <3>3. Len(handedOver \o pendingData) = Len(handedOver) + Len(pendingData)
      BY <1>4, ConcatProperties
    <3> QED
      BY <2>6, <3>2, <3>3
  <2>10. Run(coalesceBuffer', Len(handedOver')) /\ delivered' = Len(handedOver') + Len(coalesceBuffer')
    <3>1. delivered' = Len(handedOver') + Len(coalesceBuffer')
      BY <1>2, <1>3, <1>4, <1>7, <2>9
    <3> QED
      BY <1>7, <3>1, RunEmpty, Zenon
  <2>11. \A j \in DOMAIN sends' : ~FlushRuns(j)' /\ Len(sends'[j].chunks) = 1
    BY <2>3, <2>7, <2>8 DEF FlushRuns
  <2> QED
    BY <2>9, <2>10, <2>11, Zenon DEF OpenUplink, Continues
<1>9. CASE pendingData = <<>>
  <2>1. OpeningChunks(initial) = <<>>
    BY <1>6, <1>9
  <2>2. sends' = sends /\ handedOver' = handedOver
    BY <2>1, Zenon DEF Connects, SameSends
  <2>3. DOMAIN sends' = {}
    BY <1>5, <2>2
  <2>4. Run(coalesceBuffer', Len(handedOver')) /\ delivered' = Len(handedOver') + Len(coalesceBuffer')
    <3>1. delivered' = Len(handedOver') + Len(coalesceBuffer')
      BY <1>2, <1>3, <1>4, <1>7, <1>9, <2>2
    <3> QED
      BY <1>7, <3>1, RunEmpty, Zenon
  <2>5. Run(handedOver', 0)
    BY <1>3, <2>2, Zenon
  <2>6. \A j \in DOMAIN sends' : FALSE
    BY <2>3
  <2> QED
    BY <2>4, <2>5, <2>6, Zenon DEF OpenUplink, Continues
<1> QED
  BY <1>8, <1>9

(* The steps before the connection opens. *)
LEMMA SniffUplinkNext ==
  ASSUME SniffPhase', CarriedInv(<<>>)', handedOver' = <<>>
  PROVE  UplinkInv'
BY ExclusiveNext, RunEmpty, Zenon DEF UplinkInv

LEMMA DialUplinkNext ==
  ASSUME DialPhase', bypass' = FALSE => Run(handedOver, 0)',
         Dialing' => CarriedInv(dial.initialData)' /\ handedOver' = <<>>,
         DialDone' => /\ CarriedInv(queue[1].initialData)'
                      /\ bypass' = FALSE => handedOver' = queue'[1].initialData
  PROVE  UplinkInv'
BY ExclusiveNext, Zenon DEF UplinkInv

LEMMA EarlyFacts ==
  ASSUME TypeOK, UplinkInv, closed = FALSE
  PROVE  /\ SniffPhase => CarriedInv(<<>>) /\ handedOver = <<>>
         /\ DialPhase /\ Dialing => CarriedInv(dial.initialData) /\ handedOver = <<>>
         /\ DialPhase /\ DialDone => /\ CarriedInv(queue[1].initialData)
                                     /\ bypass = FALSE => handedOver = queue[1].initialData
         /\ bypass = FALSE => Run(handedOver, 0)
BY Zenon DEF UplinkInv

(* Later units extend what is pending, whatever the handshake carries. *)
LEMMA CarriedGrown ==
  ASSUME TypeOK, NEW initialData \in Seq(1..MaxUp), CarriedInv(initialData),
         \/ delivered < MaxUp /\ delivered' = delivered + 1 /\ pendingData' = Grown
         \/ delivered' = delivered /\ pendingData' = pendingData
  PROVE  /\ Run(initialData, 0) /\ Run(pendingData', Len(initialData))
         /\ delivered' = Len(initialData) + Len(pendingData')
<1>1. /\ Run(initialData, 0) /\ Continues(pendingData, Len(initialData))
      /\ Len(initialData) \in Nat /\ pendingData \in Seq(1..MaxUp)
  BY Queues, LenProperties DEF CarriedInv
<1>2. CASE delivered < MaxUp /\ delivered' = delivered + 1 /\ pendingData' = Grown
  BY <1>1, <1>2, ContinuesAppend, Zenon DEF Grown
<1>3. CASE delivered' = delivered /\ pendingData' = pendingData
  BY <1>1, <1>3, Zenon DEF Continues
<1> QED
  BY <1>2, <1>3

LEMMA EarlyKept ==
  ASSUME TypeOK, PhaseInv, UplinkInv, closed = FALSE, PhaseInv', closed' = FALSE,
         SameRoute, SameSends, queue' = queue, SniffPhase \/ DialPhase,
         SniffPhase => SniffPhase', DialPhase => DialPhase',
         Dialing' => Dialing, DialDone' => DialDone,
         \/ delivered < MaxUp /\ delivered' = delivered + 1 /\ pendingData' = Grown
         \/ delivered' = delivered /\ pendingData' = pendingData
  PROVE  UplinkInv'
<1>1. handedOver' = handedOver /\ bypass' = bypass /\ dial' = dial
  BY Zenon DEF SameSends, SameRoute
<1>2. CASE SniffPhase
  <2>1. CarriedInv(<<>>) /\ handedOver = <<>>
    BY <1>2, EarlyFacts, Zenon
  <2>2. <<>> \in Seq(1..MaxUp)
    OBVIOUS
  <2>3. /\ Run(<<>>, 0) /\ Run(pendingData', Len(<<>>)) /\ delivered' = Len(<<>>) + Len(pendingData')
    BY <2>1, <2>2, CarriedGrown, Zenon
  <2>4. CarriedInv(<<>>)'
    BY <2>3, Zenon DEF CarriedInv, Continues
  <2> QED
    BY <1>1, <1>2, <2>1, <2>4, SniffUplinkNext, Zenon
<1>3. CASE DialPhase
  <2>1. Dialing' => CarriedInv(dial.initialData)' /\ handedOver' = <<>>
    <3> SUFFICES ASSUME Dialing' PROVE CarriedInv(dial.initialData)' /\ handedOver' = <<>>
      OBVIOUS
    <3>1. PICK d : d = dial.initialData
      OBVIOUS
    <3>2. d \in Seq(1..MaxUp) /\ CarriedInv(d) /\ handedOver = <<>>
      BY <1>3, <3>1, EarlyFacts, DialSorts, Zenon
    <3>3. Run(d, 0) /\ Run(pendingData', Len(d)) /\ delivered' = Len(d) + Len(pendingData')
      BY <3>2, CarriedGrown, Zenon
    <3>4. d = dial'.initialData
      BY <1>1, <3>1, Zenon
    <3> QED
      BY <1>1, <3>2, <3>3, <3>4, Zenon DEF CarriedInv, Continues
  <2>2. DialDone' => /\ CarriedInv(queue[1].initialData)'
                     /\ bypass' = FALSE => handedOver' = queue'[1].initialData
    <3> SUFFICES ASSUME DialDone'
                 PROVE  /\ CarriedInv(queue[1].initialData)'
                        /\ bypass' = FALSE => handedOver' = queue'[1].initialData
      OBVIOUS
    <3>1. PICK d : d = queue[1].initialData
      OBVIOUS
    <3>2. CarriedInv(d) /\ (bypass = FALSE => handedOver = d)
      BY <1>3, <3>1, EarlyFacts, Zenon
    <3>3. d \in Seq(1..MaxUp)
      <4>1. queue \in Seq(TaskRecord)
        BY Sorts
      <4>2. Len(queue) = 1 /\ queue[1].task = "connected"
        BY Zenon DEF DialDone
      <4>3. 1 \in 1..1
        OBVIOUS
      <4>4. queue[1] \in TaskRecord
        BY <4>1, <4>2, <4>3, ElementOfSeq
      <4> QED
        BY <3>1, <4>2, <4>4, TaskSorts
    <3>4. Run(d, 0) /\ Run(pendingData', Len(d)) /\ delivered' = Len(d) + Len(pendingData')
      BY <3>2, <3>3, CarriedGrown, Zenon
    <3>5. d = queue'[1].initialData
      BY <3>1, Zenon
    <3> QED
      BY <1>1, <3>2, <3>4, <3>5, Zenon DEF CarriedInv, Continues
  <2>3. bypass' = FALSE => Run(handedOver, 0)'
    BY <1>1, EarlyFacts, Zenon
  <2> QED
    BY <1>3, <2>1, <2>2, <2>3, DialUplinkNext, Zenon
<1> QED
  BY <1>2, <1>3

(* A step that only lets units arrive, or nothing, in whatever phase. *)
LEMMA ArrivalUplink ==
  ASSUME TypeOK, SendsInv, PhaseInv, UplinkInv, Quiet \/ Buffers
  PROVE  UplinkInv'
<1>1. /\ Stays /\ SameRoute /\ SameBuffer /\ SameSends /\ SameDown /\ SameRemote
      /\ recved' = recved /\ queue' = queue
      /\ sniffing = TRUE \/ connecting # None \/ Quiet
      /\ \/ delivered < MaxUp /\ delivered' = delivered + 1 /\ pendingData' = Grown
         \/ delivered' = delivered /\ pendingData' = pendingData
  BY Zenon DEF Quiet, Buffers, SameUp, SameWindow
<1>2. closed = FALSE /\ closed' = FALSE
  BY <1>1, Zenon DEF Stays
<1>3. activityTimer' = None <=> activityTimer = None
  BY Zenon DEF Quiet, Buffers, SameTimer
<1>4. PhaseInv'
  <2>1. Step
    BY Zenon DEF Step
  <2> QED
    BY <2>1, StepPhase, Zenon
<1>5. CASE OpenPhase
  <2>1. sniffing = FALSE /\ connecting = None
    BY <1>5, Zenon DEF OpenPhase
  <2>2. Quiet
    <3>1. ~(sniffing = TRUE) /\ ~(connecting # None)
      BY <2>1
    <3> QED
      BY <1>1, <3>1, Zenon
  <2>3. pendingData' = pendingData /\ delivered' = delivered
    BY <2>2, Zenon DEF Quiet, SameUp, SameWindow
  <2>4. OpenPhase'
    BY <1>1, <1>3, <1>5, <2>3, Zenon DEF OpenPhase, SameRoute
  <2>5. HasLost => HasLost'
    BY <1>1, Zenon DEF HasLost
  <2>6. bypass' = bypass /\ coalesceBuffer' = coalesceBuffer
    BY <1>1, Zenon DEF SameRoute, SameBuffer
  <2> QED
    BY <1>1, <1>2, <1>5, <2>3, <2>4, <2>5, <2>6, OpenUplinkKept, Zenon
<1>6. CASE SniffPhase \/ DialPhase
  <2> USE DEF SameRoute, SameBuffer, SameDown, SameLwip, SameReceive, SameRemote, SameSends
  <2>1. Untouched => Untouched'
    BY <1>1, Zenon DEF Untouched
  <2>2. SniffPhase => SniffPhase'
    BY <1>1, <1>3, <2>1, Zenon DEF SniffPhase
  <2>3. (Dialing <=> Dialing') /\ (DialFailed => DialFailed') /\ (DialDone <=> DialDone')
    <3>1. Dialing <=> Dialing'
      BY <1>1, Zenon DEF Dialing
    <3>2. DialFailed => DialFailed'
      BY <1>1, Zenon DEF DialFailed
    <3>3. DialDone <=> DialDone'
      BY <1>1, Zenon DEF DialDone
    <3> QED
      BY <3>1, <3>2, <3>3
  <2>4. DialPhase => DialPhase'
    BY <1>1, <1>3, <2>1, <2>3, Zenon DEF DialPhase
  <2> QED
    BY <1>1, <1>2, <1>4, <1>6, <2>2, <2>3, <2>4, EarlyKept, Zenon
<1> QED
  BY <1>2, <1>5, <1>6, Zenon DEF PhaseInv

LEMMA CommitsUplink ==
  ASSUME TypeOK, PhaseInv, UplinkInv, NEW direct \in BOOLEAN, NEW pend \in Seq(1..MaxUp),
         Commits(direct, pend)
  PROVE  UplinkInv'
<1>1. SniffPhase /\ DialPhase' /\ Dialing'
  BY CommitsPhase, Zenon
<1>2. closed = FALSE /\ handedOver' = handedOver
  BY Zenon DEF Commits, Stays, SameSends
<1>3. CarriedInv(<<>>) /\ handedOver = <<>>
  BY <1>1, <1>2, EarlyFacts, Zenon
<1>4. Run(pend, 0) /\ delivered' = Len(pend)
  <2>1. Run(pendingData, 0) /\ delivered = 0 + Len(pendingData) /\ 0 \in Nat
    <3>1. Len(<<>>) = 0
      OBVIOUS
    <3> QED
      BY <1>3, <3>1 DEF CarriedInv, Continues
  <2>2. pendingData \in Seq(1..MaxUp) /\ Len(pendingData) \in Nat
    BY Queues, LenProperties
  <2>3. CASE delivered < MaxUp /\ delivered' = delivered + 1 /\ pend = Grown
    <3>1. Continues(pendingData, 0)
      BY <2>1, Zenon DEF Continues
    <3>2. Run(pend, 0) /\ delivered' = 0 + Len(pend)
      BY <2>1, <2>2, <2>3, <3>1, ContinuesAppend, Zenon DEF Grown
    <3>3. Len(pend) \in Nat
      BY LenProperties
    <3> QED
      BY <3>2, <3>3
  <2>4. CASE delivered' = delivered /\ pend = pendingData
    BY <2>1, <2>2, <2>4
  <2> QED
    BY <2>3, <2>4, Zenon DEF Commits
<1>5. CarriedInv(dial.initialData)'
  <2>1. \/ dial'.initialData = pend /\ pendingData' = <<>>
        \/ dial'.initialData = <<>> /\ pendingData' = pend
    BY DEF Commits
  <2>2. Len(<<>>) = 0 /\ Len(pend) \in Nat /\ Len(pend) + 0 = Len(pend) /\ 0 + Len(pend) = Len(pend)
    <3>1. Len(pend) \in Nat
      BY LenProperties
    <3> QED
      BY <3>1
  <2>3. CASE dial'.initialData = pend /\ pendingData' = <<>>
    BY <1>4, <2>2, <2>3, RunEmpty, Zenon DEF CarriedInv, Continues
  <2>4. CASE dial'.initialData = <<>> /\ pendingData' = pend
    BY <1>4, <2>2, <2>4, RunEmpty, Zenon DEF CarriedInv, Continues
  <2> QED
    BY <2>1, <2>3, <2>4
<1>6. bypass' = FALSE => Run(handedOver, 0)'
  BY <1>2, <1>3, RunEmpty, Zenon
<1> QED
  BY <1>1, <1>2, <1>3, <1>5, <1>6, DialUplinkNext, ExclusiveNext, Zenon

LEMMA DialEndUplink ==
  ASSUME TypeOK, PhaseInv, UplinkInv, DialEnds \/ DialOpens
  PROVE  UplinkInv'
<1>1. /\ DialPhase /\ Dialing /\ DialPhase' /\ (DialEnds => DialFailed') /\ (DialOpens => DialDone')
  BY DialEndsPhase, Zenon
<1>2. /\ closed = FALSE /\ pendingData' = pendingData /\ delivered' = delivered
      /\ bypass' = bypass
  BY Zenon DEF DialEnds, DialOpens, Stays, SameUp, SameWindow
<1>3. CarriedInv(dial.initialData) /\ handedOver = <<>>
  BY <1>1, <1>2, EarlyFacts, Zenon
<1>4. CASE DialEnds
  <2>1. handedOver' = handedOver
    BY <1>4, Zenon DEF DialEnds, SameUp, SameSends
  <2>2. bypass' = FALSE => Run(handedOver, 0)'
    BY <1>3, <2>1, RunEmpty, Zenon
  <2> QED
    BY <1>1, <1>4, <2>2, DialUplinkNext, ExclusiveNext, Zenon
<1>5. CASE DialOpens
  <2>1. PICK d : d = dial.initialData
    OBVIOUS
  <2>2. /\ dial.kind \in {"direct", "proxy"} /\ d \in Seq(1..MaxUp)
    BY <1>5, <2>1, DialSorts DEF DialOpens
  <2>3. PICK t : t = [task |-> "connected", kind |-> dial.kind, initialData |-> d]
    OBVIOUS
  <2>4. t \in TaskRecord /\ t.initialData = d
    <3>1. t \in TaskRecord
      BY <2>2, <2>3, TaskMakers, Zenon
    <3>2. t.initialData = d
      BY <2>3
    <3> QED
      BY <3>1, <3>2
  <2>5. queue' = Append(queue, t) /\ queue = <<>>
    BY <1>1, <1>5, <2>1, <2>3, Zenon DEF DialOpens, Dialing
  <2>6. d = queue'[1].initialData
    BY <2>4, <2>5, FirstTask
  <2>7. CarriedInv(queue[1].initialData)'
    BY <1>2, <1>3, <2>1, <2>6, Zenon DEF CarriedInv, Continues
  <2>8. bypass = FALSE => handedOver' = d
    <3> SUFFICES ASSUME bypass = FALSE PROVE handedOver' = d
      OBVIOUS
    <3>1. dial.kind = "proxy"
      <4>1. bypass # TRUE
        OBVIOUS
      <4>2. connecting = IF bypass = TRUE THEN "direct" ELSE "proxy"
        BY <1>1, Zenon DEF DialPhase
      <4>3. connecting = "proxy"
        BY <4>1, <4>2
      <4> QED
        BY <1>1, <4>3, Zenon DEF Dialing
    <3>2. handedOver' = <<>> \o d
      BY <1>3, <1>5, <2>1, <3>1, Zenon DEF DialOpens
    <3>3. <<>> \o d = d
      BY <2>2
    <3> QED
      BY <3>2, <3>3
  <2>9. bypass' = FALSE => Run(handedOver, 0)'
    BY <1>2, <1>3, <2>1, <2>8, Zenon DEF CarriedInv
  <2> QED
    BY <1>1, <1>2, <1>5, <2>6, <2>7, <2>8, <2>9, DialUplinkNext, ExclusiveNext, Zenon
<1> QED
  BY <1>4, <1>5

LEMMA ClosedUplink ==
  ASSUME UplinkInv, Releases \/ AfterClose
  PROVE  UplinkInv'
<1>1. closed' = TRUE /\ bypass' = bypass /\ handedOver' = handedOver
  BY Zenon DEF Releases, AfterClose, SameRoute, SameSends
<1>2. ~(closed' = FALSE)
  BY <1>1
<1> QED
  BY <1>1, <1>2, Zenon DEF UplinkInv

LEMMA StepUplink ==
  ASSUME TypeOK, SendsInv, PhaseInv, FlushInv, UplinkInv, Step
  PROVE  UplinkInv'
BY ClosedUplink, ArrivalUplink, CommitsUplink, CoalescesUplink, DialEndUplink, SendDoneUplink,
   SendLostUplink, ArrivesUplink, QueueUplink, FlushesUplink, OpeningUplink, Zenon DEF Step

LEMMA InitialUplink ==
  ASSUME Init
  PROVE  UplinkInv
<1>1. /\ pendingData = <<>> /\ delivered = 0 /\ handedOver = <<>> /\ queue = <<>>
      /\ dial = IF sniffing = TRUE THEN NoDial ELSE [kind |-> connecting, initialData |-> <<>>]
  BY DEF Init
<1>2. dial.initialData = <<>>
  BY <1>1 DEF NoDial
<1>3. CarriedInv(<<>>)
  <2>1. 0 = Len(<<>>) + Len(<<>>)
    OBVIOUS
  <2> QED
    BY <1>1, <2>1, RunEmpty DEF CarriedInv, Continues
<1>4. ~OpenPhase
  BY DEF Init, OpenPhase
<1>5. ~DialDone
  BY <1>1 DEF DialDone
<1> QED
  BY <1>1, <1>2, <1>3, <1>4, <1>5, RunEmpty, Zenon DEF UplinkInv
-----------------------------------------------------------------------------
(* The theorems. *)

LEMMA TcpInitial ==
  ASSUME Init
  PROVE  TcpInv
BY InitialPhase, InitialFlush, InitialUplink, InitialDownlink, Zenon DEF TcpInv

LEMMA TcpStep ==
  ASSUME TcpInv, [Next]_vars
  PROVE  TcpInv'
<1>1. /\ TypeOK /\ PcbInv /\ SendsInv /\ PhaseInv
      /\ FlushInv /\ InitialInv /\ UplinkInv /\ DownlinkInv
  BY Zenon DEF TcpInv
<1>2. Step
  BY <1>1, StepShape, Zenon
<1>3. TypeOK' /\ PcbInv' /\ SendsInv'
  BY <1>1, <1>2, StepType, Zenon
<1>4. PhaseInv'
  BY <1>1, <1>2, StepPhase, Zenon
<1>5. FlushInv' /\ InitialInv'
  BY <1>1, <1>2, StepFlush, StepInitial, Zenon
<1>6. UplinkInv'
  BY <1>1, <1>2, StepUplink, Zenon
<1>7. DownlinkInv'
  BY <1>1, <1>2, StepDownlink, Zenon
<1> QED
  BY <1>3, <1>4, <1>5, <1>6, <1>7, Zenon DEF TcpInv

(* The inductive invariant of LwipTcpConnection: every phase of the        *)
(* connection is one its handlers expect, the flags of the coalescing      *)
(* buffer and of the receive loop say what is posted or under way, and     *)
(* both streams continue where they stopped.                               *)
THEOREM TcpInvariant == Spec => []TcpInv
<1>1. Init => TcpInv
  BY TcpInitial
<1>2. TcpInv /\ [Next]_vars => TcpInv'
  BY TcpStep
<1> QED
  BY <1>1, <1>2, PTL DEF Spec

(* Every field of the connection keeps its sort: the executor's queue and  *)
(* the coroutines hold only the records the handlers understand, and lwIP's *)
(* send buffer is never overrun.                                           *)
THEOREM TcpTypeOK == Spec => []TypeOK
<1>1. TcpInv => TypeOK
  BY DEF TcpInv
<1> QED
  BY <1>1, TcpInvariant, PTL

(* No native lwIP call is made with a pcb that release() has invalidated,  *)
(* by whatever callback, timer, coroutine or posted task comes after it.   *)
THEOREM TcpNeverUsedAfterClose == Spec => []NoUseAfterClose
<1>1. TcpInv => NoUseAfterClose
  BY DEF TcpInv, PcbInv, NoUseAfterClose
<1> QED
  BY <1>1, TcpInvariant, PTL

(* A remote connection that a dial returned is closed with the connection  *)
(* it was dialled for, also when the dial ends after the close.            *)
THEOREM TcpLeavesNoOrphan == Spec => []NoOrphanConnection
<1>1. TcpInv => NoOrphanConnection
  <2> SUFFICES ASSUME TcpInv, closed = TRUE, queue = <<>>, remoteOpen PROVE FALSE
    <3>1. TcpInv => closed \in BOOLEAN
      BY Flags DEF TcpInv
    <3> QED
      BY <3>1 DEF NoOrphanConnection
  <2>1. remoteOpen = TRUE /\ PhaseInv
    BY Flags DEF TcpInv
  <2>2. Len(queue) = 1
    BY <2>1 DEF PhaseInv
  <2> QED
    BY <2>2
<1> QED
  BY <1>1, TcpInvariant, PTL

(* No byte the application sent is left in a buffer nobody will empty: the *)
(* pending data waits for a dial, the coalescing buffer for a flush.       *)
THEOREM TcpStrandsNoUplink == Spec => []NoStrandedUplink
<1>1. TcpInv => NoStrandedUplink
  <2> SUFFICES ASSUME TcpInv, closed = FALSE
               PROVE  /\ pendingData # <<>> => isEstablishing
                      /\ coalesceBuffer # <<>> =>
                           \/ Pending("flush") \/ Pending("flushDone") \/ Pending("sendFailed")
                           \/ \E i \in DOMAIN sends : sends[i].kind = "flush"
    <3>1. TcpInv => closed \in BOOLEAN
      BY Flags DEF TcpInv
    <3> QED
      BY <3>1 DEF NoStrandedUplink
  <2>1. TypeOK /\ PhaseInv /\ FlushInv
    BY Zenon DEF TcpInv
  <2>2. ASSUME pendingData # <<>> PROVE isEstablishing
    <3>1. SniffPhase \/ DialPhase
      BY <2>1, <2>2 DEF PhaseInv, OpenPhase
    <3> QED
      BY <3>1 DEF SniffPhase, DialPhase, isEstablishing, None
  <2>3. ASSUME coalesceBuffer # <<>>
        PROVE  \/ Pending("flush") \/ Pending("flushDone") \/ Pending("sendFailed")
               \/ \E i \in DOMAIN sends : sends[i].kind = "flush"
    <3>1. HasFlush \/ HasRun \/ HasEnd
      BY <2>1, <2>3, Zenon DEF FlushInv
    <3>2. HasFlush => Pending("flush")
      BY DEF HasFlush, Pending, Tasks
    <3>3. HasEnd => Pending("flushDone") \/ Pending("sendFailed")
      BY DEF HasEnd, FlushEnds, Pending, Tasks
    <3>4. HasRun => \E i \in DOMAIN sends : sends[i].kind = "flush"
      BY Zenon DEF HasRun, FlushRuns
    <3> QED
      BY <3>1, <3>2, <3>3, <3>4, Zenon
  <2> QED
    BY <2>2, <2>3
<1> QED
  BY <1>1, TcpInvariant, PTL

(* Over a proxy the application's bytes are passed to send() in the order  *)
(* in which they came, whatever the sniff, the dial, the handshake's       *)
(* initial data and the coalescing buffer held back; and no more than one  *)
(* flush and one initial send are under way at a time.                     *)
THEOREM TcpProxyUplinkStaysInOrder == Spec => []ProxyUplinkInOrder
<1>1. TcpInv => ProxyUplinkInOrder
  <2> SUFFICES ASSUME TcpInv PROVE ProxyUplinkInOrder
    OBVIOUS
  <2>1. bypass \in BOOLEAN /\ closed \in BOOLEAN /\ TypeOK
    BY Flags DEF TcpInv
  <2>2. ASSUME bypass = FALSE PROVE UplinkInOrder
    <3>1. Run(handedOver, 0)
      BY <2>2, Zenon DEF TcpInv, UplinkInv
    <3> QED
      BY <2>1, <3>1, Queues DEF Run, UplinkInOrder
  <2>3. ASSUME NEW i \in DOMAIN sends, NEW j \in DOMAIN sends, sends[i].kind = sends[j].kind
        PROVE  i = j
    <3>1. CASE closed = TRUE
      <4>1. sends = <<>>
        BY <3>1, Zenon DEF TcpInv, PcbInv
      <4> QED
        BY <4>1
    <3>2. CASE closed = FALSE
      <4>1. OneRun /\ OneInitial
        BY <3>2, Zenon DEF TcpInv, FlushInv, InitialInv
      <4> QED
        BY <2>3, <4>1, Zenon DEF OneRun, OneInitial, FlushRuns
    <3> QED
      BY <2>1, <3>1, <3>2
  <2> QED
    BY <2>1, <2>2, <2>3 DEF ProxyUplinkInOrder
<1> QED
  BY <1>1, TcpInvariant, PTL

LEMMA ReceivedPending ==
  HasReceived <=> Pending("received")
BY DEF HasReceived, Pending, Tasks

(* What the remote sent is written to lwIP, kept in the backlog or waiting *)
(* in the executor's queue, in order and without a gap, whatever partial   *)
(* writes, acknowledgements and drain retries happened.                    *)
THEOREM TcpDownlinkStaysInOrder == Spec => []DownlinkInOrder
<1>1. TcpInv => DownlinkInOrder
  <2> SUFFICES ASSUME TcpInv, closed = FALSE
               PROVE  /\ Len(fed) <= remoteSent
                      /\ \A n \in DOMAIN fed : fed[n] = n
                      /\ ~Pending("received") => Len(fed) = remoteSent
                      /\ \A i \in DOMAIN queue : queue[i].task = "received" =>
                           /\ queue[i].data = [n \in 1..remoteSent - Len(fed) |-> Len(fed) + n]
                           /\ \A j \in DOMAIN queue : queue[j].task = "received" => j = i
    <3>1. TcpInv => closed \in BOOLEAN
      BY Flags DEF TcpInv
    <3> QED
      BY <3>1, Zenon DEF DownlinkInOrder
  <2>1. FedInv /\ OneReceived
    BY Zenon DEF TcpInv, DownlinkInv, ReceiveInv
  <2> QED
    BY <2>1, ReceivedPending, Zenon DEF FedInv, OneReceived, Carries
<1> QED
  BY <1>1, TcpInvariant, PTL

(* While the downlink is open a receive is under way, or its result is     *)
(* posted, or lwIP still owes a callback or a drain retry that arms it.    *)
THEOREM TcpDownlinkNeverStalls == Spec => []DownlinkNeverStalls
<1>1. TcpInv => DownlinkNeverStalls
  <2> SUFFICES ASSUME TcpInv, closed = FALSE, activityTimer # None, downlinkDone = FALSE
               PROVE  receives > 0 \/ Pending("received") \/ sndUsed > 0 \/ drainRetries > 0
    <3>1. TcpInv => closed \in BOOLEAN /\ downlinkDone \in BOOLEAN
      BY Flags DEF TcpInv
    <3> QED
      BY <3>1 DEF DownlinkNeverStalls
  <2>1. receives = 1 \/ HasReceived \/ sndUsed > 0 \/ drainRetries > 0
    BY Zenon DEF TcpInv, DownlinkInv, ResumeInv
  <2> QED
    BY <2>1, ReceivedPending
<1> QED
  BY <1>1, TcpInvariant, PTL

-----------------------------------------------------------------------------
(* The receive window is conserved: WindowConserved, from the inductive    *)
(* invariant above.                                                        *)

(* Sums of sequences.  What the recursive function in Sum computes is      *)
(* shown by the least index at which it could fail.                        *)

LEMMA Least ==
  ASSUME NEW T \in SUBSET Nat, T # {}
  PROVE  \E m \in T : \A k \in T : m <= k
<1>1. PICK m \in T : \A k \in T : ~ (<<k, m>> \in OpToRel(<, Nat))
  <2>1. IsWellFoundedOn(OpToRel(<, Nat), Nat)
    BY NatLessThanWellFounded
  <2> QED
    BY <2>1, WFMin, Zenon
<1>2. \A k \in T : m <= k
  <2> SUFFICES ASSUME NEW k \in T PROVE m <= k
    OBVIOUS
  <2>1. k \in Nat /\ m \in Nat
    OBVIOUS
  <2>2. <<k, m>> \in OpToRel(<, Nat) <=> k < m
    BY DEF OpToRel
  <2>3. ~ (k < m)
    BY <1>1, <2>2, Zenon
  <2> QED
    BY <2>1, <2>3
<1> QED
  BY <1>2

LEMMA UpTo ==
  ASSUME NEW n \in Nat, NEW S, 0 \in S, \A k \in 1..n : k - 1 \in S => k \in S
  PROVE  \A k \in 0..n : k \in S
<1> SUFFICES ASSUME NEW k0 \in 0..n, k0 \notin S PROVE FALSE
  OBVIOUS
<1> DEFINE T == {k \in 0..n : k \notin S}
<1>1. PICK m \in T : \A k \in T : m <= k
  <2>1. T \in SUBSET Nat /\ T # {}
    OBVIOUS
  <2> QED
    BY <2>1, Least
<1> QED
  BY <1>1

(* f lists the sums of the first elements of s. *)
Partial(s, n, f) ==
  /\ f \in [0..n -> Int] /\ f[0] = 0
  /\ \A k \in 1..n : f[k] = f[k - 1] + s[k]

LEMMA PartialExists ==
  ASSUME NEW s \in Seq(Int)
  PROVE  \E f : Partial(s, Len(s), f)
<1> DEFINE S == {n \in 0..Len(s) : \E f : Partial(s, n, f)}
<1>1. Len(s) \in Nat /\ \A k \in 1..Len(s) : s[k] \in Int
  BY LenProperties
<1>2. 0 \in S
  <2>1. PICK f : f = [k \in 0..0 |-> 0]
    OBVIOUS
  <2>2. Partial(s, 0, f)
    BY <2>1 DEF Partial
  <2> QED
    BY <1>1, <2>2
<1>3. ASSUME NEW k \in 1..Len(s), k - 1 \in S
      PROVE  k \in S
  <2>1. PICK f : Partial(s, k - 1, f)
    BY <1>3
  <2>2. /\ f \in [0..k - 1 -> Int] /\ f[0] = 0
        /\ \A j \in 1..k - 1 : f[j] = f[j - 1] + s[j]
    BY <2>1 DEF Partial
  <2>3. PICK g : g = [j \in 0..k |-> IF j = k THEN f[k - 1] + s[k] ELSE f[j]]
    OBVIOUS
  <2>4. k \in Nat /\ k > 0 /\ k - 1 \in 0..k - 1 /\ s[k] \in Int /\ f[k - 1] \in Int
    BY <1>1, <2>2
  <2>5. g[k] = f[k - 1] + s[k] /\ \A j \in 0..k - 1 : g[j] = f[j]
    BY <2>3, <2>4
  <2>6. g \in [0..k -> Int] /\ g[0] = 0
    BY <2>2, <2>3, <2>4
  <2>7. \A j \in 1..k : g[j] = g[j - 1] + s[j]
    <3> SUFFICES ASSUME NEW j \in 1..k PROVE g[j] = g[j - 1] + s[j]
      OBVIOUS
    <3>1. CASE j = k
      BY <2>4, <2>5, <3>1
    <3>2. CASE j # k
      <4>1. j \in 1..k - 1 /\ j \in 0..k - 1 /\ j - 1 \in 0..k - 1
        BY <2>4, <3>2
      <4> QED
        BY <2>2, <2>5, <4>1
    <3> QED
      BY <3>1, <3>2
  <2>8. Partial(s, k, g)
    BY <2>6, <2>7 DEF Partial
  <2> QED
    BY <1>1, <2>8
<1> HIDE DEF S
<1>4. \A k \in 0..Len(s) : k \in S
  BY <1>1, <1>2, <1>3, UpTo
<1>5. Len(s) \in S
  BY <1>1, <1>4
<1> QED
  BY <1>5 DEF S

LEMMA PartialUnique ==
  ASSUME NEW s \in Seq(Int), NEW f, NEW g, Partial(s, Len(s), f), Partial(s, Len(s), g)
  PROVE  f[Len(s)] = g[Len(s)]
<1> DEFINE S == {n \in 0..Len(s) : f[n] = g[n]}
<1>1. Len(s) \in Nat
  BY LenProperties
<1>2. 0 \in S
  BY <1>1 DEF Partial
<1>3. ASSUME NEW k \in 1..Len(s), k - 1 \in S
      PROVE  k \in S
  <2>1. f[k] = f[k - 1] + s[k] /\ g[k] = g[k - 1] + s[k]
    BY DEF Partial
  <2>2. f[k - 1] = g[k - 1]
    BY <1>3
  <2>3. k \in 0..Len(s)
    BY <1>1
  <2> QED
    BY <2>1, <2>2, <2>3
<1> HIDE DEF S
<1>4. \A k \in 0..Len(s) : k \in S
  BY <1>1, <1>2, <1>3, UpTo
<1>5. Len(s) \in S
  BY <1>1, <1>4
<1> QED
  BY <1>5 DEF S

LEMMA SumIs ==
  ASSUME NEW s \in Seq(Int), NEW f, Partial(s, Len(s), f)
  PROVE  Sum(s) = f[Len(s)] /\ Sum(s) \in Int
<1>1. Len(s) \in Nat /\ Len(s) \in 0..Len(s)
  BY LenProperties
<1> DEFINE R(h) == h = [n \in 0..Len(s) |-> IF n = 0 THEN 0 ELSE h[n - 1] + s[n]]
<1>2. R(f)
  <2>1. /\ f \in [0..Len(s) -> Int] /\ f[0] = 0
        /\ \A k \in 1..Len(s) : f[k] = f[k - 1] + s[k]
    BY DEF Partial
  <2>2. ASSUME NEW n \in 0..Len(s)
        PROVE  f[n] = IF n = 0 THEN 0 ELSE f[n - 1] + s[n]
    <3>1. n = 0 \/ n \in 1..Len(s)
      BY <1>1
    <3> QED
      BY <2>1, <3>1
  <2> QED
    BY <2>1, <2>2
<1>3. PICK h : h = CHOOSE x : R(x)
  OBVIOUS
<1>4. R(h)
  BY <1>2, <1>3, Zenon
<1>5. Sum(s) = h[Len(s)]
  BY <1>3 DEF Sum
<1>6. Partial(s, Len(s), h)
  <2> DEFINE S == {n \in 0..Len(s) : h[n] \in Int}
  <2>1. \A n \in 0..Len(s) : h[n] = IF n = 0 THEN 0 ELSE h[n - 1] + s[n]
    BY <1>4
  <2>2. h[0] = 0 /\ \A k \in 1..Len(s) : h[k] = h[k - 1] + s[k]
    BY <1>1, <2>1
  <2>3. 0 \in S
    BY <1>1, <2>2
  <2>4. ASSUME NEW k \in 1..Len(s), k - 1 \in S
        PROVE  k \in S
    <3>1. k \in 0..Len(s) /\ s[k] \in Int /\ h[k - 1] \in Int
      BY <1>1, <2>4
    <3> QED
      BY <2>2, <3>1
  <2> HIDE DEF S
  <2>5. \A k \in 0..Len(s) : k \in S
    BY <1>1, <2>3, <2>4, UpTo
  <2>6. \A k \in 0..Len(s) : h[k] \in Int
    BY <2>5 DEF S
  <2>7. h = [n \in 0..Len(s) |-> h[n]]
    BY <1>4
  <2>8. h \in [0..Len(s) -> Int]
    BY <2>6, <2>7
  <2> QED
    BY <2>2, <2>8, Zenon DEF Partial
<1>7. h[Len(s)] = f[Len(s)]
  BY <1>6, PartialUnique
<1>8. f[Len(s)] \in Int
  BY <1>1 DEF Partial
<1> QED
  BY <1>5, <1>7, <1>8

LEMMA SumPartial ==
  ASSUME NEW s \in Seq(Int)
  PROVE  \E f : Partial(s, Len(s), f) /\ Sum(s) = f[Len(s)] /\ Sum(s) \in Int
BY PartialExists, SumIs, Zenon

LEMMA SumEmpty ==
  Sum(<<>>) = 0
<1>1. <<>> \in Seq(Int) /\ Len(<<>>) = 0
  OBVIOUS
<1>2. PICK f : Partial(<<>>, Len(<<>>), f) /\ Sum(<<>>) = f[Len(<<>>)]
  BY <1>1, SumPartial, Zenon
<1> QED
  BY <1>1, <1>2 DEF Partial

LEMMA SumAppend ==
  ASSUME NEW s \in Seq(Int), NEW t \in Seq(Int), NEW x \in Int, Len(t) = Len(s) + 1,
         \A k \in 1..Len(s) : t[k] = s[k], t[Len(s) + 1] = x
  PROVE  Sum(t) = Sum(s) + x
<1>1. Len(s) \in Nat /\ Len(t) \in Nat
  BY LenProperties
<1>2. PICK f : Partial(t, Len(t), f) /\ Sum(t) = f[Len(t)]
  BY SumPartial, Zenon
<1>3. /\ f \in [0..Len(t) -> Int] /\ f[0] = 0
      /\ \A k \in 1..Len(t) : f[k] = f[k - 1] + t[k]
  BY <1>2 DEF Partial
<1>4. PICK g : g = [k \in 0..Len(s) |-> f[k]]
  OBVIOUS
<1>5. ASSUME NEW k \in 0..Len(s) PROVE g[k] = f[k] /\ f[k] \in Int
  <2>1. k \in 0..Len(t)
    BY <1>1
  <2> QED
    BY <1>3, <1>4, <2>1
<1>6. g \in [0..Len(s) -> Int] /\ g[0] = 0
  BY <1>1, <1>3, <1>4, <1>5
<1>7. \A k \in 1..Len(s) : g[k] = g[k - 1] + s[k]
  <2> SUFFICES ASSUME NEW k \in 1..Len(s) PROVE g[k] = g[k - 1] + s[k]
    OBVIOUS
  <2>1. k \in 0..Len(s) /\ k - 1 \in 0..Len(s) /\ k \in 1..Len(t)
    BY <1>1
  <2>2. f[k] = f[k - 1] + t[k] /\ t[k] = s[k]
    BY <1>3, <2>1
  <2> QED
    BY <1>5, <2>1, <2>2
<1>8. Partial(s, Len(s), g)
  BY <1>6, <1>7, Zenon DEF Partial
<1>9. Sum(s) = g[Len(s)]
  BY <1>8, SumIs, Zenon
<1>10. Len(t) \in 1..Len(t) /\ Len(s) \in 0..Len(s) /\ Len(t) - 1 = Len(s)
  BY <1>1
<1>11. f[Len(t)] = f[Len(s)] + x
  BY <1>3, <1>10
<1> QED
  BY <1>2, <1>5, <1>9, <1>10, <1>11

(* The first element taken, an element changed, an element removed. *)
LEMMA SumTail ==
  ASSUME NEW s \in Seq(Int), NEW t \in Seq(Int), Len(s) >= 1, Len(t) = Len(s) - 1,
         \A k \in 1..Len(t) : t[k] = s[k + 1]
  PROVE  Sum(s) = s[1] + Sum(t)
<1>1. Len(s) \in Nat /\ Len(t) \in Nat /\ s[1] \in Int
  BY LenProperties
<1>2. PICK f : Partial(s, Len(s), f) /\ Sum(s) = f[Len(s)]
  BY SumPartial, Zenon
<1>3. /\ f \in [0..Len(s) -> Int] /\ f[0] = 0
      /\ \A k \in 1..Len(s) : f[k] = f[k - 1] + s[k]
  BY <1>2 DEF Partial
<1>4. PICK g : g = [k \in 0..Len(t) |-> f[k + 1] - s[1]]
  OBVIOUS
<1>5. ASSUME NEW k \in 0..Len(t) PROVE g[k] = f[k + 1] - s[1] /\ f[k + 1] \in Int
  <2>1. k + 1 \in 0..Len(s)
    BY <1>1
  <2> QED
    BY <1>3, <1>4, <2>1
<1>6. g \in [0..Len(t) -> Int]
  BY <1>1, <1>4, <1>5
<1>7. g[0] = 0
  <2>1. 1 \in 1..Len(s) /\ 1 - 1 = 0 /\ 0 \in 0..Len(t) /\ 0 + 1 = 1
    BY <1>1
  <2>2. f[1] = f[0] + s[1]
    BY <1>3, <2>1
  <2>3. g[0] = f[1] - s[1]
    BY <1>5, <2>1
  <2> QED
    BY <1>1, <1>3, <2>2, <2>3
<1>8. \A k \in 1..Len(t) : g[k] = g[k - 1] + t[k]
  <2> SUFFICES ASSUME NEW k \in 1..Len(t) PROVE g[k] = g[k - 1] + t[k]
    OBVIOUS
  <2>1. k \in Nat /\ k \in 0..Len(t) /\ k - 1 \in 0..Len(t) /\ k + 1 \in 1..Len(s)
        /\ (k + 1) - 1 = k /\ (k - 1) + 1 = k
    BY <1>1
  <2>2. f[k + 1] = f[k] + s[k + 1] /\ t[k] = s[k + 1]
    BY <1>3, <2>1
  <2>3. g[k] = f[k + 1] - s[1] /\ g[k - 1] = f[k] - s[1] /\ f[k] \in Int
    BY <1>5, <2>1
  <2>4. s[k + 1] \in Int
    BY <2>1
  <2> QED
    BY <1>1, <2>2, <2>3, <2>4
<1>9. Sum(t) = g[Len(t)]
  <2>1. Partial(t, Len(t), g)
    BY <1>6, <1>7, <1>8, Zenon DEF Partial
  <2> QED
    BY <2>1, SumIs, Zenon
<1>10. Len(t) \in 0..Len(t) /\ Len(t) + 1 = Len(s)
  BY <1>1
<1>11. g[Len(t)] = f[Len(s)] - s[1] /\ f[Len(s)] \in Int
  BY <1>5, <1>10
<1> QED
  BY <1>1, <1>2, <1>9, <1>11

LEMMA SumChanged ==
  ASSUME NEW s \in Seq(Int), NEW t \in Seq(Int), Len(t) = Len(s), NEW i \in 1..Len(s),
         \A k \in 1..Len(s) : k # i => t[k] = s[k]
  PROVE  Sum(t) = Sum(s) - s[i] + t[i]
<1>1. Len(s) \in Nat /\ s[i] \in Int /\ t[i] \in Int /\ i \in Nat
  BY LenProperties
<1>2. PICK f : Partial(s, Len(s), f) /\ Sum(s) = f[Len(s)]
  BY SumPartial, Zenon
<1>3. /\ f \in [0..Len(s) -> Int] /\ f[0] = 0
      /\ \A k \in 1..Len(s) : f[k] = f[k - 1] + s[k]
  BY <1>2 DEF Partial
<1>4. PICK g : g = [k \in 0..Len(s) |-> IF k < i THEN f[k] ELSE f[k] - s[i] + t[i]]
  OBVIOUS
<1>5. \A k \in 0..Len(s) : /\ f[k] \in Int
                           /\ k < i => g[k] = f[k]
                           /\ ~(k < i) => g[k] = f[k] - s[i] + t[i]
  BY <1>3, <1>4
<1>6. g \in [0..Len(t) -> Int]
  BY <1>1, <1>4, <1>5
<1>7. g[0] = 0
  BY <1>1, <1>3, <1>5
<1>8. \A k \in 1..Len(t) : g[k] = g[k - 1] + t[k]
  <2> SUFFICES ASSUME NEW k \in 1..Len(s) PROVE g[k] = g[k - 1] + t[k]
    OBVIOUS
  <2>1. k \in Nat /\ k \in 0..Len(s) /\ k - 1 \in 0..Len(s) /\ s[k] \in Int
    BY <1>1
  <2>2. f[k] = f[k - 1] + s[k] /\ f[k - 1] \in Int /\ f[k] \in Int
    BY <1>3, <1>5, <2>1
  <2>3. CASE k < i
    <3>1. g[k] = f[k] /\ g[k - 1] = f[k - 1] /\ t[k] = s[k]
      BY <1>1, <1>5, <2>1, <2>3
    <3> QED
      BY <2>2, <3>1
  <2>4. CASE k = i
    <3>1. g[k] = f[k] - s[i] + t[i] /\ g[k - 1] = f[k - 1]
      BY <1>1, <1>5, <2>1, <2>4
    <3> QED
      BY <1>1, <2>2, <2>4, <3>1
  <2>5. CASE k > i
    <3>1. g[k] = f[k] - s[i] + t[i] /\ g[k - 1] = f[k - 1] - s[i] + t[i] /\ t[k] = s[k]
      BY <1>1, <1>5, <2>1, <2>5
    <3>2. PICK a \in Int, b \in Int, c \in Int, d \in Int :
            a = f[k - 1] /\ b = s[k] /\ c = s[i] /\ d = t[i]
      BY <1>1, <2>1, <2>2, Zenon
    <3>3. (a + b) - c + d = (a - c + d) + b
      OBVIOUS
    <3> QED
      BY <2>2, <3>1, <3>2, <3>3, Zenon
  <2> QED
    BY <1>1, <2>1, <2>3, <2>4, <2>5
<1>9. Sum(t) = g[Len(s)]
  <2>1. Partial(t, Len(t), g)
    BY <1>6, <1>7, <1>8, Zenon DEF Partial
  <2> QED
    BY <2>1, SumIs
<1>10. g[Len(s)] = f[Len(s)] - s[i] + t[i]
  BY <1>1, <1>5
<1> QED
  BY <1>2, <1>9, <1>10

LEMMA SumRemoved ==
  ASSUME NEW s \in Seq(Int), NEW t \in Seq(Int), Len(t) = Len(s) - 1, NEW i \in 1..Len(s),
         \A k \in 1..Len(t) : t[k] = IF k < i THEN s[k] ELSE s[k + 1]
  PROVE  Sum(t) = Sum(s) - s[i]
<1>1. Len(s) \in Nat /\ Len(t) \in Nat /\ s[i] \in Int /\ i \in Nat
  BY LenProperties
<1>2. PICK f : Partial(s, Len(s), f) /\ Sum(s) = f[Len(s)]
  BY SumPartial, Zenon
<1>3. /\ f \in [0..Len(s) -> Int] /\ f[0] = 0
      /\ \A k \in 1..Len(s) : f[k] = f[k - 1] + s[k]
  BY <1>2 DEF Partial
<1>4. PICK g : g = [k \in 0..Len(t) |-> IF k < i THEN f[k] ELSE f[k + 1] - s[i]]
  OBVIOUS
<1>5. ASSUME NEW k \in 0..Len(t)
      PROVE  /\ f[k] \in Int /\ f[k + 1] \in Int
             /\ k < i => g[k] = f[k]
             /\ ~(k < i) => g[k] = f[k + 1] - s[i]
  <2>1. k \in 0..Len(s) /\ k + 1 \in 0..Len(s)
    BY <1>1
  <2> QED
    BY <1>3, <1>4, <2>1
<1>6. g \in [0..Len(t) -> Int]
  <2>1. \A k \in 0..Len(t) : g[k] \in Int
    <3> SUFFICES ASSUME NEW k \in 0..Len(t) PROVE g[k] \in Int
      OBVIOUS
    <3>1. f[k] \in Int /\ f[k + 1] \in Int
      BY <1>5
    <3>2. f[k + 1] - s[i] \in Int
      BY <1>1, <3>1
    <3>3. g[k] = f[k] \/ g[k] = f[k + 1] - s[i]
      BY <1>5, Zenon
    <3> QED
      BY <3>1, <3>2, <3>3
  <2> QED
    BY <1>4, <2>1
<1>7. g[0] = 0
  <2>1. 0 \in 0..Len(t) /\ 0 < i
    BY <1>1
  <2> QED
    BY <1>3, <1>5, <2>1
<1>8. \A k \in 1..Len(t) : g[k] = g[k - 1] + t[k]
  <2> SUFFICES ASSUME NEW k \in 1..Len(t) PROVE g[k] = g[k - 1] + t[k]
    OBVIOUS
  <2>1. k \in Nat /\ k \in 0..Len(t) /\ k - 1 \in 0..Len(t) /\ k \in 1..Len(s) /\ k + 1 \in 1..Len(s)
        /\ (k - 1) + 1 = k /\ (k + 1) - 1 = k
    BY <1>1
  <2>2. f[k] = f[k - 1] + s[k] /\ f[k + 1] = f[k] + s[k + 1]
    BY <1>3, <2>1
  <2>3. f[k - 1] \in Int /\ f[k] \in Int /\ f[k + 1] \in Int /\ s[k] \in Int /\ s[k + 1] \in Int
    BY <1>5, <2>1, SMTT(30)
  <2>4. t[k] = IF k < i THEN s[k] ELSE s[k + 1]
    BY <2>1
  <2>5. CASE k < i
    <3>1. g[k] = f[k] /\ g[k - 1] = f[k - 1]
      BY <1>1, <1>5, <2>1, <2>5
    <3> QED
      BY <2>2, <2>4, <2>5, <3>1
  <2>6. CASE k = i
    <3>1. g[k] = f[k + 1] - s[i] /\ g[k - 1] = f[k - 1]
      BY <1>1, <1>5, <2>1, <2>6
    <3>2. t[k] = s[k + 1] /\ s[k] = s[i]
      BY <1>1, <2>4, <2>6
    <3>3. \A a, b, c \in Int : ((a + b) + c) - b = a + c
      OBVIOUS
    <3>4. f[k + 1] = (f[k - 1] + s[i]) + s[k + 1]
      BY <2>2, <3>2
    <3>5. ((f[k - 1] + s[i]) + s[k + 1]) - s[i] = f[k - 1] + s[k + 1]
      <4>1. f[k - 1] \in Int /\ s[i] \in Int /\ s[k + 1] \in Int
        BY <1>1, <2>3
      <4> QED
        BY <3>3, <4>1
    <3>6. f[k + 1] - s[i] = f[k - 1] + s[k + 1]
      BY <3>4, <3>5, Zenon
    <3> QED
      BY <3>1, <3>2, <3>6, Zenon
  <2>7. CASE k > i
    <3>1. g[k] = f[k + 1] - s[i] /\ g[k - 1] = f[k] - s[i]
      BY <1>1, <1>5, <2>1, <2>7
    <3>2. t[k] = s[k + 1]
      BY <1>1, <2>1, <2>4, <2>7
    <3>3. PICK a \in Int, b \in Int, c \in Int : a = f[k] /\ b = s[k + 1] /\ c = s[i]
      BY <1>1, <2>3, Zenon
    <3>4. (a + b) - c = (a - c) + b
      OBVIOUS
    <3> QED
      BY <2>2, <3>1, <3>2, <3>3, <3>4, Zenon
  <2> QED
    BY <1>1, <2>1, <2>5, <2>6, <2>7
<1>9. Sum(t) = g[Len(t)]
  <2>1. Partial(t, Len(t), g)
    BY <1>6, <1>7, <1>8, Zenon DEF Partial
  <2> QED
    BY <2>1, SumIs
<1>10. Len(t) \in 0..Len(t) /\ Len(t) + 1 = Len(s) /\ (Len(t) < i => i = Len(s))
  BY <1>1
<1>11. CASE Len(t) < i
  <2>1. g[Len(t)] = f[Len(t)] /\ f[Len(t)] \in Int
    BY <1>5, <1>10, <1>11
  <2>2. f[Len(s)] = f[Len(s) - 1] + s[i] /\ Len(s) - 1 = Len(t)
    BY <1>1, <1>3, <1>10, <1>11
  <2> QED
    BY <1>1, <1>2, <1>9, <2>1, <2>2
<1>12. CASE ~(Len(t) < i)
  <2>1. g[Len(t)] = f[Len(s)] - s[i]
    BY <1>5, <1>10, <1>12
  <2> QED
    BY <1>2, <1>9, <2>1
<1> QED
  BY <1>11, <1>12

-----------------------------------------------------------------------------
(* What the coroutines and the executor's queue hold. *)

LEMMA LengthsOf ==
  ASSUME NEW c \in Seq(Seq(1..MaxUp))
  PROVE  /\ [j \in DOMAIN c |-> Len(c[j])] \in Seq(Int)
         /\ Len([j \in DOMAIN c |-> Len(c[j])]) = Len(c)
         /\ \A j \in 1..Len(c) : /\ [k \in DOMAIN c |-> Len(c[k])][j] = Len(c[j])
                                 /\ Len(c[j]) \in Nat
<1>1. Len(c) \in Nat /\ DOMAIN c = 1..Len(c)
  BY LenProperties
<1>2. \A j \in 1..Len(c) : Len(c[j]) \in Nat
  <2> SUFFICES ASSUME NEW j \in 1..Len(c) PROVE Len(c[j]) \in Nat
    OBVIOUS
  <2>1. c[j] \in Seq(1..MaxUp)
    BY <1>1, ElementOfSeq
  <2> QED
    BY <2>1, LenProperties
<1>3. PICK s : s = [j \in 1..Len(c) |-> Len(c[j])]
  OBVIOUS
<1>4. s \in [1..Len(c) -> Int]
  BY <1>2, <1>3
<1>5. s \in Seq(Int) /\ Len(s) = Len(c)
  BY <1>1, <1>4, LenProperties
<1>6. \A j \in 1..Len(c) : s[j] = Len(c[j])
  BY <1>3
<1> QED
  BY <1>1, <1>2, <1>3, <1>5, <1>6

LEMMA ChunkHeld ==
  ASSUME NEW c \in Seq(Seq(1..MaxUp)), c # <<>>
  PROVE  /\ Sum([j \in DOMAIN c |-> Len(c[j])])
              = Len(Head(c)) + Sum([j \in DOMAIN Tail(c) |-> Len(Tail(c)[j])])
         /\ Len(Head(c)) \in Nat
<1>1. PICK t : t = Tail(c)
  OBVIOUS
<1>2. /\ t \in Seq(Seq(1..MaxUp)) /\ Len(t) = Len(c) - 1 /\ Len(c) \in Nat /\ Len(c) >= 1
      /\ \A k \in 1..Len(t) : t[k] = c[k + 1]
      /\ Head(c) = c[1]
  BY <1>1, HeadTailProperties, LenProperties, EmptySeq
<1>3. PICK a : a = [j \in DOMAIN c |-> Len(c[j])]
  OBVIOUS
<1>4. PICK b : b = [j \in DOMAIN t |-> Len(t[j])]
  OBVIOUS
<1>5. a \in Seq(Int) /\ Len(a) = Len(c) /\ \A j \in 1..Len(c) : a[j] = Len(c[j]) /\ Len(c[j]) \in Nat
  BY <1>3, LengthsOf, Zenon
<1>6. b \in Seq(Int) /\ Len(b) = Len(t) /\ \A j \in 1..Len(t) : b[j] = Len(t[j])
  BY <1>2, <1>4, LengthsOf, Zenon
<1>7. \A k \in 1..Len(b) : b[k] = a[k + 1]
  <2> SUFFICES ASSUME NEW k \in 1..Len(b) PROVE b[k] = a[k + 1]
    OBVIOUS
  <2>1. k \in 1..Len(t) /\ k + 1 \in 1..Len(c)
    BY <1>2, <1>6
  <2> QED
    BY <1>2, <1>5, <1>6, <2>1
<1>8. Sum(a) = a[1] + Sum(b)
  <2>1. Len(a) >= 1 /\ Len(b) = Len(a) - 1
    BY <1>2, <1>5, <1>6
  <2> QED
    BY <1>5, <1>6, <1>7, <2>1, SumTail, Zenon
<1>9. 1 \in 1..Len(c)
  BY <1>2
<1>10. a[1] = Len(Head(c)) /\ Len(Head(c)) \in Nat
  BY <1>2, <1>5, <1>9
<1> QED
  BY <1>1, <1>3, <1>4, <1>8, <1>10

(* A flush holds the whole buffer it took. *)
LEMMA BufferHeld ==
  ASSUME NEW buf \in Seq(1..MaxUp), buf # <<>>
  PROVE  Sum([j \in DOMAIN Chunks(buf) |-> Len(Chunks(buf)[j])]) = Len(buf)
<1>1. PICK c : c = Chunks(buf)
  OBVIOUS
<1>2. c \in Seq(Seq(1..MaxUp)) /\ \E e : Cut(buf, c, e)
  BY <1>1, ChunksCut, Zenon
<1>3. PICK e : Cut(buf, c, e)
  BY <1>2
<1>4. /\ e \in [0..Len(c) -> Nat] /\ e[0] = 0 /\ e[Len(c)] = Len(buf)
      /\ \A i \in 1..Len(c) : Len(c[i]) = e[i] - e[i - 1]
  BY <1>3, Zenon DEF Cut
<1>5. PICK a : a = [j \in DOMAIN c |-> Len(c[j])]
  OBVIOUS
<1>6. a \in Seq(Int) /\ Len(a) = Len(c) /\ \A j \in 1..Len(c) : a[j] = Len(c[j])
  BY <1>2, <1>5, LengthsOf, Zenon
<1>7. Len(c) \in Nat
  BY <1>2, LenProperties
<1>8. \A k \in 1..Len(a) : e[k] = e[k - 1] + a[k]
  <2> SUFFICES ASSUME NEW k \in 1..Len(c) PROVE e[k] = e[k - 1] + a[k]
    BY <1>6
  <2>1. k \in 0..Len(c) /\ k - 1 \in 0..Len(c)
    BY <1>7
  <2>2. e[k] \in Nat /\ e[k - 1] \in Nat /\ a[k] = e[k] - e[k - 1]
    BY <1>4, <1>6, <2>1
  <2> QED
    BY <2>2
<1>9. Partial(a, Len(a), e)
  <2>1. e \in [0..Len(a) -> Int]
    BY <1>4, <1>6
  <2> QED
    BY <1>4, <1>8, <2>1, Zenon DEF Partial
<1>10. Sum(a) = e[Len(a)]
  BY <1>6, <1>9, SumIs, Zenon
<1> QED
  BY <1>1, <1>4, <1>5, <1>6, <1>10

LEMMA HeldSort ==
  ASSUME NEW co \in SendRecord
  PROVE  HeldByCoroutine(co) \in Int
<1>1. co.chunks \in Seq(Seq(1..MaxUp)) /\ co.totalAck \in Nat
  BY DEF SendRecord
<1>2. PICK c : c = co.chunks
  OBVIOUS
<1>3. Sum([j \in DOMAIN c |-> Len(c[j])]) \in Int
  <2>1. PICK a : a = [j \in DOMAIN c |-> Len(c[j])]
    OBVIOUS
  <2>2. a \in Seq(Int)
    BY <1>1, <1>2, <2>1, LengthsOf, Zenon
  <2>3. Sum(a) \in Int
    BY <2>2, SumPartial, Zenon
  <2> QED
    BY <2>1, <2>3
<1> QED
  BY <1>1, <1>2, <1>3 DEF HeldByCoroutine

LEMMA TaskHeld ==
  ASSUME NEW t \in TaskRecord
  PROVE  /\ HeldByTask(t) \in Int
         /\ t.task = "ack" => HeldByTask(t) = t.bytes
         /\ t.task = "connected" => HeldByTask(t) = Len(t.initialData)
         /\ t.task \notin {"ack", "connected"} => HeldByTask(t) = 0
<1>1. /\ t.task \in {"ack", "flush", "flushDone", "connectFailed", "sendFailed",
                     "connected", "received"}
      /\ t.task = "ack" => t.bytes \in Nat
      /\ t.task = "connected" => t.initialData \in Seq(1..MaxUp)
  BY TaskSorts
<1>2. t.task = "connected" => Len(t.initialData) \in Nat
  BY <1>1, LenProperties
<1> QED
  BY <1>1, <1>2 DEF HeldByTask

HeldS(s) == [i \in DOMAIN s |-> HeldByCoroutine(s[i])]
HeldQ(q) == [i \in DOMAIN q |-> HeldByTask(q[i])]

LEMMA HeldSeqs ==
  /\ \A s \in Seq(SendRecord) :
       /\ HeldS(s) \in Seq(Int) /\ Len(HeldS(s)) = Len(s)
       /\ \A i \in 1..Len(s) : HeldS(s)[i] = HeldByCoroutine(s[i])
  /\ \A q \in Seq(TaskRecord) :
       /\ HeldQ(q) \in Seq(Int) /\ Len(HeldQ(q)) = Len(q)
       /\ \A i \in 1..Len(q) : HeldQ(q)[i] = HeldByTask(q[i])
<1>1. ASSUME NEW s \in Seq(SendRecord)
      PROVE  /\ HeldS(s) \in Seq(Int) /\ Len(HeldS(s)) = Len(s)
             /\ \A i \in 1..Len(s) : HeldS(s)[i] = HeldByCoroutine(s[i])
  <2>1. Len(s) \in Nat /\ DOMAIN s = 1..Len(s) /\ \A i \in 1..Len(s) : s[i] \in SendRecord
    BY LenProperties, ElementOfSeq
  <2>2. PICK a : a = HeldS(s)
    OBVIOUS
  <2>3. a = [i \in 1..Len(s) |-> HeldByCoroutine(s[i])]
    BY <2>1, <2>2, Zenon DEF HeldS
  <2>4. \A i \in 1..Len(s) : HeldByCoroutine(s[i]) \in Int
    BY <2>1, HeldSort, Zenon
  <2>5. a \in [1..Len(s) -> Int]
    BY <2>3, <2>4
  <2>6. a \in Seq(Int) /\ Len(a) = Len(s)
    BY <2>1, <2>5, LenProperties
  <2>7. \A i \in 1..Len(s) : a[i] = HeldByCoroutine(s[i])
    BY <2>3
  <2> QED
    BY <2>2, <2>6, <2>7
<1>2. ASSUME NEW q \in Seq(TaskRecord)
      PROVE  /\ HeldQ(q) \in Seq(Int) /\ Len(HeldQ(q)) = Len(q)
             /\ \A i \in 1..Len(q) : HeldQ(q)[i] = HeldByTask(q[i])
  <2>1. Len(q) \in Nat /\ DOMAIN q = 1..Len(q) /\ \A i \in 1..Len(q) : q[i] \in TaskRecord
    BY LenProperties, ElementOfSeq
  <2>2. PICK a : a = HeldQ(q)
    OBVIOUS
  <2>3. a = [i \in 1..Len(q) |-> HeldByTask(q[i])]
    BY <2>1, <2>2, Zenon DEF HeldQ
  <2>4. \A i \in 1..Len(q) : HeldByTask(q[i]) \in Int
    BY <2>1, TaskHeld, Zenon
  <2>5. a \in [1..Len(q) -> Int]
    BY <2>3, <2>4
  <2>6. a \in Seq(Int) /\ Len(a) = Len(q)
    BY <2>1, <2>5, LenProperties
  <2>7. \A i \in 1..Len(q) : a[i] = HeldByTask(q[i])
    BY <2>3
  <2> QED
    BY <2>2, <2>6, <2>7
<1> QED
  BY <1>1, <1>2

LEMMA HeldSums ==
  ASSUME TypeOK
  PROVE  HeldBySends \in Int /\ HeldByQueue \in Int
<1>1. sends \in Seq(SendRecord) /\ queue \in Seq(TaskRecord)
  BY Sorts
<1>2. HeldS(sends) \in Seq(Int) /\ HeldQ(queue) \in Seq(Int)
  BY <1>1, HeldSeqs, Zenon
<1>3. Sum(HeldS(sends)) \in Int /\ Sum(HeldQ(queue)) \in Int
  BY <1>2, SumPartial, Zenon
<1> QED
  BY <1>3 DEF HeldBySends, HeldByQueue, HeldS, HeldQ

(* One task more or less in the queue, one coroutine more, less or shorter. *)
LEMMA HeldGrown ==
  ASSUME NEW b \in Seq(TaskRecord), NEW t \in TaskRecord
  PROVE  /\ Sum(HeldQ(Append(b, t))) = Sum(HeldQ(b)) + HeldByTask(t)
         /\ Append(b, t) \in Seq(TaskRecord) /\ Sum(HeldQ(b)) \in Int
<1>1. PICK q : q = Append(b, t)
  OBVIOUS
<1>2. /\ q \in Seq(TaskRecord) /\ Len(q) = Len(b) + 1 /\ Len(b) \in Nat
      /\ \A i \in 1..Len(b) : q[i] = b[i]
      /\ q[Len(b) + 1] = t
  BY <1>1, AppendProperties, LenProperties
<1>3. /\ HeldQ(b) \in Seq(Int) /\ Len(HeldQ(b)) = Len(b)
      /\ \A i \in 1..Len(b) : HeldQ(b)[i] = HeldByTask(b[i])
  BY HeldSeqs, Zenon
<1>4. /\ HeldQ(q) \in Seq(Int) /\ Len(HeldQ(q)) = Len(q)
      /\ \A i \in 1..Len(q) : HeldQ(q)[i] = HeldByTask(q[i])
  BY <1>2, HeldSeqs, Zenon
<1>5. \A i \in 1..Len(b) : HeldQ(q)[i] = HeldQ(b)[i]
  <2> SUFFICES ASSUME NEW i \in 1..Len(b) PROVE HeldQ(q)[i] = HeldQ(b)[i]
    OBVIOUS
  <2>1. i \in 1..Len(q)
    BY <1>2
  <2> QED
    BY <1>2, <1>3, <1>4, <2>1, Zenon
<1>6. HeldQ(q)[Len(b) + 1] = HeldByTask(t)
  <2>1. Len(b) + 1 \in 1..Len(q)
    BY <1>2
  <2> QED
    BY <1>2, <1>4, <2>1, Zenon
<1>7. Sum(HeldQ(q)) = Sum(HeldQ(b)) + HeldByTask(t)
  <2>1. HeldByTask(t) \in Int
    BY TaskHeld
  <2> QED
    BY <1>2, <1>3, <1>4, <1>5, <1>6, <2>1, SumAppend, Zenon
<1>8. Sum(HeldQ(b)) \in Int
  BY <1>3, SumPartial, Zenon
<1> QED
  BY <1>1, <1>2, <1>7, <1>8, Zenon

LEMMA HeldAfterPost ==
  ASSUME TypeOK, NEW t \in TaskRecord, queue' = Append(queue, t)
  PROVE  HeldByQueue' = HeldByQueue + HeldByTask(t)
<1>1. queue \in Seq(TaskRecord)
  BY Sorts
<1>2. PICK q : q = Append(queue, t)
  OBVIOUS
<1>3. Sum(HeldQ(q)) = Sum(HeldQ(queue)) + HeldByTask(t)
  BY <1>1, <1>2, HeldGrown, Zenon
<1> QED
  BY <1>2, <1>3 DEF HeldByQueue, HeldQ

LEMMA HeldAfterTwo ==
  ASSUME TypeOK, NEW t \in TaskRecord, NEW u \in TaskRecord, HeldByTask(u) = 0,
         HeldByTask(t) \in Int, queue' = Append(Append(queue, t), u)
  PROVE  HeldByQueue' = HeldByQueue + HeldByTask(t)
<1>1. queue \in Seq(TaskRecord)
  BY Sorts
<1>2. PICK q, r : q = Append(queue, t) /\ r = Append(q, u)
  OBVIOUS
<1>3. Sum(HeldQ(q)) = Sum(HeldQ(queue)) + HeldByTask(t) /\ q \in Seq(TaskRecord)
  BY <1>1, <1>2, HeldGrown, Zenon
<1>4. Sum(HeldQ(r)) = Sum(HeldQ(q)) + 0 /\ Sum(HeldQ(q)) \in Int
  BY <1>2, <1>3, HeldGrown, Zenon
<1>5. Sum(HeldQ(r)) = Sum(HeldQ(queue)) + HeldByTask(t)
  BY <1>3, <1>4
<1> QED
  BY <1>2, <1>5 DEF HeldByQueue, HeldQ

LEMMA HeldAfterTake ==
  ASSUME TypeOK, NEW kinds, HeadIs(kinds)
  PROVE  /\ HeldByQueue = HeldByTask(queue[1]) + HeldByQueue' /\ HeldByQueue' \in Int
         /\ queue[1] \in TaskRecord /\ queue[1].task \in kinds /\ queue[1] = Head(queue)
<1>1. queue \in Seq(TaskRecord)
  BY Sorts
<1>2. PICK q : q = queue'
  OBVIOUS
<1>3. /\ Len(queue) \in Nat /\ Len(queue) >= 1 /\ queue[1] = Head(queue) /\ queue[1].task \in kinds
      /\ DOMAIN queue' = 1..Len(queue) - 1 /\ Len(queue') = Len(queue) - 1
      /\ \A i \in DOMAIN queue' : queue'[i] = queue[i + 1]
  BY QueueTail, Zenon
<1>4. q \in Seq(TaskRecord)
  BY <1>2, HeadSorts DEF HeadIs
<1>5. /\ HeldQ(queue) \in Seq(Int) /\ Len(HeldQ(queue)) = Len(queue)
      /\ \A i \in 1..Len(queue) : HeldQ(queue)[i] = HeldByTask(queue[i])
  BY <1>1, HeldSeqs, Zenon
<1>6. /\ HeldQ(q) \in Seq(Int) /\ Len(HeldQ(q)) = Len(q)
      /\ \A i \in 1..Len(q) : HeldQ(q)[i] = HeldByTask(q[i])
  BY <1>4, HeldSeqs, Zenon
<1>7. \A i \in 1..Len(HeldQ(q)) : HeldQ(q)[i] = HeldQ(queue)[i + 1]
  <2> SUFFICES ASSUME NEW i \in 1..Len(q) PROVE HeldQ(q)[i] = HeldQ(queue)[i + 1]
    BY <1>6
  <2>1. i + 1 \in 1..Len(queue) /\ i \in DOMAIN queue'
    BY <1>2, <1>3
  <2>2. q[i] = queue[i + 1]
    BY <1>2, <1>3, <2>1, Zenon
  <2> QED
    BY <1>5, <1>6, <2>1, <2>2, Zenon
<1>8. Sum(HeldQ(queue)) = HeldQ(queue)[1] + Sum(HeldQ(q))
  <2>1. Len(HeldQ(queue)) >= 1 /\ Len(HeldQ(q)) = Len(HeldQ(queue)) - 1
    BY <1>2, <1>3, <1>5, <1>6
  <2> QED
    BY <1>5, <1>6, <1>7, <2>1, SumTail, Zenon
<1>9. HeldQ(queue)[1] = HeldByTask(queue[1]) /\ queue[1] \in TaskRecord
  <2>1. 1 \in 1..Len(queue)
    BY <1>3
  <2> QED
    BY <1>1, <1>5, <2>1, ElementOfSeq, Zenon
<1>10. HeldByQueue = HeldByTask(queue[1]) + HeldByQueue'
  BY <1>2, <1>8, <1>9 DEF HeldByQueue, HeldQ
<1>11. HeldByQueue' \in Int
  <2>1. Sum(HeldQ(q)) \in Int
    BY <1>6, SumPartial, Zenon
  <2> QED
    BY <1>2, <2>1 DEF HeldByQueue, HeldQ
<1> QED
  BY <1>3, <1>9, <1>10, <1>11

LEMMA HeldAfterLaunch ==
  ASSUME TypeOK, NEW co \in SendRecord, sends' = Append(sends, co)
  PROVE  HeldBySends' = HeldBySends + HeldByCoroutine(co)
<1>1. sends \in Seq(SendRecord)
  BY Sorts
<1>2. PICK q : q = Append(sends, co)
  OBVIOUS
<1>3. /\ q \in Seq(SendRecord) /\ Len(q) = Len(sends) + 1 /\ Len(sends) \in Nat
      /\ \A i \in 1..Len(sends) : q[i] = sends[i]
      /\ q[Len(sends) + 1] = co
  BY <1>1, <1>2, AppendProperties, LenProperties
<1>4. /\ HeldS(sends) \in Seq(Int) /\ Len(HeldS(sends)) = Len(sends)
      /\ \A i \in 1..Len(sends) : HeldS(sends)[i] = HeldByCoroutine(sends[i])
  BY <1>1, HeldSeqs, Zenon
<1>5. /\ HeldS(q) \in Seq(Int) /\ Len(HeldS(q)) = Len(q)
      /\ \A i \in 1..Len(q) : HeldS(q)[i] = HeldByCoroutine(q[i])
  BY <1>3, HeldSeqs, Zenon
<1>6. \A i \in 1..Len(sends) : HeldS(q)[i] = HeldS(sends)[i]
  <2> SUFFICES ASSUME NEW i \in 1..Len(sends) PROVE HeldS(q)[i] = HeldS(sends)[i]
    OBVIOUS
  <2>1. i \in 1..Len(q)
    BY <1>3
  <2> QED
    BY <1>3, <1>4, <1>5, <2>1, Zenon
<1>7. HeldS(q)[Len(sends) + 1] = HeldByCoroutine(co)
  <2>1. Len(sends) + 1 \in 1..Len(q)
    BY <1>3
  <2> QED
    BY <1>3, <1>5, <2>1, Zenon
<1>8. Sum(HeldS(q)) = Sum(HeldS(sends)) + HeldByCoroutine(co)
  BY <1>3, <1>4, <1>5, <1>6, <1>7, HeldSort, SumAppend, ZenonT(30)
<1> QED
  BY <1>2, <1>8 DEF HeldBySends, HeldS

LEMMA HeldAfterEnd ==
  ASSUME TypeOK, NEW i \in DOMAIN sends, sends' = RemoveAt(sends, i)
  PROVE  HeldBySends' = HeldBySends - HeldByCoroutine(sends[i])
<1>1. sends \in Seq(SendRecord) /\ Len(sends) \in Nat /\ DOMAIN sends = 1..Len(sends)
  BY Sorts, LenProperties
<1>2. PICK q : q = RemoveAt(sends, i)
  OBVIOUS
<1>3. /\ q \in Seq(SendRecord) /\ Len(q) = Len(sends) - 1
      /\ \A j \in 1..Len(sends) - 1 : q[j] = IF j < i THEN sends[j] ELSE sends[j + 1]
  BY <1>1, <1>2, RemoveFacts, Zenon
<1>4. /\ HeldS(sends) \in Seq(Int) /\ Len(HeldS(sends)) = Len(sends)
      /\ \A j \in 1..Len(sends) : HeldS(sends)[j] = HeldByCoroutine(sends[j])
  BY <1>1, HeldSeqs, Zenon
<1>5. /\ HeldS(q) \in Seq(Int) /\ Len(HeldS(q)) = Len(q)
      /\ \A j \in 1..Len(q) : HeldS(q)[j] = HeldByCoroutine(q[j])
  BY <1>3, HeldSeqs, Zenon
<1>6. \A j \in 1..Len(HeldS(q)) :
        HeldS(q)[j] = IF j < i THEN HeldS(sends)[j] ELSE HeldS(sends)[j + 1]
  <2> SUFFICES ASSUME NEW j \in 1..Len(q)
               PROVE  HeldS(q)[j] = IF j < i THEN HeldS(sends)[j] ELSE HeldS(sends)[j + 1]
    BY <1>5
  <2>1. j \in 1..Len(sends) - 1 /\ j \in 1..Len(sends) /\ j + 1 \in 1..Len(sends)
    BY <1>1, <1>3
  <2>2. HeldS(q)[j] = HeldByCoroutine(q[j])
    BY <1>5, Zenon
  <2>3. /\ HeldS(sends)[j] = HeldByCoroutine(sends[j])
        /\ HeldS(sends)[j + 1] = HeldByCoroutine(sends[j + 1])
    BY <1>4, <2>1, Zenon
  <2>4. CASE j < i
    <3>1. q[j] = sends[j]
      BY <1>3, <2>1, <2>4
    <3> QED
      BY <2>2, <2>3, <2>4, <3>1, Zenon
  <2>5. CASE ~(j < i)
    <3>1. q[j] = sends[j + 1]
      BY <1>3, <2>1, <2>5
    <3> QED
      BY <2>2, <2>3, <2>5, <3>1, Zenon
  <2> QED
    BY <2>4, <2>5
<1>7. Sum(HeldS(q)) = Sum(HeldS(sends)) - HeldS(sends)[i]
  <2>1. i \in 1..Len(HeldS(sends)) /\ Len(HeldS(q)) = Len(HeldS(sends)) - 1
    BY <1>1, <1>3, <1>4, <1>5
  <2> QED
    BY <1>4, <1>5, <1>6, <2>1, SumRemoved, Zenon
<1>8. HeldS(sends)[i] = HeldByCoroutine(sends[i])
  BY <1>1, <1>4, Zenon
<1> QED
  BY <1>2, <1>7, <1>8 DEF HeldBySends, HeldS

LEMMA HeldAfterChunk ==
  ASSUME TypeOK, NEW i \in DOMAIN sends, NEW c \in Seq(Seq(1..MaxUp)),
         sends' = [sends EXCEPT ![i].chunks = c]
  PROVE  HeldBySends' = HeldBySends - HeldByCoroutine(sends[i]) + HeldByCoroutine(sends'[i])
<1>1. sends \in Seq(SendRecord) /\ Len(sends) \in Nat /\ DOMAIN sends = 1..Len(sends)
  BY Sorts, LenProperties
<1>2. PICK q : q = sends'
  OBVIOUS
<1>3. /\ DOMAIN q = DOMAIN sends /\ \A j \in DOMAIN sends : j # i => q[j] = sends[j]
      /\ q[i].chunks = c
  BY <1>2, SendsShortened, Zenon
<1>4. q \in Seq(SendRecord) /\ Len(q) = Len(sends)
  <2>1. sends[i] \in SendRecord
    BY CoSorts, Zenon
  <2>2. [sends[i] EXCEPT !.chunks = c] \in SendRecord
    BY <2>1 DEF SendRecord
  <2>3. q = [sends EXCEPT ![i] = [sends[i] EXCEPT !.chunks = c]]
    BY <1>2
  <2>4. PICK r : r = [sends[i] EXCEPT !.chunks = c]
    OBVIOUS
  <2>5. r \in SendRecord /\ q = [sends EXCEPT ![i] = r]
    BY <2>2, <2>3, <2>4
  <2> QED
    BY <1>1, <2>5, ExceptSeq
<1>5. /\ HeldS(sends) \in Seq(Int) /\ Len(HeldS(sends)) = Len(sends)
      /\ \A j \in 1..Len(sends) : HeldS(sends)[j] = HeldByCoroutine(sends[j])
  BY <1>1, HeldSeqs, Zenon
<1>6. /\ HeldS(q) \in Seq(Int) /\ Len(HeldS(q)) = Len(q)
      /\ \A j \in 1..Len(q) : HeldS(q)[j] = HeldByCoroutine(q[j])
  BY <1>4, HeldSeqs, Zenon
<1>7. i \in 1..Len(sends) /\ i \in 1..Len(q) /\ i \in 1..Len(HeldS(sends))
  BY <1>1, <1>4, <1>5
<1>8. \A j \in 1..Len(HeldS(sends)) : j # i => HeldS(q)[j] = HeldS(sends)[j]
  <2> SUFFICES ASSUME NEW j \in 1..Len(sends), j # i PROVE HeldS(q)[j] = HeldS(sends)[j]
    BY <1>5
  <2>1. j \in DOMAIN sends /\ j \in 1..Len(q)
    BY <1>1, <1>4
  <2> QED
    BY <1>3, <1>5, <1>6, <2>1, Zenon
<1>9. Sum(HeldS(q)) = Sum(HeldS(sends)) - HeldS(sends)[i] + HeldS(q)[i]
  <2>1. Len(HeldS(q)) = Len(HeldS(sends))
    BY <1>4, <1>5, <1>6
  <2> QED
    BY <1>5, <1>6, <1>7, <1>8, <2>1, SumChanged, Zenon
<1>10. HeldS(sends)[i] = HeldByCoroutine(sends[i]) /\ HeldS(q)[i] = HeldByCoroutine(q[i])
  BY <1>5, <1>6, <1>7, Zenon
<1> QED
  BY <1>2, <1>9, <1>10 DEF HeldBySends, HeldS

-----------------------------------------------------------------------------
(* The window, step by step. *)

HasFailed == \E i \in DOMAIN queue : queue[i].task \in {"connectFailed", "sendFailed"}
Accounted ==
  delivered = recved + Len(pendingData) + Len(coalesceBuffer)
              + Len(dial.initialData) + HeldBySends + HeldByQueue
WindowInv == closed = FALSE => HasFailed \/ Accounted

LEMMA Quantities ==
  ASSUME TypeOK
  PROVE  /\ delivered \in Int /\ recved \in Int /\ Len(pendingData) \in Int
         /\ Len(coalesceBuffer) \in Int /\ Len(dial.initialData) \in Int
         /\ HeldBySends \in Int /\ HeldByQueue \in Int
<1>1. delivered \in Int /\ recved \in Int
  BY Numbers
<1>2. pendingData \in Seq(1..MaxUp) /\ coalesceBuffer \in Seq(1..MaxUp)
      /\ dial.initialData \in Seq(1..MaxUp)
  BY Queues, DialSorts
<1>3. Len(pendingData) \in Int /\ Len(coalesceBuffer) \in Int /\ Len(dial.initialData) \in Int
  BY <1>2, LenProperties
<1> QED
  BY <1>1, <1>3, HeldSums

(* What the six places gain is what was delivered. *)
LEMMA Moves ==
  ASSUME TypeOK, NEW d \in Int, NEW r \in Int, NEW p \in Int, NEW c \in Int, NEW i \in Int,
         NEW s \in Int, NEW q \in Int, d = r + p + c + i + s + q,
         delivered' = delivered + d, recved' = recved + r,
         Len(pendingData') = Len(pendingData) + p,
         Len(coalesceBuffer') = Len(coalesceBuffer) + c,
         Len(dial'.initialData) = Len(dial.initialData) + i,
         HeldBySends' = HeldBySends + s, HeldByQueue' = HeldByQueue + q
  PROVE  Accounted => Accounted'
<1>1. PICK D \in Int, R \in Int, P \in Int, C \in Int, I \in Int, S \in Int, Q \in Int :
         /\ D = delivered /\ R = recved /\ P = Len(pendingData) /\ C = Len(coalesceBuffer)
         /\ I = Len(dial.initialData) /\ S = HeldBySends /\ Q = HeldByQueue
  BY Quantities, Zenon
<1>2. D = R + P + C + I + S + Q =>
        D + d = (R + r) + (P + p) + (C + c) + (I + i) + (S + s) + (Q + q)
  OBVIOUS
<1>3. Accounted => D = R + P + C + I + S + Q
  BY <1>1, Zenon DEF Accounted
<1>4. /\ delivered' = D + d /\ recved' = R + r /\ Len(pendingData') = P + p
      /\ Len(coalesceBuffer') = C + c /\ Len(dial'.initialData) = I + i
      /\ HeldBySends' = S + s /\ HeldByQueue' = Q + q
  BY <1>1, Zenon
<1>5. D + d = (R + r) + (P + p) + (C + c) + (I + i) + (S + s) + (Q + q) => Accounted'
  BY <1>4, Zenon DEF Accounted
<1> QED
  BY <1>2, <1>3, <1>5, Zenon

(* A failure that waits keeps waiting until it closes the connection. *)
LEMMA FailedKept ==
  ASSUME TypeOK, HasFailed
  PROVE  /\ queue' = queue => HasFailed'
         /\ \A kinds : HeadIs(kinds) /\ "sendFailed" \notin kinds /\ "connectFailed" \notin kinds
                         => HasFailed'
         /\ \A t \in TaskRecord : queue' = Append(queue, t) => HasFailed'
<1>1. PICK i \in DOMAIN queue : queue[i].task \in {"connectFailed", "sendFailed"}
  BY DEF HasFailed
<1>2. queue' = queue => HasFailed'
  BY <1>1, Zenon DEF HasFailed
<1>3. ASSUME NEW kinds, HeadIs(kinds), "sendFailed" \notin kinds, "connectFailed" \notin kinds
      PROVE  HasFailed'
  <2>1. /\ queue[1].task \in kinds
        /\ \A j \in DOMAIN queue : j # 1 => j - 1 \in DOMAIN queue' /\ queue'[j - 1] = queue[j]
    BY <1>3, QueueTail, Zenon
  <2>2. i # 1
    BY <1>1, <1>3, <2>1
  <2> QED
    BY <1>1, <2>1, <2>2, Zenon DEF HasFailed
<1>4. ASSUME NEW t \in TaskRecord, queue' = Append(queue, t)
      PROVE  HasFailed'
  <2>1. \A j \in DOMAIN queue : j \in DOMAIN queue' /\ queue'[j] = queue[j]
    BY <1>4, QueueAppend, Zenon
  <2> QED
    BY <1>1, <2>1, Zenon DEF HasFailed
<1> QED
  BY <1>2, <1>3, <1>4

(* A step that leaves what is held alone. *)
LEMMA WindowKept ==
  ASSUME WindowInv, closed = FALSE, HasFailed => HasFailed',
         SameWindow, Len(pendingData') = Len(pendingData),
         Len(coalesceBuffer') = Len(coalesceBuffer), dial' = dial,
         HeldBySends' = HeldBySends, HeldByQueue' = HeldByQueue
  PROVE  WindowInv'
<1>1. Accounted => Accounted'
  BY Zenon DEF Accounted, SameWindow
<1> QED
  BY <1>1, Zenon DEF WindowInv

LEMMA SendsUntouched ==
  ASSUME sends' = sends
  PROVE  HeldBySends' = HeldBySends
BY Zenon DEF HeldBySends

LEMMA QueueUntouched ==
  ASSUME queue' = queue
  PROVE  HeldByQueue' = HeldByQueue
BY Zenon DEF HeldByQueue

(* The tasks that hold nothing: a flush, its end, a received block. *)
LEMMA LightTaken ==
  ASSUME TypeOK, HeadIs({"flush"}) \/ HeadIs({"flushDone"}) \/ HeadIs({"flush", "flushDone"})
                   \/ HeadIs({"received"})
  PROVE  HeldByQueue' = HeldByQueue /\ (HasFailed => HasFailed')
<1>1. PICK kinds : kinds \in {{"flush"}, {"flushDone"}, {"flush", "flushDone"}, {"received"}}
                   /\ HeadIs(kinds)
  OBVIOUS
<1>2. /\ HeldByQueue = HeldByTask(queue[1]) + HeldByQueue' /\ HeldByQueue' \in Int
      /\ queue[1] \in TaskRecord /\ queue[1].task \in kinds
  BY <1>1, HeldAfterTake, Zenon
<1>3. queue[1].task \notin {"ack", "connected"} /\ "sendFailed" \notin kinds
      /\ "connectFailed" \notin kinds
  BY <1>1, <1>2
<1>4. HeldByTask(queue[1]) = 0
  BY <1>2, <1>3, TaskHeld, Zenon
<1>5. HasFailed => HasFailed'
  BY <1>1, <1>3, FailedKept, Zenon
<1>6. HeldByQueue' = HeldByQueue
  <2>1. PICK x : x = HeldByQueue'
    OBVIOUS
  <2>2. x \in Int /\ HeldByQueue = 0 + x
    BY <1>2, <1>4, <2>1, Zenon
  <2>3. 0 + x = x
    BY <2>2
  <2>4. HeldByQueue = x
    BY <2>2, <2>3, Zenon
  <2> QED
    BY <2>1, <2>4, Zenon
<1> QED
  BY <1>5, <1>6

LEMMA LightWindow ==
  ASSUME TypeOK, PhaseInv, WindowInv,
         FlushesNothing \/ FlushOver \/ DownlinkEnds \/ (\E k \in Nat : Delivers(k))
  PROVE  WindowInv'
<1>1. OpenPhase
  BY QueuePhase, Zenon
<1>2. Stays /\ SameRoute /\ SameSends /\ pendingData' = pendingData /\ SameWindow
  BY Zenon DEF FlushesNothing, FlushOver, DownlinkEnds, Delivers, Drains, SameUp
<1>3. coalesceBuffer' = coalesceBuffer
  <2>1. CASE FlushesNothing
    <3>1. connection # None
      BY <1>1, Zenon DEF OpenPhase
    <3> QED
      BY <2>1, <3>1, Zenon DEF FlushesNothing
  <2>2. CASE ~FlushesNothing
    BY <2>2, Zenon DEF FlushOver, DownlinkEnds, Delivers, Drains, SameUp, SameBuffer
  <2> QED
    BY <2>1, <2>2
<1>4. HeldByQueue' = HeldByQueue /\ (HasFailed => HasFailed')
  BY LightTaken, Zenon DEF FlushesNothing, FlushOver, DownlinkEnds, Delivers
<1>5. HeldBySends' = HeldBySends
  BY <1>2, SendsUntouched, Zenon DEF SameSends
<1>6. dial' = dial /\ closed = FALSE
  BY <1>2, Zenon DEF SameRoute, Stays
<1> QED
  BY <1>2, <1>3, <1>4, <1>5, <1>6, WindowKept, Zenon

LEMMA StillWindow ==
  ASSUME TypeOK, WindowInv, Quiet \/ (\E used, retries, k \in Nat : Redrains(used, retries, k))
  PROVE  WindowInv'
<1>1. Stays /\ SameRoute /\ SameUp /\ SameWindow /\ queue' = queue
  BY Zenon DEF Quiet, Redrains, Drains
<1>2. /\ closed = FALSE /\ dial' = dial /\ pendingData' = pendingData
      /\ coalesceBuffer' = coalesceBuffer /\ sends' = sends
  BY <1>1, Zenon DEF Stays, SameRoute, SameUp, SameBuffer, SameSends
<1>3. HeldBySends' = HeldBySends /\ HeldByQueue' = HeldByQueue
  BY <1>1, <1>2, SendsUntouched, QueueUntouched, Zenon
<1>4. HasFailed => HasFailed'
  BY <1>1, FailedKept, Zenon
<1> QED
  BY <1>1, <1>2, <1>3, <1>4, WindowKept, Zenon

LEMMA ArrivesWindow ==
  ASSUME TypeOK, WindowInv, NEW outcome, NEW data, Arrives(outcome, data)
  PROVE  WindowInv'
<1>1. PICK t : t = [task |-> "received", outcome |-> outcome, data |-> data]
  OBVIOUS
<1>2. t \in TaskRecord
  BY <1>1, TaskMakers, Zenon DEF Arrives
<1>3. queue' = Append(queue, t)
  BY <1>1, Zenon DEF Arrives
<1>4. HeldByTask(t) = 0
  <2>1. t.task \notin {"ack", "connected"}
    BY <1>1
  <2> QED
    BY <1>2, <2>1, TaskHeld, Zenon
<1>5. HeldByQueue' = HeldByQueue
  BY <1>2, <1>3, <1>4, HeldAfterPost, Quantities
<1>6. HasFailed => HasFailed'
  BY <1>2, <1>3, FailedKept, Zenon
<1>7. /\ closed = FALSE /\ dial' = dial /\ pendingData' = pendingData
      /\ coalesceBuffer' = coalesceBuffer /\ sends' = sends /\ SameWindow
  BY Zenon DEF Arrives, Stays, SameRoute, SameUp, SameBuffer, SameSends
<1>8. HeldBySends' = HeldBySends
  BY <1>7, SendsUntouched, Zenon
<1> QED
  BY <1>5, <1>6, <1>7, <1>8, WindowKept, Zenon

LEMMA BuffersWindow ==
  ASSUME TypeOK, WindowInv, Buffers
  PROVE  WindowInv'
<1>1. /\ closed = FALSE /\ dial' = dial /\ coalesceBuffer' = coalesceBuffer
      /\ sends' = sends /\ queue' = queue /\ recved' = recved
      /\ delivered < MaxUp /\ delivered' = delivered + 1 /\ pendingData' = Grown
  BY Zenon DEF Buffers, Stays, SameRoute, SameBuffer, SameSends
<1>2. HeldBySends' = HeldBySends /\ HeldByQueue' = HeldByQueue /\ (HasFailed => HasFailed')
  BY <1>1, SendsUntouched, QueueUntouched, FailedKept, Zenon
<1>3. Len(pendingData') = Len(pendingData) + 1
  <2>1. delivered + 1 \in 1..MaxUp /\ pendingData \in Seq(1..MaxUp)
    BY <1>1, Numbers, Sizes, Queues
  <2> QED
    BY <1>1, <2>1, AppendProperties DEF Grown
<1>4. Accounted => Accounted'
  <2>1. /\ delivered' = delivered + 1 /\ recved' = recved + 0
        /\ Len(pendingData') = Len(pendingData) + 1 /\ Len(coalesceBuffer') = Len(coalesceBuffer) + 0
        /\ Len(dial'.initialData) = Len(dial.initialData) + 0
        /\ HeldBySends' = HeldBySends + 0 /\ HeldByQueue' = HeldByQueue + 0
    BY <1>1, <1>2, <1>3, Quantities
  <2>2. 1 = 0 + 1 + 0 + 0 + 0 + 0 /\ 0 \in Int /\ 1 \in Int
    OBVIOUS
  <2> QED
    BY <2>1, <2>2, Moves, Zenon
<1> QED
  BY <1>1, <1>2, <1>4, Zenon DEF WindowInv

LEMMA CoalescesWindow ==
  ASSUME TypeOK, WindowInv, Coalesces
  PROVE  WindowInv'
<1>1. /\ closed = FALSE /\ dial' = dial /\ pendingData' = pendingData
      /\ sends' = sends /\ recved' = recved
      /\ delivered < MaxUp /\ delivered' = delivered + 1
      /\ coalesceBuffer' = Append(coalesceBuffer, delivered + 1)
      /\ queue' = queue \/ queue' = Append(queue, [task |-> "flush"])
  BY Zenon DEF Coalesces, Stays, SameRoute, SameSends
<1>2. HeldBySends' = HeldBySends
  BY <1>1, SendsUntouched, Zenon
<1>3. HeldByQueue' = HeldByQueue /\ (HasFailed => HasFailed')
  <2>1. CASE queue' = queue
    BY <2>1, QueueUntouched, FailedKept, Zenon
  <2>2. CASE queue' = Append(queue, [task |-> "flush"])
    <3>1. PICK t : t = [task |-> "flush"]
      OBVIOUS
    <3>2. t \in TaskRecord /\ queue' = Append(queue, t)
      BY <2>2, <3>1, TaskMakers, Zenon
    <3>3. t.task \notin {"ack", "connected"}
      BY <3>1
    <3>4. HeldByTask(t) = 0
      BY <3>2, <3>3, TaskHeld, Zenon
    <3>5. HeldByQueue' = HeldByQueue
      BY <3>2, <3>4, HeldAfterPost, Quantities
    <3> QED
      BY <3>2, <3>5, FailedKept, Zenon
  <2> QED
    BY <1>1, <2>1, <2>2
<1>4. Len(coalesceBuffer') = Len(coalesceBuffer) + 1
  <2>1. delivered + 1 \in 1..MaxUp /\ coalesceBuffer \in Seq(1..MaxUp)
    BY <1>1, Numbers, Sizes, Queues
  <2> QED
    BY <1>1, <2>1, AppendProperties
<1>5. Accounted => Accounted'
  <2>1. /\ delivered' = delivered + 1 /\ recved' = recved + 0
        /\ Len(pendingData') = Len(pendingData) + 0 /\ Len(coalesceBuffer') = Len(coalesceBuffer) + 1
        /\ Len(dial'.initialData) = Len(dial.initialData) + 0
        /\ HeldBySends' = HeldBySends + 0 /\ HeldByQueue' = HeldByQueue + 0
    BY <1>1, <1>2, <1>3, <1>4, Quantities
  <2>2. 1 = 0 + 0 + 1 + 0 + 0 + 0 /\ 0 \in Int /\ 1 \in Int
    OBVIOUS
  <2> QED
    BY <2>1, <2>2, Moves, Zenon
<1> QED
  BY <1>1, <1>3, <1>5, Zenon DEF WindowInv

(* The handshake takes over what was pending. *)
LEMMA CommitsWindow ==
  ASSUME TypeOK, PhaseInv, WindowInv, NEW direct \in BOOLEAN, NEW pend \in Seq(1..MaxUp),
         Commits(direct, pend)
  PROVE  WindowInv'
<1>1. SniffPhase
  BY CommitsPhase, Zenon
<1>2. /\ closed = FALSE /\ coalesceBuffer' = coalesceBuffer /\ sends' = sends
      /\ queue' = queue /\ recved' = recved
  BY Zenon DEF Commits, Stays, SameBuffer, SameSends
<1>3. HeldBySends' = HeldBySends /\ HeldByQueue' = HeldByQueue /\ (HasFailed => HasFailed')
  BY <1>2, SendsUntouched, QueueUntouched, FailedKept, Zenon
<1>4. Len(dial.initialData) = 0
  <2>1. dial = NoDial /\ NoDial.initialData = <<>> /\ Len(<<>>) = 0
    BY <1>1, DialSorts DEF SniffPhase
  <2> QED
    BY <2>1
<1>5. PICK d \in Int : delivered' = delivered + d /\ Len(pend) = Len(pendingData) + d
  <2>1. CASE delivered < MaxUp /\ delivered' = delivered + 1 /\ pend = Grown
    <3>1. delivered + 1 \in 1..MaxUp /\ pendingData \in Seq(1..MaxUp)
      BY <2>1, Numbers, Sizes, Queues, SMTT(30)
    <3>2. Len(pend) = Len(pendingData) + 1
      BY <2>1, <3>1, AppendProperties DEF Grown
    <3> QED
      BY <2>1, <3>2
  <2>2. CASE delivered' = delivered /\ pend = pendingData
    <3>1. delivered = delivered + 0 /\ Len(pendingData) = Len(pendingData) + 0 /\ 0 \in Int
      BY Quantities
    <3> QED
      BY <2>2, <3>1, Zenon
  <2> QED
    BY <2>1, <2>2, Zenon DEF Commits
<1>6. /\ Len(pend) \in Int
      /\ \/ Len(dial'.initialData) = Len(pend) /\ Len(pendingData') = 0
         \/ Len(dial'.initialData) = 0 /\ Len(pendingData') = Len(pend)
  <2>1. \/ dial'.initialData = pend /\ pendingData' = <<>>
        \/ dial'.initialData = <<>> /\ pendingData' = pend
    BY DEF Commits
  <2>2. Len(<<>>) = 0 /\ Len(pend) \in Int
    BY LenProperties
  <2> QED
    BY <2>1, <2>2, Zenon
<1>7. Accounted => Accounted'
  <2>1. PICK x \in Int : x = Len(pendingData)
    BY Quantities, Zenon
  <2>2. /\ recved' = recved + 0 /\ Len(coalesceBuffer') = Len(coalesceBuffer) + 0
        /\ HeldBySends' = HeldBySends + 0 /\ HeldByQueue' = HeldByQueue + 0
    BY <1>2, <1>3, Quantities
  <2>3. CASE Len(dial'.initialData) = Len(pend) /\ Len(pendingData') = 0
    <3>1. Len(dial'.initialData) = Len(dial.initialData) + (x + d)
          /\ Len(pendingData') = Len(pendingData) + (0 - x)
      BY <1>4, <1>5, <2>1, <2>3
    <3>2. d = 0 + (0 - x) + 0 + (x + d) + 0 + 0 /\ 0 \in Int /\ 0 - x \in Int /\ x + d \in Int
      BY <1>5, <2>1
    <3> QED
      BY <1>5, <2>2, <3>1, <3>2, Moves, Zenon
  <2>4. CASE Len(dial'.initialData) = 0 /\ Len(pendingData') = Len(pend)
    <3>1. Len(dial'.initialData) = Len(dial.initialData) + 0
          /\ Len(pendingData') = Len(pendingData) + d
      BY <1>4, <1>5, <2>4
    <3>2. d = 0 + d + 0 + 0 + 0 + 0 /\ 0 \in Int
      BY <1>5
    <3> QED
      BY <1>5, <2>2, <3>1, <3>2, Moves, Zenon
  <2> QED
    BY <1>6, <2>3, <2>4
<1> QED
  BY <1>2, <1>3, <1>7, Zenon DEF WindowInv

LEMMA DialEndsWindow ==
  ASSUME TypeOK, DialEnds
  PROVE  WindowInv'
<1>1. PICK t : t = [task |-> "connectFailed"]
  OBVIOUS
<1>2. t \in TaskRecord /\ queue' = Append(queue, t) /\ t.task \in {"connectFailed", "sendFailed"}
  <2>1. t \in TaskRecord /\ queue' = Append(queue, t)
    BY <1>1, TaskMakers, Zenon DEF DialEnds
  <2>2. t.task \in {"connectFailed", "sendFailed"}
    BY <1>1
  <2> QED
    BY <2>1, <2>2
<1>3. \E i \in DOMAIN queue' : queue'[i] = t
  BY <1>2, QueueAppend, Zenon
<1>4. HasFailed'
  BY <1>2, <1>3, Zenon DEF HasFailed
<1> QED
  BY <1>4, Zenon DEF WindowInv

LEMMA SendLostWindow ==
  ASSUME TypeOK, NEW i \in DOMAIN sends, SendLost(i)
  PROVE  WindowInv'
<1>1. PICK t : t = [task |-> "sendFailed", flush |-> sends[i].kind = "flush"]
  OBVIOUS
<1>2. t \in TaskRecord
  <2>1. (sends[i].kind = "flush") \in BOOLEAN
    OBVIOUS
  <2> QED
    BY <1>1, <2>1, TaskMakers, Zenon
<1>3. queue' = Append(queue, t)
  BY <1>1, Zenon DEF SendLost
<1>4. t.task \in {"connectFailed", "sendFailed"}
  BY <1>1
<1>5. \E j \in DOMAIN queue' : queue'[j] = t
  BY <1>2, <1>3, QueueAppend, Zenon
<1>6. HasFailed'
  BY <1>4, <1>5, Zenon DEF HasFailed
<1> QED
  BY <1>6, Zenon DEF WindowInv

(* The connection that opens takes the handshake's data with it. *)
LEMMA DialOpensWindow ==
  ASSUME TypeOK, WindowInv, DialOpens
  PROVE  WindowInv'
<1>1. /\ closed = FALSE /\ pendingData' = pendingData /\ coalesceBuffer' = coalesceBuffer
      /\ sends' = sends /\ recved' = recved /\ delivered' = delivered
      /\ dial.kind # None /\ dial' = NoDial
  BY Zenon DEF DialOpens, Stays, SameBuffer, SameWindow
<1>2. PICK d : d = dial.initialData
  OBVIOUS
<1>3. dial.kind \in {"direct", "proxy"} /\ d \in Seq(1..MaxUp)
  BY <1>1, <1>2, DialSorts
<1>4. PICK t : t = [task |-> "connected", kind |-> dial.kind, initialData |-> d]
  OBVIOUS
<1>5. t \in TaskRecord
  BY <1>3, <1>4, TaskMakers, Zenon
<1>6. queue' = Append(queue, t)
  BY <1>2, <1>4, Zenon DEF DialOpens
<1>7. HeldByTask(t) = Len(d)
  <2>1. t.task = "connected" /\ t.initialData = d
    BY <1>4
  <2> QED
    BY <1>5, <2>1, TaskHeld, Zenon
<1>8. HeldByQueue' = HeldByQueue + Len(d)
  BY <1>5, <1>6, <1>7, HeldAfterPost, Zenon
<1>9. HeldBySends' = HeldBySends /\ (HasFailed => HasFailed')
  BY <1>1, <1>5, <1>6, SendsUntouched, FailedKept, Zenon
<1>10. Len(dial'.initialData) = 0
  <2>1. NoDial.initialData = <<>> /\ Len(<<>>) = 0
    BY DialSorts
  <2> QED
    BY <1>1, <2>1
<1>11. Accounted => Accounted'
  <2>1. Len(dial.initialData) = Len(d)
    BY <1>2
  <2> QED
    BY <1>1, <1>8, <1>9, <1>10, <2>1, Quantities DEF Accounted
<1> QED
  BY <1>1, <1>9, <1>11, Zenon DEF WindowInv

LEMMA AcksWindow ==
  ASSUME TypeOK, WindowInv, Acks
  PROVE  WindowInv'
<1>1. /\ closed = FALSE /\ dial' = dial /\ pendingData' = pendingData
      /\ coalesceBuffer' = coalesceBuffer /\ sends' = sends
      /\ HeadIs({"ack"}) /\ delivered' = delivered /\ recved' = recved + Head(queue).bytes
  BY Zenon DEF Acks, Stays, SameRoute, SameUp, SameBuffer, SameSends
<1>2. /\ HeldByQueue = HeldByTask(queue[1]) + HeldByQueue' /\ HeldByQueue' \in Int
      /\ queue[1] \in TaskRecord /\ queue[1].task \in {"ack"} /\ queue[1] = Head(queue)
  BY <1>1, HeldAfterTake, Zenon
<1>3. HeldByTask(queue[1]) = Head(queue).bytes /\ Head(queue).bytes \in Nat
  <2>1. queue[1].task = "ack"
    BY <1>2
  <2> QED
    BY <1>2, <2>1, TaskHeld, TaskSorts, Zenon
<1>4. "sendFailed" \notin {"ack"} /\ "connectFailed" \notin {"ack"}
  OBVIOUS
<1>5. HeldBySends' = HeldBySends /\ (HasFailed => HasFailed')
  BY <1>1, <1>4, SendsUntouched, FailedKept, Zenon
<1>6. PICK b : b = Head(queue).bytes
  OBVIOUS
<1>7. b \in Nat /\ recved' = recved + b /\ HeldByQueue = b + HeldByQueue'
  BY <1>1, <1>2, <1>3, <1>6, Zenon
<1>8. Accounted => Accounted'
  <2>1. PICK q \in Int : q = HeldByQueue'
    BY <1>2, Zenon
  <2>2. b \in Int
    <3>1. b \in Nat
      BY <1>7, Zenon
    <3> QED
      BY <3>1
  <2>3. b + q + (0 - b) = q /\ 0 - b \in Int /\ 0 \in Int
    <3>1. \A y, z \in Int : y + z + (0 - y) = z /\ 0 - y \in Int
      OBVIOUS
    <3>2. 0 \in Int
      OBVIOUS
    <3> QED
      BY <2>1, <2>2, <3>1, <3>2, Zenon
  <2>4. HeldByQueue = b + q
    BY <1>7, <2>1, Zenon
  <2>5. HeldByQueue' = HeldByQueue + (0 - b)
    BY <2>1, <2>3, <2>4, Zenon
  <2>6. /\ delivered' = delivered + 0 /\ Len(pendingData') = Len(pendingData) + 0
        /\ Len(coalesceBuffer') = Len(coalesceBuffer) + 0
        /\ Len(dial'.initialData) = Len(dial.initialData) + 0 /\ HeldBySends' = HeldBySends + 0
    BY <1>1, <1>5, Quantities
  <2>7. 0 = b + 0 + 0 + 0 + 0 + (0 - b)
    BY <2>2
  <2> QED
    BY <1>7, <2>3, <2>5, <2>6, <2>7, <2>2, Moves, Zenon
<1> QED
  BY <1>1, <1>5, <1>8, Zenon DEF WindowInv

LEMMA FlushesWindow ==
  ASSUME TypeOK, PhaseInv, WindowInv, Flushes
  PROVE  WindowInv'
<1>1. /\ closed = FALSE /\ dial' = dial /\ pendingData' = pendingData
      /\ delivered' = delivered /\ recved' = recved
      /\ coalesceBuffer # <<>> /\ coalesceBuffer' = <<>> /\ HeadIs({"flush", "flushDone"})
  BY Zenon DEF Flushes, Stays, SameRoute, SameWindow
<1>2. PICK c : c = Chunks(coalesceBuffer)
  OBVIOUS
<1>3. PICK co : co = Coroutine("flush", c, 0)
  OBVIOUS
<1>4. sends' = Append(sends, co)
  BY <1>2, <1>3, Zenon DEF Flushes
<1>5. co \in SendRecord /\ co.kind = "flush" /\ co.chunks = c
  <2>1. c \in Seq(Seq(1..MaxUp))
    BY <1>1, <1>2, Queues, ChunksCut, Zenon
  <2> QED
    BY <1>3, <2>1 DEF Coroutine, SendRecord
<1>6. HeldByCoroutine(co) = Len(coalesceBuffer)
  <2>1. Sum([j \in DOMAIN c |-> Len(c[j])]) = Len(coalesceBuffer)
    BY <1>1, <1>2, Queues, BufferHeld
  <2> QED
    BY <1>5, <2>1 DEF HeldByCoroutine
<1>7. HeldBySends' = HeldBySends + Len(coalesceBuffer)
  BY <1>4, <1>5, <1>6, HeldAfterLaunch, Zenon
<1>8. HeldByQueue' = HeldByQueue /\ (HasFailed => HasFailed')
  BY <1>1, LightTaken, Zenon
<1>9. Len(coalesceBuffer') = 0
  BY <1>1
<1>10. Accounted => Accounted'
  BY <1>1, <1>7, <1>8, <1>9, Quantities DEF Accounted
<1> QED
  BY <1>1, <1>8, <1>10, Zenon DEF WindowInv

LEMMA ConnectsWindow ==
  ASSUME TypeOK, PhaseInv, WindowInv, NEW initial, Connects(initial)
  PROVE  WindowInv'
<1>1. /\ closed = FALSE /\ dial' = dial /\ coalesceBuffer' = coalesceBuffer
      /\ HeadIs({"connected"}) /\ initial = Head(queue).initialData
      /\ pendingData' = <<>> /\ delivered' = delivered
  BY Zenon DEF Connects, Stays, SameBuffer
<1>2. initial \in Seq(1..MaxUp) /\ pendingData \in Seq(1..MaxUp)
  BY <1>1, ConnectedTask, Queues
<1>3. Len(initial) \in Nat /\ Len(pendingData) \in Nat
  BY <1>2, LenProperties
<1>4. /\ HeldByQueue = HeldByTask(queue[1]) + HeldByQueue' /\ HeldByQueue' \in Int
      /\ queue[1] \in TaskRecord /\ queue[1].task \in {"connected"} /\ queue[1] = Head(queue)
  BY <1>1, HeldAfterTake, Zenon
<1>5. HeldByQueue = Len(initial) + HeldByQueue'
  <2>1. queue[1].task = "connected"
    BY <1>4
  <2>2. HeldByTask(queue[1]) = Len(initial)
    BY <1>1, <1>4, <2>1, TaskHeld, Zenon
  <2> QED
    BY <1>4, <2>2
<1>6. PICK l \in Int, p \in Int : l = Len(initial) /\ p = Len(pendingData)
  BY <1>3
<1>7. HeldByQueue' = HeldByQueue + (0 - l) /\ 0 - l \in Int /\ 0 \in Int
  <2>1. PICK q \in Int : q = HeldByQueue'
    BY <1>4, Zenon
  <2>2. l + q + (0 - l) = q /\ 0 - l \in Int /\ 0 \in Int
    BY <1>6, <2>1
  <2>3. HeldByQueue = l + q
    BY <1>5, <1>6, <2>1, Zenon
  <2> QED
    BY <2>1, <2>2, <2>3, Zenon
<1>8. /\ delivered' = delivered + 0 /\ Len(coalesceBuffer') = Len(coalesceBuffer) + 0
      /\ Len(dial'.initialData) = Len(dial.initialData) + 0
  BY <1>1, Quantities
<1>9. "sendFailed" \notin {"connected"} /\ "connectFailed" \notin {"connected"}
  OBVIOUS
<1>10. HasFailed => HasFailed'
  BY <1>1, <1>9, FailedKept, Zenon
<1>11. Len(pendingData') = 0
  BY <1>1
<1>12. CASE OpeningChunks(initial) # <<>>
  <2>1. PICK o : o = OpeningChunks(initial)
    OBVIOUS
  <2>2. o \in Seq(Seq(1..MaxUp))
    BY <1>2, <2>1, OpeningSort, Zenon
  <2>3. PICK n : n = Len(initial) + Len(pendingData)
    OBVIOUS
  <2>4. PICK co : co = Coroutine("initial", o, n)
    OBVIOUS
  <2>5. sends' = Append(sends, co) /\ recved' = recved
    BY <1>12, <2>1, <2>3, <2>4, Zenon DEF Connects
  <2>6. co \in SendRecord /\ co.kind = "initial" /\ co.totalAck = n
    <3>1. n \in Nat
      BY <1>3, <2>3
    <3> QED
      BY <2>2, <2>4, <3>1 DEF Coroutine, SendRecord
  <2>7. HeldByCoroutine(co) = n
    BY <2>6 DEF HeldByCoroutine
  <2>8. HeldBySends' = HeldBySends + n
    BY <2>5, <2>6, <2>7, HeldAfterLaunch, Zenon
  <2>9. Accounted => Accounted'
    <3>1. n = l + p
      BY <1>6, <2>3, Zenon
    <3>2. n \in Int /\ 0 - p \in Int /\ 0 = 0 + (0 - p) + 0 + 0 + n + (0 - l)
      BY <3>1, <1>6
    <3>3. recved' = recved + 0
      BY <2>5, Quantities
    <3>4. Len(pendingData') = Len(pendingData) + (0 - p)
      BY <1>11, <1>6
    <3> QED
      BY <1>7, <1>8, <2>8, <3>2, <3>3, <3>4, Moves, Zenon
  <2> QED
    BY <1>1, <1>10, <2>9, Zenon DEF WindowInv
<1>13. CASE OpeningChunks(initial) = <<>>
  <2>1. recved' = recved + Len(initial) /\ sends' = sends
    BY <1>13, Zenon DEF Connects, SameSends
  <2>2. Len(pendingData) = 0
    <3> SUFFICES ASSUME pendingData # <<>> PROVE FALSE
      BY <1>2
    <3>1. PICK a : a = IF Head(queue).kind = "direct" /\ initial # <<>> THEN <<initial>> ELSE <<>>
      OBVIOUS
    <3>2. a \in Seq(Seq(1..MaxUp)) /\ <<pendingData>> \in Seq(Seq(1..MaxUp)) /\ Len(<<pendingData>>) = 1
      <4>1. <<initial>> \in Seq(Seq(1..MaxUp)) /\ <<pendingData>> \in Seq(Seq(1..MaxUp))
        BY <1>2
      <4>2. <<>> \in Seq(Seq(1..MaxUp))
        OBVIOUS
      <4>3. Len(<<pendingData>>) = 1
        OBVIOUS
      <4> QED
        BY <3>1, <4>1, <4>2, <4>3, Zenon
    <3>3. OpeningChunks(initial) = a \o <<pendingData>>
      BY <3>1 DEF OpeningChunks
    <3>4. Len(a \o <<pendingData>>) = Len(a) + 1 /\ Len(a) \in Nat
      BY <3>2, ConcatProperties, LenProperties
    <3>5. Len(<<>>) = 0
      OBVIOUS
    <3> QED
      BY <1>13, <3>3, <3>4, <3>5
  <2>3. HeldBySends' = HeldBySends
    BY <2>1, SendsUntouched, Zenon
  <2>4. Accounted => Accounted'
    <3>1. recved' = recved + l
      BY <1>6, <2>1, Zenon
    <3>2. 0 = l + 0 + 0 + 0 + 0 + (0 - l)
      BY <1>6
    <3>3. Len(pendingData') = Len(pendingData) + 0
      BY <1>11, <2>2
    <3>4. HeldBySends' = HeldBySends + 0
      BY <2>3, Quantities
    <3> QED
      BY <1>6, <1>7, <1>8, <3>1, <3>2, <3>3, <3>4, Moves, Zenon
  <2> QED
    BY <1>1, <1>10, <2>4, Zenon DEF WindowInv
<1> QED
  BY <1>12, <1>13


(* A chunk that was sent moves from its coroutine to an acknowledgement. *)
LEMMA HeldAfterPosted ==
  ASSUME TypeOK, SendsInv, NEW i \in DOMAIN sends, queue' = Posted(sends[i])
  PROVE  /\ sends[i].kind = "flush" =>
              HeldByQueue' = HeldByQueue + Len(Head(sends[i].chunks))
         /\ sends[i].kind # "flush" /\ Len(sends[i].chunks) = 1 =>
              HeldByQueue' = HeldByQueue + sends[i].totalAck
         /\ sends[i].kind # "flush" /\ Len(sends[i].chunks) # 1 => HeldByQueue' = HeldByQueue
<1>1. PICK co : co = sends[i]
  OBVIOUS
<1>2. co.chunks \in Seq(Seq(1..MaxUp)) /\ co.chunks # <<>> /\ co.totalAck \in Nat
  BY <1>1, CoSorts, Zenon DEF SendsInv
<1>3. PICK h : h = Len(Head(co.chunks))
  OBVIOUS
<1>4. h \in Nat
  BY <1>2, <1>3, ChunkHeld, Zenon
<1>5. PICK a, b : a = AckTask(h) /\ b = AckTask(co.totalAck)
  OBVIOUS
<1>6. a \in TaskRecord /\ b \in TaskRecord /\ DoneTask \in TaskRecord
  BY <1>2, <1>4, <1>5, TaskMakers, Zenon
<1>7. /\ a.task = "ack" /\ a.bytes = h /\ b.task = "ack" /\ b.bytes = co.totalAck
      /\ DoneTask.task \notin {"ack", "connected"}
  BY <1>5 DEF AckTask, DoneTask
<1>8. HeldByTask(a) = h /\ HeldByTask(b) = co.totalAck /\ HeldByTask(DoneTask) = 0
      /\ HeldByTask(a) \in Int
  BY <1>6, <1>7, TaskHeld, Zenon
<1>9. ASSUME co.kind = "flush" PROVE HeldByQueue' = HeldByQueue + h
  <2>1. CASE Len(co.chunks) = 1
    <3>1. queue' = Append(Append(queue, a), DoneTask)
      BY <1>1, <1>3, <1>5, <1>9, <2>1, Zenon DEF Posted
    <3> QED
      BY <1>6, <1>8, <3>1, HeldAfterTwo, Zenon
  <2>2. CASE Len(co.chunks) # 1
    <3>1. queue' = Append(queue, a)
      BY <1>1, <1>3, <1>5, <1>9, <2>2, Zenon DEF Posted
    <3> QED
      BY <1>6, <1>8, <3>1, HeldAfterPost, Zenon
  <2> QED
    BY <2>1, <2>2
<1>10. ASSUME co.kind # "flush", Len(co.chunks) = 1 PROVE HeldByQueue' = HeldByQueue + co.totalAck
  <2>1. queue' = Append(queue, b)
    BY <1>1, <1>5, <1>10, Zenon DEF Posted
  <2> QED
    BY <1>6, <1>8, <2>1, HeldAfterPost, Zenon
<1>11. ASSUME co.kind # "flush", Len(co.chunks) # 1 PROVE HeldByQueue' = HeldByQueue
  <2>1. queue' = queue
    BY <1>1, <1>11, Zenon DEF Posted
  <2> QED
    BY <2>1, QueueUntouched, Zenon
<1> QED
  BY <1>1, <1>3, <1>9, <1>10, <1>11, Zenon

LEMMA HeldAfterSend ==
  ASSUME TypeOK, SendsInv, NEW i \in DOMAIN sends, SendDone(i)
  PROVE  \E x \in Int : HeldBySends' = HeldBySends + (0 - x) /\ HeldByQueue' = HeldByQueue + x
<1>1. PICK co : co = sends[i]
  OBVIOUS
<1>2. co \in SendRecord /\ co.chunks \in Seq(Seq(1..MaxUp)) /\ co.chunks # <<>>
      /\ co.totalAck \in Nat
  BY <1>1, CoSorts, Zenon DEF SendsInv
<1>3. queue' = Posted(sends[i])
  BY PostedCases, Zenon DEF SendDone
<1>4. PICK c : c = Tail(co.chunks)
  OBVIOUS
<1>5. c \in Seq(Seq(1..MaxUp))
  BY <1>2, <1>4, ChunkSorts, Zenon
<1>6. Len(co.chunks) = 1 <=> c = <<>>
  <2>1. /\ Len(co.chunks) \in Nat /\ Len(c) = Len(co.chunks) - 1
        /\ Len(c) = 0 <=> c = <<>>
    BY <1>2, <1>4, <1>5, HeadTailProperties, LenProperties, EmptySeq
  <2> QED
    BY <2>1
<1>7. HeldBySends \in Int /\ HeldByQueue \in Int /\ HeldByCoroutine(co) \in Int
  BY <1>2, HeldSums, HeldSort, Zenon
<1>8. CASE c = <<>>
  <2>1. HeldBySends' = HeldBySends - HeldByCoroutine(co)
    BY <1>1, <1>4, <1>8, HeldAfterEnd, Zenon DEF SendDone
  <2>2. HeldByQueue' = HeldByQueue + HeldByCoroutine(co)
    <3>1. CASE co.kind = "flush"
      <4>1. Sum([j \in DOMAIN c |-> Len(c[j])]) = 0
        <5>1. [j \in DOMAIN c |-> Len(c[j])] = <<>>
          BY <1>8
        <5> QED
          BY <5>1, SumEmpty, Zenon
      <4>2. PICK h \in Nat : h = Len(Head(co.chunks))
        BY <1>2, ChunkHeld, Zenon
      <4>3. Sum([j \in DOMAIN co.chunks |-> Len(co.chunks[j])]) = h + 0
        BY <1>2, <1>4, <4>1, <4>2, ChunkHeld, Zenon
      <4>4. h + 0 = h
        BY <4>2
      <4>5. HeldByCoroutine(co) = h
        BY <3>1, <4>3, <4>4, Zenon DEF HeldByCoroutine
      <4> QED
        BY <1>1, <1>3, <3>1, <4>2, <4>5, HeldAfterPosted, Zenon
    <3>2. CASE co.kind # "flush"
      <4>1. HeldByCoroutine(co) = co.totalAck
        BY <3>2, Zenon DEF HeldByCoroutine
      <4> QED
        BY <1>1, <1>3, <1>6, <1>8, <3>2, <4>1, HeldAfterPosted, Zenon
    <3> QED
      BY <3>1, <3>2
  <2>3. PICK x \in Int : x = HeldByCoroutine(co)
    BY <1>7, Zenon
  <2>4. HeldBySends - x = HeldBySends + (0 - x)
    BY <1>7, <2>3
  <2> QED
    BY <2>1, <2>2, <2>3, <2>4, Zenon
<1>9. CASE c # <<>>
  <2>1. sends' = [sends EXCEPT ![i].chunks = c]
    BY <1>1, <1>4, <1>9, Zenon DEF SendDone
  <2>2. PICK n : n = sends'[i]
    OBVIOUS
  <2>3. n.kind = co.kind /\ n.chunks = c /\ n.totalAck = co.totalAck
    BY <1>1, <2>1, <2>2, SendsShortened, Zenon
  <2>4. HeldBySends' = HeldBySends - HeldByCoroutine(co) + HeldByCoroutine(n)
    BY <1>1, <1>5, <2>1, <2>2, HeldAfterChunk, Zenon
  <2>5. CASE co.kind = "flush"
    <3>1. PICK h \in Nat : h = Len(Head(co.chunks))
      BY <1>2, ChunkHeld, Zenon
    <3>2. HeldByCoroutine(n) = Sum([j \in DOMAIN c |-> Len(c[j])])
      BY <2>3, <2>5, Zenon DEF HeldByCoroutine
    <3>3. HeldByCoroutine(co) = h + HeldByCoroutine(n)
      BY <1>2, <1>4, <2>5, <3>1, <3>2, ChunkHeld, Zenon DEF HeldByCoroutine
    <3>4. HeldByCoroutine(n) \in Int
      <4>1. n \in SendRecord
        <5>1. n = [co EXCEPT !.chunks = c]
          BY <1>1, <2>1, <2>2
        <5> QED
          BY <1>2, <1>5, <5>1 DEF SendRecord
      <4> QED
        BY <4>1, HeldSort, Zenon
    <3>5. PICK x \in Int, y \in Int : x = HeldBySends /\ y = HeldByCoroutine(n)
      BY <1>7, <3>4, Zenon
    <3>6. x - (h + y) + y = x + (0 - h) /\ h \in Int
      <4>1. \A u, v, w \in Int : u - (v + w) + w = u + (0 - v)
        OBVIOUS
      <4>2. h \in Int
        BY <3>1
      <4> QED
        BY <4>1, <4>2, Zenon
    <3>7. HeldBySends' = HeldBySends + (0 - h) /\ h \in Int
      BY <2>4, <3>3, <3>5, <3>6, Zenon
    <3> QED
      BY <1>1, <1>3, <2>5, <3>1, <3>7, HeldAfterPosted, Zenon
  <2>6. CASE co.kind # "flush"
    <3>1. HeldByCoroutine(n) = HeldByCoroutine(co)
      BY <2>3, <2>6, Zenon DEF HeldByCoroutine
    <3>2. HeldByQueue' = HeldByQueue
      BY <1>1, <1>3, <1>6, <1>9, <2>6, HeldAfterPosted, Zenon
    <3>3. HeldBySends' = HeldBySends + (0 - 0)
      BY <1>7, <2>4, <3>1
    <3>4. HeldByQueue' = HeldByQueue + 0 /\ 0 \in Int
      BY <1>7, <3>2
    <3> QED
      BY <3>3, <3>4, Zenon
  <2> QED
    BY <2>5, <2>6
<1> QED
  BY <1>8, <1>9

LEMMA SendDoneWindow ==
  ASSUME TypeOK, SendsInv, WindowInv, NEW i \in DOMAIN sends, SendDone(i)
  PROVE  WindowInv'
<1>1. /\ closed = FALSE /\ dial' = dial /\ pendingData' = pendingData
      /\ coalesceBuffer' = coalesceBuffer /\ delivered' = delivered /\ recved' = recved
  BY Zenon DEF SendDone, Stays, SameRoute, SameBuffer, SameWindow
<1>2. PICK x \in Int : HeldBySends' = HeldBySends + (0 - x) /\ HeldByQueue' = HeldByQueue + x
  BY HeldAfterSend, Zenon
<1>3. HasFailed => HasFailed'
  <2>1. queue' = Posted(sends[i])
    BY PostedCases, Zenon DEF SendDone
  <2>2. \A j \in DOMAIN queue : j \in DOMAIN queue' /\ queue'[j] = queue[j]
    BY <2>1, QueuePosted, Zenon
  <2> QED
    BY <2>2, Zenon DEF HasFailed
<1>4. Accounted => Accounted'
  <2>1. /\ delivered' = delivered + 0 /\ recved' = recved + 0
        /\ Len(pendingData') = Len(pendingData) + 0
        /\ Len(coalesceBuffer') = Len(coalesceBuffer) + 0
        /\ Len(dial'.initialData) = Len(dial.initialData) + 0
    BY <1>1, Quantities
  <2>2. 0 = 0 + 0 + 0 + 0 + (0 - x) + x /\ 0 \in Int /\ 0 - x \in Int
    BY <1>2
  <2> QED
    BY <1>2, <2>1, <2>2, Moves, Zenon
<1> QED
  BY <1>1, <1>3, <1>4, Zenon DEF WindowInv

LEMMA WindowInitial ==
  ASSUME Init
  PROVE  WindowInv
<1>1. /\ sends = <<>> /\ queue = <<>> /\ pendingData = <<>> /\ coalesceBuffer = <<>>
      /\ delivered = 0 /\ recved = 0 /\ dial.initialData = <<>>
  BY DEF Init, NoDial
<1>2. HeldBySends = Sum(<<>>) /\ HeldByQueue = Sum(<<>>)
  <2>1. [i \in DOMAIN sends |-> HeldByCoroutine(sends[i])] = <<>>
    BY <1>1
  <2>2. [i \in DOMAIN queue |-> HeldByTask(queue[i])] = <<>>
    BY <1>1
  <2> QED
    BY <2>1, <2>2, Zenon DEF HeldBySends, HeldByQueue
<1>3. HeldBySends = 0 /\ HeldByQueue = 0
  BY <1>2, SumEmpty, Zenon
<1>4. Len(<<>>) = 0
  OBVIOUS
<1>5. 0 = 0 + 0 + 0 + 0 + 0 + 0
  OBVIOUS
<1>6. Accounted
  BY <1>1, <1>3, <1>4, <1>5, Zenon DEF Accounted
<1> QED
  BY <1>6, Zenon DEF WindowInv

LEMMA WindowStep ==
  ASSUME TcpInv, WindowInv, [Next]_vars
  PROVE  WindowInv'
<1>1. TypeOK /\ PcbInv /\ SendsInv /\ PhaseInv
  BY Zenon DEF TcpInv
<1>2. Step
  BY <1>1, StepShape, Zenon
<1>3. CASE Releases \/ AfterClose
  <2>1. ~(closed' = FALSE)
    BY <1>3 DEF Releases, AfterClose
  <2> QED
    BY <2>1, Zenon DEF WindowInv
<1>4. CASE Quiet \/ \E used, retries, k \in Nat : Redrains(used, retries, k)
  BY <1>1, <1>4, StillWindow, Zenon
<1>5. CASE Buffers \/ Coalesces \/ DialEnds \/ DialOpens
  BY <1>1, <1>5, BuffersWindow, CoalescesWindow, DialEndsWindow, DialOpensWindow, Zenon
<1>6. CASE \E direct \in BOOLEAN, pend \in Seq(1..MaxUp) : Commits(direct, pend)
  BY <1>1, <1>6, CommitsWindow, Zenon
<1>7. CASE \E i \in DOMAIN sends : SendDone(i) \/ SendLost(i)
  BY <1>1, <1>7, SendDoneWindow, SendLostWindow, Zenon
<1>8. CASE \E outcome, data : Arrives(outcome, data)
  BY <1>1, <1>8, ArrivesWindow, Zenon
<1>9. CASE Acks \/ Flushes \/ \E initial : Connects(initial)
  BY <1>1, <1>9, AcksWindow, FlushesWindow, ConnectsWindow, Zenon
<1>10. CASE FlushesNothing \/ FlushOver \/ DownlinkEnds \/ \E k \in Nat : Delivers(k)
  BY <1>1, <1>10, LightWindow, Zenon
<1> QED
  BY <1>2, <1>3, <1>4, <1>5, <1>6, <1>7, <1>8, <1>9, <1>10, Zenon DEF Step

(* lwIP's receive window is conserved for every size of the buffers and    *)
(* every order of dial, sends, flushes and new data: until a failure waits *)
(* to abort the connection, what lwIP delivered and ackBytesToLwip has not *)
(* returned is held in exactly one of the five places that will return it. *)
THEOREM TcpConservesWindow == Spec => []WindowConserved
<1>1. Init => TcpInv /\ WindowInv
  BY TcpInitial, WindowInitial
<1>2. (TcpInv /\ WindowInv) /\ [Next]_vars => (TcpInv /\ WindowInv)'
  BY TcpStep, WindowStep
<1>3. TcpInv /\ WindowInv => WindowConserved
  <2> SUFFICES ASSUME TcpInv, WindowInv, ~closed, ~Pending("connectFailed"), ~Pending("sendFailed")
               PROVE  Accounted
    BY Zenon DEF WindowConserved, Accounted
  <2>1. closed = FALSE
    BY Flags DEF TcpInv
  <2>2. ~HasFailed
    <3> SUFFICES ASSUME NEW i \in DOMAIN queue, queue[i].task \in {"connectFailed", "sendFailed"}
                 PROVE  FALSE
      BY Zenon DEF HasFailed
    <3>1. queue[i] \in Tasks
      BY DEF Tasks
    <3> QED
      BY <3>1 DEF Pending
  <2> QED
    BY <2>1, <2>2, Zenon DEF WindowInv
<1> QED
  BY <1>1, <1>2, <1>3, PTL DEF Spec

=============================================================================
