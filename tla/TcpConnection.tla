--------------------------- MODULE TcpConnection ---------------------------
(***************************************************************************)
(* vpn/LwipTcpConnection.kt: one app connection, carried from lwIP's pcb   *)
(* to a proxy or straight to its destination.                              *)
(*                                                                         *)
(* Everything runs on the single lwIP executor: native callbacks, timers,  *)
(* posted tasks and resumed coroutines.  `queue` is the executor's FIFO of *)
(* posted tasks; a native callback or a timer runs at any point between    *)
(* two of them; `dial`, `sends` and `receives` are the coroutines that     *)
(* wait for the network and resume at any time.  Data are numbered units   *)
(* standing for bytes: the app's stream is 1, 2, 3, ...                    *)
(*                                                                         *)
(* releaseProtocol cancels the scope, so no coroutine of a closed          *)
(* connection resumes normally.  What a cancelled one still posts clears a *)
(* flag of a closed connection and is left out.                            *)
(***************************************************************************)
EXTENDS Integers, Sequences, FiniteSets, SequencesExt

CONSTANTS
  Routes,        \* SUBSET {"direct", "proxy"}: what the accept path may choose
  MaxUp,         \* bound: units the app sends
  MaxDown,       \* bound: units the remote sends
  TCP_WND,       \* lwIP's receive window
  TCP_SND_BUF,   \* lwIP's send buffer
  tcpMaxPendingDataSize,
  tcpMaxCoalesceSize,
  drainLowWaterMark,
  MaxRead        \* bound: units one receive returns

ASSUME RoutesAssumption == Routes # {} /\ Routes \subseteq {"direct", "proxy"}
ASSUME SizesAssumption ==
  /\ {MaxUp, MaxDown} \subseteq Nat
  /\ {TCP_WND, TCP_SND_BUF, tcpMaxPendingDataSize, tcpMaxCoalesceSize, drainLowWaterMark,
      MaxRead} \subseteq Nat \ {0}

VARIABLES
  closed,
  sniffing,               \* sniffer != null
  bypass,                 \* the committed route is direct
  handshakeCarriesInitialData,
  connecting,             \* directConnecting / vlessConnecting
  connection,             \* directRelay / vlessConnection, by kind
  pendingData, coalesceBuffer, coalesceScheduled, coalesceFlushInFlight,
  pendingWrite, receiveInFlight, uplinkDone, downlinkDone,
  handshakeTimer, sniffDeadline,
  activityTimer,          \* "none" or the timeout it runs with
  hasActivity,
  queue, dial, sends, receives,
  drainRetries,           \* scheduled drain retries
  misuse,                 \* a native call was made after the pcb was given up
  delivered, recved, sndUsed, finSeen,  \* lwIP's side
  toLwip,                 \* the downlink units written to the pcb
  handedOver,             \* the uplink units passed to send(), in call order
  remoteOpen, remoteSent, remoteEof,    \* the outbound connection's side
  stray                   \* the dial has opened a hop that no object refers to

routeVars == <<sniffing, bypass, handshakeCarriesInitialData, connecting, connection>>
upVars == <<pendingData, coalesceBuffer, coalesceScheduled, coalesceFlushInFlight>>
downVars == <<pendingWrite, receiveInFlight>>
doneVars == <<uplinkDone, downlinkDone>>
timerVars == <<handshakeTimer, sniffDeadline, activityTimer, hasActivity>>
taskVars == <<dial, sends, receives>>
pcbVars == <<closed, misuse>>
lwipVars == <<delivered, recved, sndUsed, finSeen, toLwip>>
remoteVars == <<remoteOpen, remoteSent, remoteEof, stray>>
vars == <<routeVars, upVars, downVars, doneVars, timerVars, taskVars, pcbVars,
          lwipVars, remoteVars, queue, drainRetries, handedOver>>

None == "none"
NoDial == [kind |-> None, initialData |-> <<>>]
isEstablishing == connecting # None \/ sniffing
Post(task) == queue' = Append(queue, task)
Minimum(a, b) == IF a < b THEN a ELSE b

\* A native call through the pcb pointer: close, abort and tcp_err give the
\* pcb up, and all of them set `closed`.
Native == misuse' = (misuse \/ closed)
NoNative == UNCHANGED misuse

-----------------------------------------------------------------------------
(* beginConnecting, with pend as the contents of pendingData. *)

CarriedNow(direct, carries, pend) == IF direct \/ carries THEN pend ELSE <<>>

\* Mutant: pendingData is not reset when the handshake takes its bytes.
MutantPendingDataKept(direct, carries, pend) ==
  /\ bypass' = direct
  /\ handshakeCarriesInitialData' = carries
  /\ connecting' = IF direct THEN "direct" ELSE "proxy"
  /\ connection' = IF direct THEN "direct" ELSE connection
  /\ dial' = [kind |-> connecting', initialData |-> CarriedNow(direct, carries, pend)]
  /\ pendingData' = pend

beginConnecting(direct, carries, pend) ==
  /\ bypass' = direct
  /\ handshakeCarriesInitialData' = carries
  /\ connecting' = IF direct THEN "direct" ELSE "proxy"
  /\ connection' = IF direct THEN "direct" ELSE connection
  /\ dial' = [kind |-> connecting', initialData |-> CarriedNow(direct, carries, pend)]
  /\ pendingData' = IF direct \/ carries THEN <<>> ELSE pend

Init ==
  /\ bypass \in {r = "direct" : r \in Routes}
  /\ handshakeCarriesInitialData \in IF "proxy" \in Routes THEN BOOLEAN ELSE {FALSE}
  /\ sniffing \in BOOLEAN
  /\ connecting = IF sniffing THEN None ELSE IF bypass THEN "direct" ELSE "proxy"
  /\ connection = IF sniffing \/ ~bypass THEN None ELSE "direct"
  /\ dial = IF sniffing THEN NoDial ELSE [kind |-> connecting, initialData |-> <<>>]
  /\ pendingData = <<>> /\ coalesceBuffer = <<>>
  /\ coalesceScheduled = FALSE /\ coalesceFlushInFlight = FALSE
  /\ pendingWrite = <<>> /\ receiveInFlight = FALSE
  /\ uplinkDone = FALSE /\ downlinkDone = FALSE
  /\ handshakeTimer = TRUE /\ sniffDeadline = sniffing
  /\ activityTimer = None /\ hasActivity = FALSE
  /\ queue = <<>> /\ sends = <<>> /\ receives = 0 /\ drainRetries = 0
  /\ closed = FALSE /\ misuse = FALSE
  /\ delivered = 0 /\ recved = 0 /\ sndUsed = 0 /\ finSeen = FALSE
  /\ toLwip = <<>> /\ handedOver = <<>>
  /\ remoteOpen = FALSE /\ remoteSent = 0 /\ remoteEof = FALSE /\ stray = FALSE

-----------------------------------------------------------------------------
(* Closing.  releaseProtocol cancels the scope and the timers, empties the *)
(* buffers and cancels the outbound connection the object holds.  It does  *)
(* not reset coalesceFlushInFlight, uplinkDone or downlinkDone.            *)

releaseProtocol ==
  /\ closed' = TRUE
  /\ dial' = NoDial /\ sends' = <<>> /\ receives' = 0
  /\ handshakeTimer' = FALSE /\ sniffDeadline' = FALSE
  /\ sniffing' = FALSE
  /\ activityTimer' = None /\ hasActivity' = FALSE
  /\ connection' = None /\ connecting' = None
  /\ pendingData' = <<>> /\ pendingWrite' = <<>>
  /\ coalesceBuffer' = <<>> /\ coalesceScheduled' = FALSE
  /\ receiveInFlight' = FALSE
  /\ remoteOpen' = (remoteOpen /\ connection = None)
  /\ UNCHANGED <<bypass, handshakeCarriesInitialData, coalesceFlushInFlight,
                 handedOver>>

\* The best-effort flush of close(): feedLwip places a prefix of pw.
flushPendingToLwip(pw) ==
  \E k \in 0..Minimum(TCP_SND_BUF - sndUsed, Len(pw)) :
    /\ toLwip' = toLwip \o SubSeq(pw, 1, k)
    /\ sndUsed' = sndUsed + k

close ==
  /\ Native
  /\ flushPendingToLwip(pendingWrite)
  /\ releaseProtocol
  /\ UNCHANGED drainRetries

abort == Native /\ releaseProtocol /\ UNCHANGED <<toLwip, sndUsed, drainRetries>>

-----------------------------------------------------------------------------
(* Uplink: the app's data, from lwIP. *)

noteActivity == hasActivity' = (activityTimer # None)

\* The cap of appendPendingData: over it the connection is aborted.
OverCap(pend) == Len(pend) > tcpMaxPendingDataSize

BufferPending(pend) ==
  IF OverCap(pend) THEN abort
  ELSE /\ pendingData' = pend
       /\ NoNative
       /\ UNCHANGED <<closed, routeVars, coalesceBuffer, coalesceScheduled,
                      coalesceFlushInFlight, downVars, handshakeTimer, sniffDeadline,
                      activityTimer, taskVars, toLwip, sndUsed, remoteOpen,
                      drainRetries, handedOver>>
       /\ noteActivity

\* The route is committed: the sniffer's terminal states other than a reject.
CommitRoute(pend, direct, carries) ==
  IF OverCap(pend) THEN abort
  ELSE /\ sniffing' = FALSE /\ sniffDeadline' = FALSE
       /\ beginConnecting(direct, carries, pend)
       /\ NoNative
       /\ noteActivity
       /\ UNCHANGED <<closed, coalesceBuffer, coalesceScheduled,
                      coalesceFlushInFlight, downVars, handshakeTimer, activityTimer,
                      sends, receives, toLwip, sndUsed, remoteOpen, drainRetries,
                      handedOver>>

\* lwIP delivers the app's next unit; d is what recved gains in the callback.
TcpRecv(d) ==
  /\ ~closed /\ ~finSeen
  /\ delivered < MaxUp /\ delivered - recved < TCP_WND
  /\ delivered' = delivered + 1
  /\ recved' = recved + d
  /\ UNCHANGED <<doneVars, finSeen, remoteSent, remoteEof, stray, queue>>

Grown == Append(pendingData, delivered + 1)

\* TlsClientHelloSniffer needs more bytes.
RecvSniffNeedMore == sniffing /\ TcpRecv(0) /\ BufferPending(Grown)

\* NotTls or Unavailable, or Found with no matching rule: the route derived
\* from the address stands.  Without a sniffer, a connection that has not
\* started to dial starts now.
RecvCommit ==
  /\ sniffing \/ (connecting = None /\ connection = None)
  /\ TcpRecv(0)
  /\ CommitRoute(Grown, bypass, handshakeCarriesInitialData)

\* applySNI found a rule for the name: direct, or another configuration.
RecvSniffRule ==
  /\ sniffing
  /\ TcpRecv(0)
  /\ \E r \in Routes, c \in BOOLEAN : CommitRoute(Grown, r = "direct", c)

\* applySNI found a reject rule: rejectGracefully acknowledges what is
\* buffered, so that tcp_close sends a FIN, then closes.
RecvSniffReject ==
  /\ sniffing
  /\ ~OverCap(Grown)
  /\ TcpRecv(Len(Grown))
  /\ close

RecvWhileConnecting ==
  /\ ~sniffing /\ connecting # None
  /\ TcpRecv(0)
  /\ BufferPending(Grown)

\* Connected: coalesce, and schedule a flush unless one is due or under way.
RecvConnected ==
  /\ ~sniffing /\ connecting = None /\ connection # None
  /\ ~closed /\ ~finSeen
  /\ delivered < MaxUp /\ delivered - recved < TCP_WND
  /\ delivered' = delivered + 1
  /\ coalesceBuffer' = Append(coalesceBuffer, delivered + 1)
  /\ IF coalesceFlushInFlight \/ coalesceScheduled
     THEN UNCHANGED <<coalesceScheduled, queue>>
     ELSE coalesceScheduled' = TRUE /\ Post([task |-> "flush"])
  /\ noteActivity
  /\ UNCHANGED <<routeVars, pendingData, coalesceFlushInFlight, downVars, doneVars,
                 handshakeTimer, sniffDeadline, activityTimer, taskVars, pcbVars,
                 recved, sndUsed, finSeen, toLwip, remoteVars, drainRetries, handedOver>>

handleReceivedData ==
  \/ RecvSniffNeedMore
  \/ RecvCommit
  \/ RecvSniffRule
  \/ RecvSniffReject
  \/ RecvWhileConnecting
  \/ RecvConnected

\* The app's FIN.
handleRemoteClose ==
  /\ ~closed /\ ~finSeen
  /\ finSeen' = TRUE
  /\ UNCHANGED <<delivered, recved, downlinkDone, remoteSent, remoteEof, stray, queue>>
  /\ \/ /\ sniffing /\ pendingData = <<>>
        /\ close
        /\ UNCHANGED uplinkDone
     \/ /\ sniffing /\ pendingData # <<>>
        /\ sniffing' = FALSE /\ sniffDeadline' = FALSE
        /\ beginConnecting(bypass, handshakeCarriesInitialData, pendingData)
        /\ uplinkDone' = TRUE
        /\ NoNative
        /\ UNCHANGED <<closed, coalesceBuffer, coalesceScheduled,
                       coalesceFlushInFlight, downVars, handshakeTimer, activityTimer,
                       hasActivity, sends, receives, toLwip, sndUsed, remoteOpen,
                       drainRetries, handedOver>>
     \/ /\ ~sniffing /\ downlinkDone
        /\ uplinkDone' = TRUE
        /\ close
     \/ /\ ~sniffing /\ ~downlinkDone
        /\ uplinkDone' = TRUE
        /\ activityTimer' = IF activityTimer = None THEN None ELSE "downlinkOnly"
        /\ UNCHANGED <<routeVars, upVars, downVars, handshakeTimer, sniffDeadline,
                       hasActivity, taskVars, pcbVars, toLwip, sndUsed, remoteOpen,
                       drainRetries, handedOver>>

\* tcp_err: lwIP has already freed the pcb.
handleError ==
  /\ ~closed
  /\ releaseProtocol
  /\ UNCHANGED <<misuse, doneVars, lwipVars, remoteSent, remoteEof, stray, queue, drainRetries>>

-----------------------------------------------------------------------------
(* Coroutines that wait for the network. *)

\* A send coroutine: the chunks still to send, the first of them in flight,
\* and what it acknowledges at its end.
Coroutine(kind, chunks, totalAck) ==
  [kind |-> kind, chunks |-> chunks, totalAck |-> totalAck]

LaunchSend(co) ==
  /\ sends' = Append(sends, co)
  /\ handedOver' = handedOver \o Head(co.chunks)

\* connectChain: a hop is connected, known to the dial's coroutine alone.
\* Nothing closes it when a later hop fails or the scope is cancelled.
DialHop ==
  /\ dial.kind = "proxy" /\ ~stray
  /\ stray' = TRUE
  /\ UNCHANGED <<routeVars, upVars, downVars, doneVars, timerVars, taskVars, pcbVars,
                 lwipVars, remoteOpen, remoteSent, remoteEof, queue, drainRetries,
                 handedOver>>

\* The dial ends.  A direct relay is already held in `connection`; a proxy
\* connection holds the hops it is tunnelled through.
DialSucceeds ==
  /\ dial.kind # None
  /\ dial' = NoDial /\ stray' = FALSE
  /\ Post([task |-> "connected", kind |-> dial.kind, initialData |-> dial.initialData])
  /\ remoteOpen' = TRUE
  /\ handedOver' = IF dial.kind = "proxy" THEN handedOver \o dial.initialData
                   ELSE handedOver
  /\ UNCHANGED <<routeVars, upVars, downVars, doneVars, timerVars, sends, receives,
                 pcbVars, lwipVars, remoteSent, remoteEof, drainRetries>>

DialFails ==
  /\ dial.kind # None
  /\ dial' = NoDial
  /\ Post([task |-> "connectFailed"])
  /\ UNCHANGED <<routeVars, upVars, downVars, doneVars, timerVars, sends, receives,
                 pcbVars, lwipVars, remoteVars, drainRetries, handedOver>>

\* Mutant: every chunk of a flush is acknowledged as a full one.
MutantAckFullChunk(co) ==
  LET last == Len(co.chunks) = 1
  IN  IF co.kind = "flush"
      THEN <<[task |-> "ack", bytes |-> tcpMaxCoalesceSize]>> \o
           (IF last THEN <<[task |-> "flushDone"]>> ELSE <<>>)
      ELSE IF last THEN <<[task |-> "ack", bytes |-> co.totalAck]>> ELSE <<>>

\* What a coroutine posts when its first chunk has been sent.
PostedAfterChunk(co) ==
  LET last == Len(co.chunks) = 1
  IN  IF co.kind = "flush"
      THEN <<[task |-> "ack", bytes |-> Len(Head(co.chunks))]>> \o
           (IF last THEN <<[task |-> "flushDone"]>> ELSE <<>>)
      ELSE IF last THEN <<[task |-> "ack", bytes |-> co.totalAck]>> ELSE <<>>

\* connection.send returns: the coroutine posts, and sends its next chunk.
SendCompletes ==
  \E i \in DOMAIN sends :
    LET co == sends[i]
        rest == Tail(co.chunks)
    IN  /\ queue' = queue \o PostedAfterChunk(co)
        /\ IF rest = <<>>
           THEN sends' = RemoveAt(sends, i) /\ UNCHANGED handedOver
           ELSE /\ sends' = [sends EXCEPT ![i].chunks = rest]
                /\ handedOver' = handedOver \o Head(rest)
        /\ UNCHANGED <<routeVars, upVars, downVars, doneVars, timerVars, dial,
                       receives, pcbVars, lwipVars, remoteVars, drainRetries>>

SendFails ==
  \E i \in DOMAIN sends :
    /\ Post([task |-> "sendFailed", flush |-> sends[i].kind = "flush"])
    /\ sends' = RemoveAt(sends, i)
    /\ UNCHANGED <<routeVars, upVars, downVars, doneVars, timerVars, dial, receives,
                   pcbVars, lwipVars, remoteVars, drainRetries, handedOver>>

\* receive() returns the next units, end of file, or an error.
ReceiveReturns ==
  /\ receives > 0
  /\ receives' = receives - 1
  /\ \/ \E k \in 1..MaxRead :
          /\ ~remoteEof /\ remoteSent + k <= MaxDown
          /\ remoteSent' = remoteSent + k
          /\ Post([task |-> "received", outcome |-> "data",
                   data |-> [j \in 1..k |-> remoteSent + j]])
          /\ UNCHANGED remoteEof
     \/ /\ remoteEof' = TRUE
        /\ Post([task |-> "received", outcome |-> "eof", data |-> <<>>])
        /\ UNCHANGED remoteSent
     \/ /\ Post([task |-> "received", outcome |-> "error", data |-> <<>>])
        /\ UNCHANGED <<remoteEof, remoteSent>>
  /\ UNCHANGED <<routeVars, upVars, downVars, doneVars, timerVars, dial, sends,
                 pcbVars, lwipVars, remoteOpen, stray, drainRetries, handedOver>>

-----------------------------------------------------------------------------
(* Downlink: the remote's data, to lwIP. *)

\* tryArmReceive, after a step that left pw as the backlog and inFlight as
\* the flag; the connection is open.
tryArmReceive(pw, inFlight) ==
  IF inFlight \/ Len(pw) >= drainLowWaterMark
  THEN receiveInFlight' = inFlight /\ UNCHANGED receives
  ELSE receiveInFlight' = TRUE /\ receives' = receives + 1

\* The backlog after its first k units were placed.
MutantConsumeNoShift(pw, k) == SubSeq(pw, 1, Len(pw) - k)
consume(pw, k) == SubSeq(pw, k + 1, Len(pw))

\* How much one feedLwip may place: what fits the send buffer, or less when
\* lwIP runs out of segments (ERR_MEM).
feedLwip(pw, used) == 0..Minimum(TCP_SND_BUF - used, Len(pw))

\* Nothing placed: a delayed retry, and no receive is armed.
MutantNoRetry(inFlight, retries) ==
  drainRetries' = retries /\ receiveInFlight' = inFlight /\ UNCHANGED receives
RetryLater(inFlight, retries) ==
  drainRetries' = retries + 1 /\ receiveInFlight' = inFlight /\ UNCHANGED receives

\* drainPendingWrite over the backlog pw, with `used` units in the send
\* buffer.  A fatal tcp_write error aborts.
DrainFeeds(pw, inFlight, used, retries) ==
  /\ IF pw = <<>> THEN NoNative ELSE Native
  /\ \E k \in feedLwip(pw, used) :
       /\ toLwip' = toLwip \o SubSeq(pw, 1, k)
       /\ sndUsed' = used + k
       /\ pendingWrite' = consume(pw, k)
       /\ IF pw # <<>> /\ k = 0
          THEN RetryLater(inFlight, retries)
          ELSE /\ tryArmReceive(pendingWrite', inFlight)
               /\ drainRetries' = retries
  /\ UNCHANGED <<closed, routeVars, upVars, handshakeTimer, sniffDeadline,
                 activityTimer, dial, sends, remoteOpen, handedOver>>

DrainFatal(pw, used, retries) ==
  /\ pw # <<>>
  /\ Native
  /\ releaseProtocol
  /\ sndUsed' = used /\ drainRetries' = retries
  /\ UNCHANGED toLwip

\* drainPendingWrite from a callback or a timer.
drainPendingWrite(used, retries) ==
  \/ /\ DrainFeeds(pendingWrite, receiveInFlight, used, retries)
     /\ UNCHANGED hasActivity
  \/ DrainFatal(pendingWrite, used, retries)

\* The app acknowledges k units, which leave the send buffer first.
handleSent ==
  /\ ~closed
  /\ \E k \in 1..sndUsed : drainPendingWrite(sndUsed - k, drainRetries)
  /\ UNCHANGED <<doneVars, delivered, recved, finSeen, remoteSent, remoteEof, stray, queue>>

DrainRetryFires ==
  /\ drainRetries > 0
  /\ IF closed
     THEN /\ drainRetries' = drainRetries - 1
          /\ UNCHANGED <<routeVars, upVars, downVars, timerVars, taskVars, pcbVars,
                         sndUsed, toLwip, remoteOpen, handedOver>>
     ELSE drainPendingWrite(sndUsed, drainRetries - 1)
  /\ UNCHANGED <<doneVars, delivered, recved, finSeen, remoteSent, remoteEof, stray, queue>>

-----------------------------------------------------------------------------
(* Timers.  Durations are not modelled: an armed timer may fire any time.  *)

\* Mutant: the handshake timeout covers the dial but not the sniff.
MutantDialOnly ==
  /\ handshakeTimer
  /\ IF connecting # None THEN abort
     ELSE /\ handshakeTimer' = FALSE
          /\ UNCHANGED <<routeVars, upVars, downVars, sniffDeadline, activityTimer,
                         hasActivity, taskVars, pcbVars, toLwip, sndUsed, remoteOpen,
                         drainRetries, handedOver>>
  /\ UNCHANGED <<doneVars, delivered, recved, finSeen, remoteSent, remoteEof, stray, queue>>

HandshakeTimerFires ==
  /\ handshakeTimer
  /\ IF isEstablishing THEN abort
     ELSE /\ handshakeTimer' = FALSE
          /\ UNCHANGED <<routeVars, upVars, downVars, sniffDeadline, activityTimer,
                         hasActivity, taskVars, pcbVars, toLwip, sndUsed, remoteOpen,
                         drainRetries, handedOver>>
  /\ UNCHANGED <<doneVars, delivered, recved, finSeen, remoteSent, remoteEof, stray, queue>>

SniffDeadlineFires ==
  /\ sniffDeadline /\ sniffing
  /\ sniffDeadline' = FALSE /\ sniffing' = FALSE
  /\ beginConnecting(bypass, handshakeCarriesInitialData, pendingData)
  /\ UNCHANGED <<coalesceBuffer, coalesceScheduled, coalesceFlushInFlight, downVars,
                 doneVars, handshakeTimer, activityTimer, hasActivity, sends, receives,
                 pcbVars, lwipVars, remoteVars, queue, drainRetries, handedOver>>

\* ActivityTimer's periodic tick: close unless there was activity since the
\* last one.
ActivityTimerTicks ==
  /\ activityTimer # None
  /\ IF hasActivity
     THEN /\ hasActivity' = FALSE
          /\ UNCHANGED <<routeVars, upVars, downVars, handshakeTimer, sniffDeadline,
                         activityTimer, taskVars, pcbVars, toLwip, sndUsed, remoteOpen,
                         drainRetries, handedOver>>
     ELSE close
  /\ UNCHANGED <<doneVars, delivered, recved, finSeen, remoteSent, remoteEof, stray, queue>>

-----------------------------------------------------------------------------
(* Tasks posted to the executor, run in the order they were posted. *)

Take(kind) == queue # <<>> /\ Head(queue).task = kind
PopQueue == queue' = Tail(queue)

\* A task that finds the connection closed, or has nothing left to do.
NoEffect == UNCHANGED <<routeVars, upVars, downVars, doneVars, timerVars, taskVars,
                        pcbVars, lwipVars, remoteVars, drainRetries, handedOver>>

ackBytesToLwip(bytes) == recved' = recved + bytes

\* Mutant: the acknowledgement does not check `closed` again.
MutantAckUnchecked ==
  /\ Take("ack") /\ PopQueue
  /\ Native
  /\ ackBytesToLwip(Head(queue).bytes)
  /\ UNCHANGED <<routeVars, upVars, downVars, doneVars, timerVars, taskVars,
                 closed, delivered, sndUsed, finSeen, toLwip, remoteVars,
                 drainRetries, handedOver>>

TaskAck ==
  /\ Take("ack") /\ PopQueue
  /\ IF closed THEN NoEffect
     ELSE /\ Native
          /\ ackBytesToLwip(Head(queue).bytes)
          /\ UNCHANGED <<routeVars, upVars, downVars, doneVars, timerVars, taskVars,
                         closed, delivered, sndUsed, finSeen, toLwip, remoteVars,
                         drainRetries, handedOver>>

\* The chunks of at most tcpMaxCoalesceSize one flush sends.
Chunks(buf) ==
  LET n == (Len(buf) + tcpMaxCoalesceSize - 1) \div tcpMaxCoalesceSize
  IN  [i \in 1..n |-> SubSeq(buf, (i - 1) * tcpMaxCoalesceSize + 1,
                                  Minimum(i * tcpMaxCoalesceSize, Len(buf)))]

flushCoalesceBuffer ==
  /\ coalesceBuffer' = <<>> /\ coalesceScheduled' = FALSE
  /\ IF closed \/ coalesceBuffer = <<>> \/ connection = None
     THEN UNCHANGED <<sends, handedOver, coalesceFlushInFlight>>
     ELSE /\ coalesceFlushInFlight' = TRUE
          /\ LaunchSend(Coroutine("flush", Chunks(coalesceBuffer), 0))
  /\ UNCHANGED <<routeVars, pendingData, downVars, doneVars, timerVars, dial, receives,
                 pcbVars, lwipVars, remoteVars, drainRetries>>

TaskFlush == Take("flush") /\ PopQueue /\ flushCoalesceBuffer

\* Mutant: what accumulated during the flush is not flushed.
MutantNoReflush ==
  /\ Take("flushDone") /\ PopQueue
  /\ coalesceFlushInFlight' = FALSE
  /\ UNCHANGED <<routeVars, pendingData, coalesceBuffer, coalesceScheduled,
                 downVars, doneVars, timerVars, taskVars, pcbVars, lwipVars,
                 remoteVars, drainRetries, handedOver>>

\* The flush ended: data that accumulated meanwhile is flushed at once.
TaskFlushDone ==
  /\ Take("flushDone") /\ PopQueue
  /\ IF ~closed /\ coalesceBuffer # <<>> THEN flushCoalesceBuffer
     ELSE /\ coalesceFlushInFlight' = FALSE
          /\ UNCHANGED <<routeVars, pendingData, coalesceBuffer, coalesceScheduled,
                         downVars, doneVars, timerVars, taskVars, pcbVars, lwipVars,
                         remoteVars, drainRetries, handedOver>>

TaskSendFailed ==
  /\ Take("sendFailed") /\ PopQueue
  /\ IF closed THEN NoEffect
     ELSE abort /\ UNCHANGED <<doneVars, delivered, recved, finSeen, remoteSent, remoteEof, stray>>

TaskConnectFailed ==
  /\ Take("connectFailed") /\ PopQueue
  /\ IF closed THEN NoEffect
     ELSE abort /\ UNCHANGED <<doneVars, delivered, recved, finSeen, remoteSent, remoteEof, stray>>

\* Mutant: the late connection is dropped without being cancelled.
MutantLateNotCancelled == Take("connected") /\ PopQueue /\ closed /\ NoEffect

\* The dial's result reaches a connection closed meanwhile: a proxy
\* connection nobody else holds is cancelled here.
TaskConnectedTooLate ==
  /\ Take("connected") /\ PopQueue
  /\ closed
  /\ remoteOpen' = FALSE
  /\ UNCHANGED <<routeVars, upVars, downVars, doneVars, timerVars, taskVars, pcbVars,
                 lwipVars, remoteSent, remoteEof, stray, drainRetries, handedOver>>

\* The handshake timer gives way to the activity timer.
StartActivityTimer ==
  handshakeTimer' = FALSE /\ activityTimer' = "idle" /\ hasActivity' = FALSE

\* onProxyConnected, or the end of connectDirect: what was buffered is sent
\* by one coroutine, which acknowledges it together with what the handshake
\* carried; with nothing left to send, that is acknowledged at once.
TaskConnected ==
  LET kind == Head(queue).kind
      initial == Head(queue).initialData
      total == Len(initial) + Len(pendingData)
      chunks == (IF kind = "direct" /\ initial # <<>> THEN <<initial>> ELSE <<>>) \o
                (IF pendingData # <<>> THEN <<pendingData>> ELSE <<>>)
  IN  /\ Take("connected") /\ PopQueue
      /\ ~closed
      /\ connecting' = None /\ connection' = kind
      /\ StartActivityTimer
      /\ pendingData' = <<>>
      /\ IF chunks # <<>>
         THEN LaunchSend(Coroutine("initial", chunks, total)) /\ NoNative /\ UNCHANGED recved
         ELSE /\ UNCHANGED <<sends, handedOver>>
              /\ IF initial # <<>> THEN Native /\ ackBytesToLwip(Len(initial))
                 ELSE NoNative /\ UNCHANGED recved
      /\ tryArmReceive(pendingWrite, receiveInFlight)
      /\ UNCHANGED <<sniffing, bypass, handshakeCarriesInitialData, coalesceBuffer,
                     coalesceScheduled, coalesceFlushInFlight, pendingWrite, doneVars,
                     sniffDeadline, dial, closed, delivered, sndUsed, finSeen, toLwip,
                     remoteVars, drainRetries>>

TaskReceivedData ==
  /\ Take("received") /\ PopQueue
  /\ IF closed THEN NoEffect
     ELSE /\ Head(queue).outcome = "data"
          /\ LET pw == pendingWrite \o Head(queue).data
             IN  \/ DrainFeeds(pw, FALSE, sndUsed, drainRetries) /\ noteActivity
                 \/ DrainFatal(pw, sndUsed, drainRetries)
          /\ UNCHANGED <<doneVars, delivered, recved, finSeen, remoteSent, remoteEof, stray>>

EndDownlink(bothDone) ==
  /\ Take("received") /\ PopQueue
  /\ ~closed /\ Head(queue).outcome = "eof"
  /\ downlinkDone' = TRUE
  /\ IF bothDone THEN close
     ELSE /\ activityTimer' = "uplinkOnly"
          /\ receiveInFlight' = FALSE
          /\ UNCHANGED <<routeVars, upVars, pendingWrite, handshakeTimer, sniffDeadline,
                         hasActivity, taskVars, pcbVars, toLwip, sndUsed, remoteOpen,
                         drainRetries, handedOver>>
  /\ UNCHANGED <<uplinkDone, delivered, recved, finSeen, remoteSent, remoteEof, stray>>

TaskReceivedEof == EndDownlink(uplinkDone)

TaskReceiveError ==
  /\ Take("received") /\ PopQueue
  /\ ~closed /\ Head(queue).outcome = "error"
  /\ abort
  /\ UNCHANGED <<doneVars, delivered, recved, finSeen, remoteSent, remoteEof, stray>>

RunTask ==
  \/ TaskAck
  \/ TaskFlush
  \/ TaskFlushDone
  \/ TaskSendFailed
  \/ TaskConnectFailed
  \/ TaskConnectedTooLate
  \/ TaskConnected
  \/ TaskReceivedData
  \/ TaskReceivedEof
  \/ TaskReceiveError

-----------------------------------------------------------------------------

Callback == handleReceivedData \/ handleRemoteClose \/ handleSent \/ handleError
Network == DialHop \/ DialSucceeds \/ DialFails \/ SendCompletes \/ SendFails \/ ReceiveReturns
Timer == \/ HandshakeTimerFires
         \/ SniffDeadlineFires
         \/ ActivityTimerTicks
         \/ DrainRetryFires

Next == Callback \/ Network \/ Timer \/ RunTask

\* The executor runs what is posted, and timers fire; the network and the
\* app promise nothing.
Fairness ==
  /\ WF_vars(RunTask)
  /\ WF_vars(HandshakeTimerFires)
  /\ WF_vars(ActivityTimerTicks)

Spec == Init /\ [][Next]_vars
FairSpec == Spec /\ Fairness
-----------------------------------------------------------------------------

Tasks == {queue[i] : i \in DOMAIN queue}
Pending(kind) == \E t \in Tasks : t.task = kind
Sum(s) ==
  LET sum[n \in 0..Len(s)] == IF n = 0 THEN 0 ELSE sum[n - 1] + s[n]
  IN  sum[Len(s)]

TaskRecord ==
  [task : {"ack"}, bytes : Nat]
    \cup [task : {"flush", "flushDone", "connectFailed"}]
    \cup [task : {"sendFailed"}, flush : BOOLEAN]
    \cup [task : {"connected"}, kind : {"direct", "proxy"}, initialData : Seq(1..MaxUp)]
    \cup [task : {"received"}, outcome : {"data", "eof", "error"}, data : Seq(1..MaxDown)]
SendRecord ==
  [kind : {"initial", "flush"}, chunks : Seq(Seq(1..MaxUp)), totalAck : Nat]

TypeOK ==
  /\ {closed, sniffing, bypass, handshakeCarriesInitialData, coalesceScheduled,
      coalesceFlushInFlight, receiveInFlight, uplinkDone, downlinkDone, handshakeTimer,
      sniffDeadline, hasActivity, misuse, finSeen, remoteOpen, remoteEof,
      stray} \subseteq BOOLEAN
  /\ {connecting, connection} \subseteq {None, "direct", "proxy"}
  /\ dial \in [kind : {None, "direct", "proxy"}, initialData : Seq(1..MaxUp)]
  /\ activityTimer \in {None, "idle", "uplinkOnly", "downlinkOnly"}
  /\ {receives, drainRetries, recved} \subseteq Nat
  /\ delivered \in 0..MaxUp /\ remoteSent \in 0..MaxDown
  /\ sndUsed \in 0..TCP_SND_BUF
  /\ {pendingData, coalesceBuffer, handedOver} \subseteq Seq(1..MaxUp)
  /\ {pendingWrite, toLwip} \subseteq Seq(1..MaxDown)
  /\ sends \in Seq(SendRecord) /\ queue \in Seq(TaskRecord)

(* While the connection is open and no failure is waiting to abort it,     *)
(* every unit lwIP delivered is either acknowledged or held in exactly one *)
(* place that will acknowledge it: the window neither leaks (a stall) nor  *)
(* is credited twice (an overflow of lwIP's window arithmetic), whatever   *)
(* the order of dial, sends, flush and new data (ackBytesToLwip and all    *)
(* its callers).                                                           *)
HeldByCoroutine(co) ==
  IF co.kind = "flush" THEN Sum([j \in DOMAIN co.chunks |-> Len(co.chunks[j])])
  ELSE co.totalAck
HeldByTask(t) ==
  CASE t.task = "ack" -> t.bytes
    [] t.task = "connected" -> Len(t.initialData)
    [] OTHER -> 0
HeldBySends == Sum([i \in DOMAIN sends |-> HeldByCoroutine(sends[i])])
HeldByQueue == Sum([i \in DOMAIN queue |-> HeldByTask(queue[i])])
WindowConserved ==
  (~closed /\ ~Pending("connectFailed") /\ ~Pending("sendFailed")) =>
    delivered = recved + Len(pendingData) + Len(coalesceBuffer)
                + Len(dial.initialData) + HeldBySends + HeldByQueue

(* Buffered uplink data always has something under way that will send it:  *)
(* pendingData is drained by the end of the dial or sniff, coalesceBuffer  *)
(* by a flush that is posted or in flight (handleReceivedData,             *)
(* flushCoalesceBuffer).                                                   *)
NoStrandedUplink ==
  ~closed =>
    /\ pendingData # <<>> => isEstablishing
    /\ coalesceBuffer # <<>> =>
         \/ Pending("flush") \/ Pending("flushDone") \/ Pending("sendFailed")
         \/ \E i \in DOMAIN sends : sends[i].kind = "flush"

(* The remote's units reach lwIP in order, each once: what was written and *)
(* the backlog are its first units, and what is still missing is the data  *)
(* of the one receive that waits in the executor's queue (writeToLwip,     *)
(* drainPendingWrite, tryArmReceive).                                      *)
fed == toLwip \o pendingWrite
DownlinkInOrder ==
  ~closed =>
    /\ Len(fed) <= remoteSent
    /\ \A n \in DOMAIN fed : fed[n] = n
    /\ ~Pending("received") => Len(fed) = remoteSent
    /\ \A i \in DOMAIN queue : queue[i].task = "received" =>
         /\ queue[i].data = [n \in 1..remoteSent - Len(fed) |-> Len(fed) + n]
         /\ \A j \in DOMAIN queue : queue[j].task = "received" => j = i

(* An open, connected downlink that has not ended never stalls: a receive  *)
(* is under way, or the app's next acknowledgement or a scheduled retry    *)
(* will resume the drain (drainPendingWrite's skipped tryArmReceive).      *)
DownlinkNeverStalls ==
  (~closed /\ activityTimer # None /\ ~downlinkDone) =>
    receives > 0 \/ Pending("received") \/ sndUsed > 0 \/ drainRetries > 0

(* No task, timer or callback that runs after the connection was closed    *)
(* touches the pcb lwIP has freed.                                         *)
NoUseAfterClose == ~misuse

(* A dial that completes while the connection is being closed does not     *)
(* leak what it returned: once the executor is idle, no connection that a  *)
(* dial handed over stays open (onProxyConnected's closed branch,          *)
(* releaseProtocol).                                                       *)
NoOrphanConnection == closed /\ queue = <<>> => ~remoteOpen

(* The same of the hops a dial through a chain has connected so far.  Not  *)
(* true: connectChain closes none of them when a later hop fails or the    *)
(* scope is cancelled.                                                     *)
NoOrphanHop == closed /\ queue = <<>> => ~stray

(* "Byte order is preserved": the uplink units are passed to send() in the *)
(* order the app sent them.                                                *)
UplinkInOrder == \A i \in DOMAIN handedOver : handedOver[i] = i

(* On the proxy route they are, across the handshake, the follow-up of the *)
(* dial and successive flushes, and what may overlap is bounded: one flush *)
(* and one initial send at most (connectProxy, onProxyConnected,           *)
(* flushCoalesceBuffer).  It is the order of the calls to send(): the two  *)
(* that overlap may still meet inside the protocol, see SerialSends.       *)
ProxyUplinkInOrder ==
  /\ bypass \/ UplinkInOrder
  /\ \A i, j \in DOMAIN sends : sends[i].kind = sends[j].kind => i = j

(* "We never spawn a parallel send", "strictly serial send calls, a hard   *)
(* requirement": at most one send() is under way.  Not true: the follow-up *)
(* of the dial is a coroutine flushCoalesceBuffer does not know of.        *)
SerialSends == Len(sends) <= 1

(* "Timeout after uplink (local -> remote) finishes": a connected          *)
(* connection whose uplink has ended runs with the downlink-only timeout.  *)
HalfCloseTimed ==
  (~closed /\ uplinkDone /\ ~downlinkDone /\ activityTimer # None)
    => activityTimer = "downlinkOnly"

(* When the app and the remote fall silent the connection is closed: the   *)
(* timers reclaim it whatever the network does.                            *)
EventuallyClosed == <>closed
=============================================================================
