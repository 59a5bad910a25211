------------------------------ MODULE UdpFlows ------------------------------
(***************************************************************************)
(* vpn/LwipUdpFlow.kt and the flow table of vpn/LwipStack.kt.              *)
(*                                                                         *)
(* A datagram whose key (source and destination) is not in the table makes *)
(* a flow, which connects outward by one of its paths.  All of it runs on  *)
(* the lwIP executor; dials, receive loops and mux sessions report back by *)
(* posting tasks to it.                                                    *)
(***************************************************************************)
EXTENDS Integers, Sequences, FiniteSets, SequencesExt

CONSTANTS
  Keys,
  Paths,            \* how a flow goes out, a subset of AllPaths
  MAX_UDP_FLOWS,
  udpMaxBufferSize, \* in datagrams
  MaxFlows          \* bound: flows ever created

\* A "proxy" flow has a connection of its own (chained or not).  The last two
\* are refused on the spot: Vision drops UDP to port 443, and a Shadowsocks
\* configuration may have unusable credentials.
AllPaths == {"direct", "proxy", "mux", "shadowsocks", "vision443", "badCredentials"}

ASSUME PathAssumption == Paths \subseteq AllPaths
ASSUME KeyAssumption == Keys # {}
ASSUME LimitAssumption == {MAX_UDP_FLOWS, udpMaxBufferSize, MaxFlows} \subseteq Nat \ {0}

VARIABLES
  udpFlows,   \* the table: key to flow, or 0
  flow,       \* the flow objects
  created,    \* how many there are
  queue       \* tasks posted to the executor

vars == <<udpFlows, flow, created, queue>>
Ids == 1..MaxFlows

\* held: the flow object refers to its relay, connection or session.
\* open: that outbound end exists and has not been cancelled.
\* gone: a mux session was closed by the server or by its client.
\* receiver: the coroutine inside startReceiving (proxy path).
\* stray: the dial has opened something that no flow object refers to.
\* cut: a relay was cancelled while its connect() ran on Dispatchers.IO.
NewFlow(key, path) ==
  [key |-> key, path |-> path, closed |-> FALSE, proxyConnecting |-> FALSE,
   dialing |-> FALSE, held |-> FALSE, open |-> FALSE, gone |-> FALSE,
   receiver |-> "none", pendingData |-> 0, stray |-> FALSE, cut |-> FALSE]

Init ==
  /\ udpFlows = [k \in Keys |-> 0]
  /\ flow \in [Ids -> {NewFlow(CHOOSE k \in Keys : TRUE, "direct")}]
  /\ created = 0 /\ queue = <<>>

Task(kind, f) == [task |-> kind, id |-> f]
Listed == {udpFlows[k] : k \in Keys} \ {0}

-----------------------------------------------------------------------------
(* Closing. *)

\* releaseProtocol: the scope is cancelled, so a dial ends without a word,
\* and a receive loop ends through its error handler.  What the dial alone
\* knew of stays open, and a relay's blocking connect() runs on.
releaseProtocol(r) ==
  [r EXCEPT !.held = FALSE, !.proxyConnecting = FALSE, !.dialing = FALSE,
            !.pendingData = 0, !.open = IF r.held THEN FALSE ELSE @,
            !.receiver = IF @ = "live" THEN "cancelled" ELSE @,
            !.cut = @ \/ (r.dialing /\ r.path = "direct")]

close(r) == IF r.closed THEN r ELSE [releaseProtocol(r) EXCEPT !.closed = TRUE]

\* Closing a mux session that is still open calls its closeHandler, which
\* posts; S is the set of flows being closed.
CloseHandlers(S) ==
  LET calling == {f \in S : ~flow[f].closed /\ flow[f].path = "mux"
                            /\ flow[f].held /\ ~flow[f].gone}
  IN  SetToSeq({Task("ended", f) : f \in calling})

CloseFlows(S) == flow' = [f \in Ids |-> IF f \in S THEN close(flow[f]) ELSE flow[f]]
Forget(S) == udpFlows' = [k \in Keys |-> IF udpFlows[k] \in S THEN 0 ELSE udpFlows[k]]

\* The cleanup timer: any of the flows may have been idle long enough.
udpCleanup ==
  \E S \in SUBSET Listed :
    /\ S # {}
    /\ CloseFlows(S)
    /\ Forget(S)
    /\ queue' = queue \o CloseHandlers(S)
    /\ UNCHANGED created

\* handleWake and shutdownInternal: every flow of the table.
TearDown ==
  /\ Listed # {}
  /\ CloseFlows(Listed)
  /\ udpFlows' = [k \in Keys |-> 0]
  /\ queue' = queue \o CloseHandlers(Listed)
  /\ UNCHANGED created

-----------------------------------------------------------------------------
(* A datagram from the app. *)

\* bufferPayload drops what would exceed the limit.
bufferPayload(r) ==
  IF r.pendingData + 1 > udpMaxBufferSize THEN r
  ELSE [r EXCEPT !.pendingData = @ + 1]

\* A direct flow holds its relay from the start.
connectDirectUdp(r) ==
  [r EXCEPT !.proxyConnecting = TRUE, !.dialing = TRUE, !.held = TRUE]

\* The connection or mux session of the other dials comes with their result.
connectProxyNonMux(r) == [r EXCEPT !.proxyConnecting = TRUE, !.dialing = TRUE]

\* A Shadowsocks flow joins the shared session at once and sends what is
\* buffered; there is no session without usable credentials.
connectShadowsocksUdp(r) ==
  IF r.path = "badCredentials" THEN close(r)
  ELSE [r EXCEPT !.held = TRUE, !.open = TRUE, !.pendingData = 0]

\* Vision's refusal of UDP/443 only sets `closed`.
connectProxy(r) ==
  CASE r.path = "direct"                          -> connectDirectUdp(r)
    [] r.path \in {"shadowsocks", "badCredentials"} -> connectShadowsocksUdp(r)
    [] r.path = "vision443"                       -> [r EXCEPT !.closed = TRUE]
    [] r.path \in {"proxy", "mux"}                -> connectProxyNonMux(r)

handleReceivedData(r) ==
  IF r.closed THEN r
  ELSE IF r.proxyConnecting THEN bufferPayload(r)
  ELSE IF r.held THEN r
  ELSE connectProxy(bufferPayload(r))

DatagramToFlow ==
  \E k \in Keys :
    /\ udpFlows[k] # 0
    /\ flow' = [flow EXCEPT ![udpFlows[k]] = handleReceivedData(@)]
    /\ UNCHANGED <<udpFlows, created, queue>>

TableHasRoom == Cardinality(Listed) < MAX_UDP_FLOWS

DatagramNewFlow ==
  /\ created < MaxFlows
  /\ TableHasRoom
  /\ created' = created + 1
  /\ \E k \in Keys, path \in Paths :
       /\ udpFlows[k] = 0
       /\ LET r == handleReceivedData(NewFlow(k, path))
          IN  /\ flow' = [flow EXCEPT ![created'] = r]
              /\ udpFlows' = [udpFlows EXCEPT ![k] = IF r.closed THEN 0 ELSE created']
  /\ UNCHANGED queue

onUdpRecv == DatagramToFlow \/ DatagramNewFlow

-----------------------------------------------------------------------------
(* The network, and the coroutines that wait for it. *)

\* A hop of a chain is connected, for the next one to go through; or the
\* connect() of a relay's channel throws, and the next address is tried.
DialOpens ==
  \E f \in Ids :
    /\ flow[f].dialing /\ flow[f].path \in {"direct", "proxy"}
    /\ flow' = [flow EXCEPT ![f].stray = TRUE]
    /\ UNCHANGED <<udpFlows, created, queue>>

\* A relay sets its channel after cancel() found none to close.
CutDialOpens ==
  \E f \in Ids :
    /\ flow[f].cut
    /\ flow' = [flow EXCEPT ![f].cut = FALSE, ![f].stray = TRUE]
    /\ UNCHANGED <<udpFlows, created, queue>>

\* The hops belong to the connection that goes through them.
DialSucceeds ==
  \E f \in Ids :
    /\ flow[f].dialing
    /\ flow' = [flow EXCEPT ![f].dialing = FALSE, ![f].open = TRUE,
                            ![f].stray = @ /\ flow[f].path = "direct"]
    /\ queue' = Append(queue, Task("connected", f))
    /\ UNCHANGED <<udpFlows, created>>

DialFails ==
  \E f \in Ids :
    /\ flow[f].dialing
    /\ flow' = [flow EXCEPT ![f].dialing = FALSE]
    /\ queue' = Append(queue, Task("connectFailed", f))
    /\ UNCHANGED <<udpFlows, created>>

\* The server or the network ends a mux session; before the flow has set its
\* handlers nobody is told.
MuxSessionEnds ==
  \E f \in Ids :
    /\ flow[f].path = "mux" /\ flow[f].open /\ ~flow[f].gone
    /\ flow' = [flow EXCEPT ![f].gone = TRUE]
    /\ queue' = IF flow[f].held THEN Append(queue, Task("ended", f)) ELSE queue
    /\ UNCHANGED <<udpFlows, created>>

ShadowsocksSessionFails ==
  \E f \in Ids :
    /\ flow[f].path = "shadowsocks" /\ flow[f].held
    /\ queue' = Append(queue, Task("ended", f))
    /\ ~\E i \in DOMAIN queue : queue[i] = Task("ended", f)
    /\ UNCHANGED <<udpFlows, flow, created>>

\* startReceiving ends, with an error, end of file or a cancellation, and
\* calls its error handler in each case.
ReceiverEnds ==
  \E f \in Ids :
    /\ flow[f].receiver \in {"live", "cancelled"}
    /\ flow' = [flow EXCEPT ![f].receiver = "none"]
    /\ queue' = Append(queue, Task("ended", f))
    /\ UNCHANGED <<udpFlows, created>>

-----------------------------------------------------------------------------
(* Tasks posted to the executor. *)

Take(kind) == queue # <<>> /\ Head(queue).task = kind
Subject == Head(queue).id

\* Mutant: a session that arrives after the flow was closed is kept.
MutantLateSessionKept(r) == [r EXCEPT !.proxyConnecting = FALSE]
\* The flow was closed meanwhile: the new connection or session is ended.
ConnectedTooLate(r) == [r EXCEPT !.proxyConnecting = FALSE, !.open = FALSE]

\* Mutant: the buffered datagrams stay in pendingData.
MutantPendingNotCleared(r) ==
  [r EXCEPT !.proxyConnecting = FALSE, !.held = TRUE,
            !.receiver = IF r.path = "proxy" THEN "live" ELSE @]
\* What was buffered is sent, and a proxy connection gets its receive loop.
Connected(r) ==
  [r EXCEPT !.proxyConnecting = FALSE, !.held = TRUE, !.pendingData = 0,
            !.receiver = IF r.path = "proxy" THEN "live" ELSE @]

\* The mux session was closed before the flow could set its handlers.
ConnectedGone(r) == [releaseProtocol(r) EXCEPT !.open = FALSE]

TaskConnected ==
  /\ Take("connected")
  /\ queue' = Tail(queue)
  /\ LET f == Subject
         r == flow[f]
     IN  /\ flow' = [flow EXCEPT ![f] = IF r.closed THEN ConnectedTooLate(r)
                                        ELSE IF r.gone THEN ConnectedGone(r)
                                        ELSE Connected(r)]
         /\ udpFlows' = IF ~r.closed /\ r.gone THEN [udpFlows EXCEPT ![r.key] = 0] ELSE udpFlows
  /\ UNCHANGED created

\* Mutant: the flow of a failed dial stays in the table.
MutantFailedStaysListed ==
  /\ Take("connectFailed")
  /\ queue' = Tail(queue)
  /\ flow' = [flow EXCEPT ![Subject] = close(@)]
  /\ UNCHANGED <<udpFlows, created>>

\* A failed dial: direct closes the flow, the other paths only release it.
TaskConnectFailed ==
  /\ Take("connectFailed")
  /\ queue' = Tail(queue)
  /\ LET f == Subject
         r == flow[f]
     IN  IF r.closed
         THEN /\ flow' = [flow EXCEPT ![f].proxyConnecting = FALSE]
              /\ UNCHANGED udpFlows
         ELSE /\ flow' = [flow EXCEPT ![f] = IF r.path = "direct" THEN close(r)
                                             ELSE releaseProtocol(r)]
              /\ udpFlows' = [udpFlows EXCEPT ![r.key] = 0]
  /\ UNCHANGED created

\* The end of a receive loop or session: close the flow and remove its key.
\* Only the Shadowsocks handler looks at `closed` first.
TaskEnded ==
  /\ Take("ended")
  /\ LET f == Subject
         r == flow[f]
     IN  /\ queue' = Tail(queue) \o CloseHandlers({f})
         /\ IF r.path = "shadowsocks" /\ r.closed THEN UNCHANGED <<flow, udpFlows>>
            ELSE CloseFlows({f}) /\ udpFlows' = [udpFlows EXCEPT ![r.key] = 0]
  /\ UNCHANGED created

RunTask == TaskConnected \/ TaskConnectFailed \/ TaskEnded
Network == \/ DialOpens
           \/ CutDialOpens
           \/ DialSucceeds
           \/ DialFails
           \/ MuxSessionEnds
           \/ ShadowsocksSessionFails
           \/ ReceiverEnds

Next == onUdpRecv \/ Network \/ RunTask \/ udpCleanup \/ TearDown
Spec == Init /\ [][Next]_vars

-----------------------------------------------------------------------------

Queued(kind, f) == \E i \in DOMAIN queue : queue[i] = Task(kind, f)

FlowRecord ==
  [key : Keys, path : AllPaths, closed : BOOLEAN, proxyConnecting : BOOLEAN,
   dialing : BOOLEAN, held : BOOLEAN, open : BOOLEAN, gone : BOOLEAN,
   receiver : {"none", "live", "cancelled"}, pendingData : 0..udpMaxBufferSize,
   stray : BOOLEAN, cut : BOOLEAN]
TaskRecord == [task : {"connected", "connectFailed", "ended"}, id : Ids]

TypeOK ==
  /\ udpFlows \in [Keys -> 0..MaxFlows]
  /\ flow \in [Ids -> FlowRecord]
  /\ created \in 0..MaxFlows
  /\ queue \in Seq(TaskRecord)

(* No datagram is swallowed by a flow that is closed: a flow that closes   *)
(* itself, for any reason and at any point, leaves the table with it       *)
(* (close() and udpFlows.remove go together on every path).                *)
NoClosedFlowListed == \A f \in Listed : ~flow[f].closed

(* An open flow buffers datagrams only while something will send or drop   *)
(* them: its dial is under way, or the outcome is on its way to the        *)
(* executor.                                                               *)
BufferedHasOutcome ==
  \A f \in Ids : flow[f].pendingData > 0 /\ ~flow[f].closed =>
    flow[f].dialing \/ Queued("connected", f) \/ Queued("connectFailed", f)

(* The relay, connection or session that a dial came to its end with does  *)
(* not outlive its flow, also when the dial ends after the close (the      *)
(* closed branches of connectProxy's tasks).  What a dial that does not    *)
(* come to its end has opened is NoStrayEnd's subject.                     *)
NoOrphanOutbound ==
  \A f \in Ids : flow[f].closed /\ ~Queued("connected", f) => ~flow[f].open

(* A dial that fails or is cancelled leaves nothing open.  Not true: the   *)
(* hops connectUdpChain keeps in previousConnection have no other owner,   *)
(* and DirectUdpRelay.connectToAddress may set its channel after cancel(). *)
NoStrayEnd == \A f \in Ids : ~flow[f].dialing => ~flow[f].stray

(* The table never holds more than MAX_UDP_FLOWS flows.                    *)
TableBounded == Cardinality(Listed) <= MAX_UDP_FLOWS

(* "Active UDP flows keyed by 5-tuple": a flow that still connects or has  *)
(* an outbound end is in the table, where the cleanup timer, a wake or a   *)
(* shutdown will find it.                                                  *)
ActiveFlowListed ==
  \A f \in Ids : ~flow[f].closed /\ (flow[f].dialing \/ flow[f].held)
                 => udpFlows[flow[f].key] = f
=============================================================================
