----------------------------- MODULE MuxClient -----------------------------
(***************************************************************************)
(* vpn/protocol/mux/MuxClient.kt, MuxSession.kt and MuxManager.kt, and the *)
(* part of vpn/LwipUdpFlow.kt that asks for a session and holds it.        *)
(*                                                                         *)
(* A flow's call of dispatch is a coroutine of the flow: `phase` says      *)
(* where it is suspended.  Everything runs on the lwIP executor, so a step *)
(* is what happens between two suspensions.  Tasks and resumptions that    *)
(* wait for the executor run in any order here, which the code's FIFO      *)
(* only narrows; frames keep the order in which they were launched.        *)
(*                                                                         *)
(* Cancelling a coroutine ends it with an exception where it waits for the *)
(* deferred or for the write lock.  A send under way is not cancellable    *)
(* (NioSocket.send), and a dial may throw or still come to its end: until  *)
(* the TLS handshake is done VlessClient.cancel does not know the socket.  *)
(***************************************************************************)
EXTENDS Integers, Sequences, FiniteSets, SequencesExt

CONSTANTS
  XudpModes,    \* the values of xudpEnabled to consider
  MaxSessions,  \* bound: sessions asked for, fewer than there are session ids
  MaxClients,   \* bound: clients created
  MaxSends      \* bound: datagrams of one flow

ASSUME XudpAssumption == XudpModes # {} /\ XudpModes \subseteq BOOLEAN
ASSUME BoundAssumption == {MaxSessions, MaxClients, MaxSends} \subseteq Nat \ {0}

VARIABLES
  xudpEnabled,  \* of the configuration: every flow has a GlobalID
  client,     \* the MuxClient objects
  session,    \* the MuxSession objects, each with the flow that asked for it
  clients,    \* MuxManager.clients, a list in the order of their numbers
  created, asked,   \* how many objects there are
  wire        \* per session, its frames that were sent

vars == <<xudpEnabled, client, session, clients, created, asked, wire>>
Sessions == 1..MaxSessions
Clients == 1..MaxClients

\* link: the transport under vlessClient and vlessConnection; "dead" once
\* cancelled.  pending: the calls that wait on a deferred.  writes: the
\* frame inside sendRaw and, behind it, those that wait for writeMutex;
\* sending: the first of them may still be sent.
NewClient ==
  [closed |-> FALSE, connecting |-> FALSE, connected |-> FALSE, isXUDP |-> FALSE,
   link |-> "none", idleTimer |-> FALSE, sessions |-> {}, pending |-> {}, writes |-> <<>>,
   sending |-> TRUE]

\* cancelled: the flow was closed.  ended: its close handler has posted.
NewSession ==
  [client |-> 1, phase |-> "none", closed |-> FALSE, firstFrameSent |-> ~xudpEnabled,
   sent |-> 0, cancelled |-> FALSE, ended |-> FALSE]

Init ==
  /\ xudpEnabled \in XudpModes
  /\ client = [c \in Clients |-> NewClient]
  /\ session = [s \in Sessions |-> NewSession]
  /\ clients = {} /\ created = 0 /\ asked = 0
  /\ wire = [s \in Sessions |-> <<>>]

isFull(r) == r.closed \/ r.isXUDP
Frame(s, status) == [session |-> s, status |-> status]

-----------------------------------------------------------------------------
(* Closing.  The operators give the new client or session record. *)

\* resetIdleTimer
resetIdleTimer(r) == [r EXCEPT !.idleTimer = ~r.closed /\ r.sessions = {}]

\* Mutant: a session is marked closed only if someone listens.
MutantClosedIfHeld(z) ==
  IF z.phase = "held" THEN [z EXCEPT !.closed = TRUE, !.ended = TRUE] ELSE z
\* deliverClose: a flow that holds the session has a close handler.
deliverClose(z) ==
  IF z.closed THEN z ELSE [z EXCEPT !.closed = TRUE, !.ended = (z.phase = "held")]

\* closeAll cancels the dial and the established connection.
CancelledLink(r) == IF r.link = "none" THEN "none" ELSE "dead"

\* Mutant: the calls that wait for the dial are forgotten.
MutantPendingForgotten(r, s, z) == z
\* closeAll completes the deferreds exceptionally.
FailPending(r, s, z) == IF s \in r.pending THEN [z EXCEPT !.phase = "refused"] ELSE z

ClosedClient(r) ==
  [r EXCEPT !.closed = TRUE, !.idleTimer = FALSE, !.sessions = {},
            !.link = CancelledLink(r), !.connecting = FALSE, !.pending = {}]

\* What closeAll of client c makes of the sessions zs.
SessionsAfterCloseAll(c, zs) ==
  LET r == client[c]
  IN  IF r.closed THEN zs
      ELSE [s \in Sessions |->
              FailPending(r, s, IF s \in r.sessions THEN deliverClose(zs[s]) ELSE zs[s])]

closeAll(c, r) == IF client[c].closed THEN r ELSE ClosedClient(r)

\* The catch of createSession: the entry goes, and the call has failed.
Uncreated(r, s) == [r EXCEPT !.sessions = @ \ {s}]
Over(z) == [z EXCEPT !.phase = "over"]

\* removeSession
removeSession(r, s) ==
  LET q == [r EXCEPT !.sessions = @ \ {s}]
  IN  IF q.sessions = {} THEN resetIdleTimer(q) ELSE q

\* MuxSession.close, called by the flow: the client and the session after it.
ClientAfterClose(r, s) ==
  IF session[s].closed THEN r
  ELSE LET ending == IF r.closed THEN r.writes ELSE Append(r.writes, Frame(s, "end"))
       IN  removeSession([r EXCEPT !.writes = ending], s)

-----------------------------------------------------------------------------
(* Asking for a session. *)

\* The rest of createSession once the client is connected: the New frame,
\* which XUDP leaves to the first datagram.
WithNewFrame(r, s) ==
  IF xudpEnabled \/ r.closed THEN r ELSE [r EXCEPT !.writes = Append(@, Frame(s, "new"))]

\* writeFrame throws if the client is closed, and createSession cleans up.
Proceed(r, s) == IF ~xudpEnabled /\ r.closed THEN Uncreated(r, s) ELSE WithNewFrame(r, s)
ProceedPhase(r) ==
  IF xudpEnabled THEN "created" ELSE IF r.closed THEN "over" ELSE "writing"

\* createSession on client c, up to its first suspension.
createSession(c, r, s) ==
  LET q == resetIdleTimer([r EXCEPT !.isXUDP = xudpEnabled, !.sessions = @ \cup {s}])
      z == [session[s] EXCEPT !.client = c]
  IN  \/ /\ q.connected
         /\ client' = [client EXCEPT ![c] = Proceed(q, s)]
         /\ session' = [session EXCEPT ![s] = [z EXCEPT !.phase = ProceedPhase(q)]]
      \/ /\ ~q.connected /\ q.connecting
         /\ client' = [client EXCEPT ![c] = [q EXCEPT !.pending = @ \cup {s}]]
         /\ session' = [session EXCEPT ![s] = [z EXCEPT !.phase = "waiting"]]
      \/ /\ ~q.connected /\ ~q.connecting
         /\ client' = [client EXCEPT ![c] = [q EXCEPT !.connecting = TRUE, !.link = "dialing"]]
         /\ session' = [session EXCEPT ![s] = [z EXCEPT !.phase = "dialing"]]

\* MuxManager.dispatch: the first client with room, or a new one.
dispatch ==
  LET open == {c \in clients : ~client[c].closed}
      room == {c \in open : ~isFull(client[c])}
  IN  /\ asked < MaxSessions /\ asked' = asked + 1
      /\ \/ /\ \E c \in room :
                 (\A d \in room : c <= d) /\ createSession(c, client[c], asked + 1)
            /\ clients' = open /\ UNCHANGED created
         \/ /\ room = {} /\ created < MaxClients
            /\ created' = created + 1 /\ clients' = open \cup {created + 1}
            /\ createSession(created + 1, NewClient, asked + 1)
      /\ UNCHANGED <<xudpEnabled, wire>>

\* connectMux returns.  The cancel of a client closed meanwhile has reached
\* the new transport or has not.
DialSucceeds(s) ==
  /\ session[s].phase = "dialing"
  /\ \E up \in {"open", "dead"} :
     LET c == session[s].client
         r == client[c]
         q == resetIdleTimer([r EXCEPT !.connected = TRUE, !.connecting = FALSE,
                                       !.pending = {}, !.link = up])
     IN  /\ up = "dead" => r.closed
         /\ client' = [client EXCEPT ![c] = Proceed(q, s)]
         /\ session' = [z \in Sessions |->
                          IF z = s THEN [session[z] EXCEPT !.phase = ProceedPhase(q)]
                          ELSE IF z \in r.pending THEN [session[z] EXCEPT !.phase = "resumed"]
                          ELSE session[z]]
  /\ UNCHANGED <<xudpEnabled, clients, created, asked, wire>>

\* connectMux throws: the client closes, for the calls that wait too.
DialFails(s) ==
  /\ session[s].phase = "dialing"
  /\ LET c == session[s].client
         r == closeAll(c, [client[c] EXCEPT !.connecting = FALSE])
     IN  /\ client' = [client EXCEPT ![c] = Uncreated(r, s)]
         /\ session' = [SessionsAfterCloseAll(c, session) EXCEPT ![s] = Over(@)]
  /\ UNCHANGED <<xudpEnabled, clients, created, asked, wire>>

\* A call that waited for the dial goes on, or finds itself cancelled.
WaiterResumes(s) ==
  /\ session[s].phase = "resumed"
  /\ LET c == session[s].client
     IN  IF session[s].cancelled
         THEN /\ client' = [client EXCEPT ![c] = Uncreated(@, s)]
              /\ session' = [session EXCEPT ![s] = Over(@)]
         ELSE /\ client' = [client EXCEPT ![c] = Proceed(@, s)]
              /\ session' = [session EXCEPT ![s].phase = ProceedPhase(client[c])]
  /\ UNCHANGED <<xudpEnabled, clients, created, asked, wire>>

\* The wait for the dial ends with an exception: the client closed, or the
\* flow was closed.  (The deferred stays in the list; to complete it then
\* does nothing.)
WaiterThrows(s) ==
  /\ \/ session[s].phase = "refused"
     \/ session[s].phase = "waiting" /\ session[s].cancelled
  /\ LET c == session[s].client
         r == [client[c] EXCEPT !.pending = @ \ {s}]
     IN  client' = [client EXCEPT ![c] = Uncreated(r, s)]
  /\ session' = [session EXCEPT ![s] = Over(@)]
  /\ UNCHANGED <<xudpEnabled, clients, created, asked, wire>>

\* The wait for writeMutex, or for the executor once it was given, ends with
\* an exception: the flow was closed.
LockThrows(s) ==
  /\ session[s].phase = "writing" /\ session[s].cancelled
  /\ LET c == session[s].client
     IN  \E i \in DOMAIN client[c].writes :
           LET r == [client[c] EXCEPT !.writes = RemoveAt(@, i),
                                      !.sending = IF i = 1 THEN ~client[c].closed ELSE @]
           IN  /\ client[c].writes[i] = Frame(s, "new")
               /\ client' = [client EXCEPT ![c] = Uncreated(r, s)]
  /\ session' = [session EXCEPT ![s] = Over(@)]
  /\ UNCHANGED <<xudpEnabled, clients, created, asked, wire>>

-----------------------------------------------------------------------------
(* Frames. *)

\* sendRaw returns or throws: the next frame finds the connection gone if
\* the client is closed.
Written(r) == [r EXCEPT !.writes = Tail(@), !.sending = ~r.closed]

\* The next frame is sent; createSession returns after its New frame.
WriteDone(c) ==
  /\ client[c].writes # <<>> /\ client[c].sending
  /\ LET f == Head(client[c].writes)
     IN  /\ client' = [client EXCEPT ![c] = Written(@)]
         /\ wire' = [wire EXCEPT ![f.session] = Append(@, f.status)]
         /\ session' = IF session[f.session].phase = "writing" /\ f.status = "new"
                       THEN [session EXCEPT ![f.session].phase = "created"] ELSE session
  /\ UNCHANGED <<xudpEnabled, clients, created, asked>>

\* The send fails, or finds the connection gone: the client closes.
WriteFails(c) ==
  /\ client[c].writes # <<>>
  /\ LET f == Head(client[c].writes)
         failed == session[f.session].phase = "writing" /\ f.status = "new"
         r == closeAll(c, [Written(client[c]) EXCEPT !.sending = FALSE])
         zs == SessionsAfterCloseAll(c, session)
     IN  /\ client' = [client EXCEPT ![c] = IF failed THEN Uncreated(r, f.session) ELSE r]
         /\ session' = IF failed THEN [zs EXCEPT ![f.session] = Over(@)] ELSE zs
  /\ UNCHANGED <<xudpEnabled, clients, created, asked, wire>>

\* Mutant: a session does not remember that its New frame was sent.
MutantAlwaysFirst(z) == "new"
\* sendAsync: XUDP's first datagram travels in the New frame.
DataStatus(z) == IF z.firstFrameSent THEN "keep" ELSE "new"

\* The flow's datagrams, k of them, on a session that is not closed.
SendAsync(r, s, z, k) ==
  LET statuses == [i \in 1..k |-> IF i = 1 THEN DataStatus(z)
                                  ELSE DataStatus([z EXCEPT !.firstFrameSent = TRUE])]
      frames == [i \in 1..k |-> Frame(s, statuses[i])]
  IN  [r EXCEPT !.writes = IF r.closed THEN @ ELSE @ \o frames]
Sent(z, k) == [z EXCEPT !.sent = @ + k, !.firstFrameSent = @ \/ k > 0]

SendDatagram(s) ==
  /\ session[s].phase = "held" /\ ~session[s].closed /\ session[s].sent < MaxSends
  /\ client' = [client EXCEPT ![session[s].client] = SendAsync(@, s, session[s], 1)]
  /\ session' = [session EXCEPT ![s] = Sent(@, 1)]
  /\ UNCHANGED <<xudpEnabled, clients, created, asked, wire>>

\* An End frame of the server, for a session it knows.
ReceiveEnd(s) ==
  LET c == session[s].client
  IN  /\ client[c].link = "open" /\ wire[s] # <<>> /\ s \in client[c].sessions
      /\ client' = [client EXCEPT ![c].sessions = @ \ {s}]
      /\ session' = [session EXCEPT ![s] = deliverClose(@)]
      /\ UNCHANGED <<xudpEnabled, clients, created, asked, wire>>

\* The receive loop ends, or the idle timer fires.
ClientCloses(c) ==
  /\ \/ client[c].link = "open"
     \/ client[c].idleTimer /\ client[c].sessions = {}
  /\ client' = [client EXCEPT ![c] = closeAll(c, @)]
  /\ session' = SessionsAfterCloseAll(c, session)
  /\ UNCHANGED <<xudpEnabled, clients, created, asked, wire>>

-----------------------------------------------------------------------------
(* The flow. *)

\* Mutant: the flow takes a session that was closed behind its back.
MutantNoClosedCheck(s) == FALSE
AlreadyClosed(s) == session[s].closed

\* The task posted when dispatch returned, with the buffered datagrams.
FlowTakesSession(s) ==
  LET c == session[s].client
      z == session[s]
  IN  /\ z.phase = "created"
      /\ \/ /\ z.cancelled
            /\ client' = [client EXCEPT ![c] = ClientAfterClose(@, s)]
            /\ session' = [session EXCEPT ![s] = Over([@ EXCEPT !.closed = TRUE])]
         \/ /\ ~z.cancelled /\ AlreadyClosed(s)
            /\ client' = client
            /\ session' = [session EXCEPT ![s] = Over(@)]
         \/ /\ ~z.cancelled /\ ~AlreadyClosed(s)
            /\ \E k \in 0..MaxSends :
                 /\ client' = [client EXCEPT ![c] = SendAsync(@, s, z, k)]
                 /\ session' = [session EXCEPT ![s] = Sent([@ EXCEPT !.phase = "held"], k)]
      /\ UNCHANGED <<xudpEnabled, clients, created, asked, wire>>

\* The flow is closed on its own (idle), or because its session ended.
CloseFlow(s) ==
  /\ session[s].phase \notin {"none", "over"} /\ ~session[s].cancelled
  /\ IF session[s].phase = "held"
     THEN /\ client' = [client EXCEPT ![session[s].client] = ClientAfterClose(@, s)]
          /\ session' = [session EXCEPT
                           ![s] = [Over(@) EXCEPT !.closed = TRUE, !.cancelled = TRUE]]
     ELSE /\ session' = [session EXCEPT ![s].cancelled = TRUE]
          /\ UNCHANGED client
  /\ UNCHANGED <<xudpEnabled, clients, created, asked, wire>>

\* A wake or a restart: every client closes, then every flow in the table,
\* and the manager is replaced.  A flow may have left the table (UdpFlows).
TearDown ==
  /\ clients # {} /\ clients' = {}
  /\ \E listed \in SUBSET (1..asked) :
     LET told(s) == SessionsAfterCloseAll(session[s].client, session)[s]
         after(s) == IF session[s].client \in clients THEN told(s) ELSE session[s]
     IN  /\ client' = [c \in Clients |->
              IF c \in clients THEN closeAll(c, client[c]) ELSE client[c]]
         /\ session' = [s \in Sessions |->
              IF session[s].phase \in {"none", "over"} THEN session[s]
              ELSE IF s \notin listed THEN after(s)
              ELSE IF session[s].phase = "held"
              THEN Over([after(s) EXCEPT !.closed = TRUE, !.cancelled = TRUE])
              ELSE [after(s) EXCEPT !.cancelled = TRUE]]
  /\ UNCHANGED <<xudpEnabled, created, asked, wire>>

Next ==
  \/ dispatch
  \/ TearDown
  \/ \E s \in Sessions :
       \/ DialSucceeds(s)
       \/ DialFails(s)
       \/ WaiterResumes(s)
       \/ WaiterThrows(s)
       \/ LockThrows(s)
       \/ SendDatagram(s)
       \/ ReceiveEnd(s)
       \/ FlowTakesSession(s)
       \/ CloseFlow(s)
  \/ \E c \in Clients :
       \/ WriteDone(c)
       \/ WriteFails(c)
       \/ ClientCloses(c)

Spec == Init /\ [][Next]_vars

-----------------------------------------------------------------------------
Phases == {"none", "dialing", "waiting", "resumed", "refused", "writing", "created", "held",
           "over"}
FrameType == [session : Sessions, status : {"new", "keep", "end"}]

TypeOK ==
  /\ xudpEnabled \in BOOLEAN /\ created \in 0..MaxClients /\ asked \in 0..MaxSessions
  /\ clients \subseteq 1..created
  /\ \A c \in Clients :
       /\ client[c].closed \in BOOLEAN /\ client[c].connecting \in BOOLEAN
       /\ client[c].connected \in BOOLEAN /\ client[c].idleTimer \in BOOLEAN
       /\ client[c].isXUDP \in BOOLEAN /\ client[c].sending \in BOOLEAN
       /\ client[c].link \in {"none", "dialing", "open", "dead"}
       /\ client[c].sessions \subseteq 1..asked /\ client[c].pending \subseteq 1..asked
       /\ client[c].writes \in Seq(FrameType)
  /\ \A s \in Sessions :
       /\ session[s].client \in Clients /\ session[s].phase \in Phases
       /\ session[s].sent \in 0..MaxSends

(* A call that waits for another flow's dial waits for a dial that is      *)
(* under way: every end of that dial, and every close of the client,       *)
(* releases it (connectMux, closeAll).                                     *)
WaitersReleased ==
  \A s \in Sessions : session[s].phase = "waiting" =>
    \E d \in Sessions : session[d].phase = "dialing" /\ session[d].client = session[s].client

(* A session that is handed out and not closed can receive: it is in the   *)
(* table of a client that is open and connected.  And a call that failed   *)
(* or a flow that is closed leaves no entry there, which would keep the    *)
(* client from ever becoming idle (createSession, removeSession).          *)
LiveSessionListed ==
  /\ \A s \in Sessions : session[s].phase \in {"created", "held"} /\ ~session[s].closed =>
       LET r == client[session[s].client]
       IN  s \in r.sessions /\ ~r.closed /\ r.link = "open"
  /\ \A c \in Clients : \A s \in client[c].sessions : session[s].phase # "over"

(* A flow never keeps a closed session without knowing: the session was    *)
(* refused when it was handed over, or its close handler has posted.       *)
FlowHearsOfClose ==
  \A s \in Sessions : session[s].phase = "held" /\ session[s].closed => session[s].ended

(* Per session the server sees one New frame, first, and nothing after the *)
(* End frame.                                                              *)
FramesInOrder ==
  \A s \in Sessions : \A i \in DOMAIN wire[s] :
    /\ wire[s][i] = "new" => i = 1
    /\ wire[s][i] = "keep" => i > 1
    /\ wire[s][i] = "end" => i = Len(wire[s])

(* "Applies a 16s idle timeout": an open client that has no sessions, and  *)
(* no flow left that could give it one back, has its idle timer running.   *)
IdleTimed ==
  \A c \in 1..created :
    /\ client[c].connected /\ ~client[c].closed /\ client[c].sessions = {}
    /\ \A s \in Sessions : session[s].client = c => session[s].phase \in {"none", "over"}
    => client[c].idleTimer
=============================================================================
