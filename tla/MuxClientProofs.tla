-------------------------- MODULE MuxClientProofs --------------------------
(***************************************************************************)
(* For every number of clients, sessions and datagrams, and whatever the   *)
(* order of dials, closes, cancellations and writes: a waiting call has a  *)
(* dial to wait for, an open session is in the table of an open client, a  *)
(* flow that holds a closed session was told, and the server sees the      *)
(* frames of a session in order.                                           *)
(*                                                                         *)
(* MuxInv says what a client and what a session rely on; the first three   *)
(* follow from it.  FrameInv, for the last, adds what a frame relies on    *)
(* that still waits for writeMutex.  Every step but TearDown concerns one  *)
(* client and its sessions: OneClientStep, KeepStep, AppendStep and        *)
(* DropStep say what such a step owes.                                     *)
(***************************************************************************)
EXTENDS MuxClient, TLAPS, SequenceTheorems

ClientType ==
  [closed : BOOLEAN, connecting : BOOLEAN, connected : BOOLEAN, isXUDP : BOOLEAN,
   link : {"none", "dialing", "open", "dead"}, idleTimer : BOOLEAN,
   sessions : SUBSET Sessions, pending : SUBSET Sessions, writes : Seq(FrameType),
   sending : BOOLEAN]
SessionType ==
  [client : Clients, phase : Phases, closed : BOOLEAN, firstFrameSent : BOOLEAN,
   sent : Nat, cancelled : BOOLEAN, ended : BOOLEAN]

\* The types, without the bounds that TypeOK adds.
MuxType ==
  /\ xudpEnabled \in BOOLEAN /\ created \in 0..MaxClients /\ asked \in 0..MaxSessions
  /\ clients \in SUBSET (1..created)
  /\ client \in [Clients -> ClientType] /\ session \in [Sessions -> SessionType]
  /\ wire \in [Sessions -> Seq({"new", "keep", "end"})]

\* The sessions whose frames are in ws.
Owners(ws) == {ws[i].session : i \in DOMAIN ws}

\* What client c relies on.
ClientInv(c) ==
  LET r == client[c]
  IN  /\ c > created => ~r.closed /\ r.sessions = {} /\ r.pending = {} /\ ~r.connecting
                        /\ ~r.connected /\ r.writes = <<>> /\ r.sending
                        /\ r.link = "none" /\ ~r.idleTimer
      /\ c <= created /\ ~r.closed => c \in clients
      /\ r.closed => r.sessions = {} /\ ~r.connecting
      /\ r.pending # {} => r.connecting
      /\ r.connecting => \E d \in Sessions : session[d].phase = "dialing" /\ session[d].client = c
      /\ ~r.closed => r.sending
      /\ r.connected /\ ~r.closed => r.link = "open"
      /\ \A s \in r.sessions :
           session[s].client = c /\ session[s].phase \notin {"none", "over"} /\ ~session[s].closed
      /\ \A s \in r.pending : session[s].client = c /\ session[s].phase = "waiting"
      /\ \A s \in Owners(r.writes) : session[s].client = c /\ session[s].phase # "none"

\* What session s relies on.
SessionInv(s) ==
  LET z == session[s]
      r == client[z.client]
  IN  /\ s > asked => z.phase = "none"
      /\ z.phase # "none" => z.client <= created
      /\ z.phase = "none" => ~z.closed
      /\ z.phase \notin {"none", "over"} /\ ~z.closed => s \in r.sessions
      /\ z.phase = "waiting" => s \in r.pending
      /\ z.phase \in {"resumed", "writing", "created", "held"} /\ ~r.closed => r.connected
      /\ z.phase = "held" /\ z.closed => z.ended

\* The inductive invariant.
MuxInv ==
  /\ MuxType
  /\ \A c \in Clients : ClientInv(c)
  /\ \A s \in Sessions : SessionInv(s)

\* Before the New frame is asked for.
Early == {"none", "dialing", "waiting", "resumed", "refused"}

\* What a frame that waits in client c relies on.
QueuedInv(c, i) ==
  LET r == client[c]
      f == r.writes[i]
      z == session[f.session]
  IN  /\ z.client = c /\ z.phase \notin Early
      /\ z.phase = "writing" => f.status = "new"
      /\ z.phase = "over" \/ z.firstFrameSent
      /\ f.status = "new" => wire[f.session] = <<>>
      /\ f.status = "end" => z.phase = "over"
      /\ f.status = "keep" /\ r.sending =>
           wire[f.session] # <<>> \/ \E j \in 1..(i - 1) : r.writes[j] = Frame(f.session, "new")
      /\ \A k \in DOMAIN wire[f.session] : wire[f.session][k] # "end"

\* Of the frames of one session, none follows the End and New comes first.
PairInv(c, i, j) ==
  LET f == client[c].writes[i]
      g == client[c].writes[j]
  IN  i < j /\ f.session = g.session => g.status # "new" /\ f.status # "end"

\* What the frames of session s that were sent rely on.
WireInv(s) ==
  LET z == session[s]
      r == client[z.client]
      w == wire[s]
  IN  /\ xudpEnabled \/ z.firstFrameSent
      /\ xudpEnabled /\ z.phase \notin {"held", "over"} => ~z.firstFrameSent
      /\ z.phase \in Early \cup {"writing"} => w = <<>>
      /\ z.phase # "over" /\ ~z.firstFrameSent => w = <<>>
      /\ z.phase \in {"created", "held"} /\ z.firstFrameSent /\ ~r.closed =>
           w # <<>> \/ \E i \in DOMAIN r.writes : r.writes[i] = Frame(s, "new")
      /\ \A i \in DOMAIN w :
           /\ w[i] = "new" => i = 1
           /\ w[i] = "keep" => i > 1
           /\ w[i] = "end" => i = Len(w) /\ z.phase = "over"

\* The invariant of the frames, inductive given MuxInv.
FrameInv ==
  /\ \A c \in Clients : \A i \in DOMAIN client[c].writes : QueuedInv(c, i)
  /\ \A c \in Clients : \A i, j \in DOMAIN client[c].writes : PairInv(c, i, j)
  /\ \A s \in Sessions : WireInv(s)

USE DEF Sessions, Clients

\* The part of a client that only a dial or a close changes.
SameState(q, r) ==
  /\ q.closed = r.closed /\ q.connecting = r.connecting /\ q.connected = r.connected
  /\ q.link = r.link

\* LockThrows takes one frame out of the queue; the others keep their order.
LEMMA RemoveAtFacts ==
  ASSUME NEW ws \in Seq(FrameType), NEW i \in DOMAIN ws
  PROVE  /\ RemoveAt(ws, i) \in Seq(FrameType) /\ Len(RemoveAt(ws, i)) = Len(ws) - 1
         /\ \A j \in 1..(Len(ws) - 1) : RemoveAt(ws, i)[j] = ws[IF j < i THEN j ELSE j + 1]
<1>0. i \in 1..Len(ws) /\ Len(ws) \in Nat  OBVIOUS
<1> DEFINE a == SubSeq(ws, 1, i - 1)
           b == SubSeq(ws, i + 1, Len(ws))
<1>1. a \in Seq(FrameType) /\ Len(a) = i - 1 /\ \A j \in 1..(i - 1) : a[j] = ws[j]
  BY <1>0
<1>2. /\ b \in Seq(FrameType) /\ Len(b) = Len(ws) - i
      /\ \A j \in 1..(Len(ws) - i) : b[j] = ws[i + j]
  BY <1>0
<1>3. RemoveAt(ws, i) = a \o b  BY DEF RemoveAt
<1> HIDE DEF a, b
<1>4. /\ a \o b \in Seq(FrameType) /\ Len(a \o b) = (i - 1) + (Len(ws) - i)
      /\ \A j \in 1..(i - 1) : (a \o b)[j] = a[j]
      /\ \A j \in i..(Len(ws) - 1) : (a \o b)[j] = b[j - (i - 1)]
  <2>1. /\ a \o b \in Seq(FrameType) /\ Len(a \o b) = Len(a) + Len(b)
        /\ \A j \in 1..(Len(a) + Len(b)) :
             (a \o b)[j] = IF j <= Len(a) THEN a[j] ELSE b[j - Len(a)]
    BY <1>1, <1>2
  <2>2. Len(a) + Len(b) = Len(ws) - 1 /\ i - 1 <= Len(ws) - 1  BY <1>0, <1>1, <1>2
  <2>3. \A j \in 1..(i - 1) : j \in 1..(Len(ws) - 1) /\ j <= i - 1  BY <1>0
  <2>4. \A j \in i..(Len(ws) - 1) : j \in 1..(Len(ws) - 1) /\ ~(j <= i - 1)  BY <1>0
  <2>5. Len(a) = i - 1 /\ Len(b) = Len(ws) - i  BY <1>1, <1>2
  <2>6. \A j \in 1..(Len(ws) - 1) :
             (a \o b)[j] = IF j <= i - 1 THEN a[j] ELSE b[j - (i - 1)]
    BY <2>1, <2>2, <2>5
  <2> QED  BY <2>1, <2>3, <2>4, <2>5, <2>6
<1>5. \A j \in i..(Len(ws) - 1) : (a \o b)[j] = ws[j + 1]
  <2> TAKE j \in i..(Len(ws) - 1)
  <2>1. j - (i - 1) \in 1..(Len(ws) - i) /\ i + (j - (i - 1)) = j + 1  BY <1>0
  <2> QED  BY <1>2, <1>4, <2>1
<1>6. \A j \in 1..(Len(ws) - 1) :
        (a \o b)[j] = ws[IF j < i THEN j ELSE j + 1]
  <2> TAKE j \in 1..(Len(ws) - 1)
  <2>1. CASE j < i  BY <1>0, <1>1, <1>4, <2>1
  <2>2. CASE ~(j < i)
    <3>1. j \in i..(Len(ws) - 1)  BY <1>0, <2>2
    <3> QED  BY <1>5, <2>2, <3>1
  <2> QED  BY <2>1, <2>2
<1>7. (i - 1) + (Len(ws) - i) = Len(ws) - 1  BY <1>0
<1> QED  BY <1>3, <1>4, <1>6, <1>7

\* The sessions of the frames left after one more is queued, sent or given up.
LEMMA OwnersFacts ==
  ASSUME NEW ws \in Seq(FrameType)
  PROVE  /\ Owners(ws) \subseteq Sessions
         /\ \A f \in FrameType : Owners(Append(ws, f)) = Owners(ws) \cup {f.session}
         /\ ws # <<>> => Owners(Tail(ws)) \subseteq Owners(ws)
         /\ ws # <<>> => Head(ws).session \in Owners(ws) /\ Head(ws) \in FrameType
         /\ \A i \in DOMAIN ws : /\ RemoveAt(ws, i) \in Seq(FrameType)
                               /\ Owners(RemoveAt(ws, i)) \subseteq Owners(ws)
<1>1. Owners(ws) \subseteq Sessions
  <2>1. \A i \in DOMAIN ws : ws[i] \in FrameType  OBVIOUS
  <2>2. \A f \in FrameType : f.session \in Sessions  BY DEF FrameType
  <2> QED  BY <2>1, <2>2 DEF Owners
<1>2. ASSUME NEW f \in FrameType PROVE Owners(Append(ws, f)) = Owners(ws) \cup {f.session}
  <2>1. /\ DOMAIN Append(ws, f) = DOMAIN ws \cup {Len(ws) + 1}
        /\ \A i \in DOMAIN ws : Append(ws, f)[i] = ws[i]
        /\ Append(ws, f)[Len(ws) + 1] = f
    OBVIOUS
  <2> QED  BY <2>1 DEF Owners
<1>3. ASSUME ws # <<>>
      PROVE  /\ Owners(Tail(ws)) \subseteq Owners(ws)
             /\ Head(ws).session \in Owners(ws) /\ Head(ws) \in FrameType
  <2>1. \A i \in DOMAIN Tail(ws) : i + 1 \in DOMAIN ws /\ Tail(ws)[i] = ws[i + 1]
    BY <1>3
  <2>2. 1 \in DOMAIN ws /\ Head(ws) = ws[1]  BY <1>3
  <2> QED  BY <2>1, <2>2 DEF Owners
<1>4. ASSUME NEW i \in DOMAIN ws
      PROVE  RemoveAt(ws, i) \in Seq(FrameType) /\ Owners(RemoveAt(ws, i)) \subseteq Owners(ws)
  <2>1. i \in 1..Len(ws) /\ Len(ws) \in Nat  OBVIOUS
  <2>2. /\ RemoveAt(ws, i) \in Seq(FrameType) /\ Len(RemoveAt(ws, i)) = Len(ws) - 1
        /\ \A j \in 1..(Len(ws) - 1) : RemoveAt(ws, i)[j] = ws[IF j < i THEN j ELSE j + 1]
    BY RemoveAtFacts
  <2>3. \A j \in DOMAIN RemoveAt(ws, i) : \E k \in DOMAIN ws : RemoveAt(ws, i)[j] = ws[k]
    BY <2>1, <2>2
  <2> QED  BY <2>2, <2>3 DEF Owners
<1> QED  BY <1>1, <1>2, <1>3, <1>4

\* A session counts its datagrams, and after the first its New frame is out.
LEMMA SentFacts ==
  ASSUME NEW z \in SessionType, NEW k \in Nat
  PROVE  /\ Sent(z, k) \in SessionType
         /\ Sent(z, k).client = z.client /\ Sent(z, k).phase = z.phase
         /\ Sent(z, k).closed = z.closed /\ Sent(z, k).ended = z.ended
         /\ Sent(z, k).cancelled = z.cancelled
         /\ Sent(z, k).firstFrameSent = (z.firstFrameSent \/ k > 0)
<1>1. z.firstFrameSent \in BOOLEAN /\ z.sent \in Nat  BY DEF SessionType
<1>2. (z.firstFrameSent \/ k > 0) \in BOOLEAN  OBVIOUS
<1>3. z.sent + k \in Nat  BY <1>1
<1> QED  BY <1>1, <1>2, <1>3 DEF Sent, SessionType

\* The frames of k datagrams.
Datagrams(s, z, k) ==
  [i \in 1..k |-> Frame(s, IF i = 1 /\ ~z.firstFrameSent THEN "new" ELSE "keep")]

\* Only the first frame of an XUDP session is a New frame (sendAsync).
LEMMA DatagramsFacts ==
  ASSUME NEW s \in Sessions, NEW z \in SessionType, NEW k \in Nat
  PROVE  /\ Datagrams(s, z, k) \in Seq(FrameType) /\ Len(Datagrams(s, z, k)) = k
         /\ \A i \in 1..k :
              /\ Datagrams(s, z, k)[i].session = s
              /\ Datagrams(s, z, k)[i].status =
                   IF i = 1 /\ ~z.firstFrameSent THEN "new" ELSE "keep"
<1>1. \A x \in {"new", "keep"} : /\ Frame(s, x) \in FrameType /\ Frame(s, x).session = s
                                /\ Frame(s, x).status = x
  BY DEF Frame, FrameType
<1> DEFINE st(i) == IF i = 1 /\ ~z.firstFrameSent THEN "new" ELSE "keep"
<1>2. \A i \in 1..k : st(i) \in {"new", "keep"}  OBVIOUS
<1>3. Datagrams(s, z, k) = [i \in 1..k |-> Frame(s, st(i))]  BY DEF Datagrams
<1> HIDE DEF st
<1>4. \A i \in 1..k : /\ Frame(s, st(i)) \in FrameType /\ Frame(s, st(i)).session = s
                      /\ Frame(s, st(i)).status = st(i)
  BY <1>1, <1>2
<1>5. \A i \in 1..k : Datagrams(s, z, k)[i] = Frame(s, st(i))  BY <1>3
<1>6. \A i \in 1..k : Datagrams(s, z, k)[i].session = s /\ Datagrams(s, z, k)[i].status = st(i)
  BY <1>4, <1>5
<1>7. Datagrams(s, z, k) \in Seq(FrameType) /\ Len(Datagrams(s, z, k)) = k  BY <1>3, <1>4
<1> QED  BY <1>6, <1>7 DEF st

\* sendAsync queues the datagrams behind the earlier frames, or drops them.
LEMMA SendAsyncFacts ==
  ASSUME NEW r \in ClientType, NEW s \in Sessions, NEW z \in SessionType, NEW k \in Nat
  PROVE  LET q == SendAsync(r, s, z, k)
         IN  /\ q \in ClientType /\ SameState(q, r)
             /\ q.sessions = r.sessions /\ q.pending = r.pending
             /\ q.sending = r.sending
             /\ q.writes = IF r.closed THEN r.writes ELSE r.writes \o Datagrams(s, z, k)
             /\ Owners(q.writes) \subseteq Owners(r.writes) \cup {s}
<1> DEFINE st == [i \in 1..k |-> IF i = 1 THEN DataStatus(z)
                                  ELSE DataStatus([z EXCEPT !.firstFrameSent = TRUE])]
           fs == Datagrams(s, z, k)
           ws == IF r.closed THEN r.writes ELSE r.writes \o fs
<1>1. fs = [i \in 1..k |-> Frame(s, st[i])]
  <2>1. \A i \in 1..k : st[i] = IF i = 1 /\ ~z.firstFrameSent THEN "new" ELSE "keep"
    BY DEF DataStatus, SessionType
  <2> HIDE DEF st
  <2> QED  BY <2>1 DEF Datagrams
<1>2. fs \in Seq(FrameType) /\ Len(fs) = k  BY DatagramsFacts
<1>3. r.writes \in Seq(FrameType)  BY DEF ClientType
<1>4. ws \in Seq(FrameType)
  <2> HIDE DEF fs
  <2> QED  BY <1>2, <1>3
<1>5. SendAsync(r, s, z, k) = [r EXCEPT !.writes = ws]
  <2> HIDE DEF fs
  <2> QED  BY <1>1 DEF SendAsync
<1>6. Owners(ws) \subseteq Owners(r.writes) \cup {s}
  <2>1. \A i \in 1..k : fs[i].session = s  BY DatagramsFacts
  <2> HIDE DEF fs
  <2>2. \A i \in DOMAIN (r.writes \o fs) :
          \/ i \in DOMAIN r.writes /\ (r.writes \o fs)[i] = r.writes[i]
          \/ i - Len(r.writes) \in 1..k /\ (r.writes \o fs)[i] = fs[i - Len(r.writes)]
    BY <1>2, <1>3
  <2> QED  BY <2>1, <2>2 DEF Owners
<1>7. ws = IF r.closed THEN r.writes ELSE r.writes \o Datagrams(s, z, k)  OBVIOUS
<1> HIDE DEF ws, fs
<1>8. /\ SendAsync(r, s, z, k) \in ClientType /\ SameState(SendAsync(r, s, z, k), r)
      /\ LET q == SendAsync(r, s, z, k)
         IN  /\ q.sessions = r.sessions /\ q.pending = r.pending /\ q.sending = r.sending
             /\ q.writes = ws
  BY <1>4, <1>5 DEF ClientType, SameState
<1> QED  BY <1>6, <1>7, <1>8


-----------------------------------------------------------------------------
(* What the operators on records give. *)

\* resetIdleTimer changes the timer only.
LEMMA resetIdleTimerFacts ==
  ASSUME NEW r \in ClientType
  PROVE  LET q == resetIdleTimer(r)
         IN  /\ q \in ClientType /\ SameState(q, r) /\ q.isXUDP = r.isXUDP
             /\ q.sessions = r.sessions /\ q.pending = r.pending
             /\ q.writes = r.writes /\ q.sending = r.sending
<1> DEFINE b == ~r.closed /\ r.sessions = {}
<1>1. b \in BOOLEAN  OBVIOUS
<1>2. resetIdleTimer(r) = [r EXCEPT !.idleTimer = b]  BY DEF resetIdleTimer
<1> HIDE DEF b
<1> QED  BY <1>1, <1>2 DEF ClientType, SameState

\* The catch of createSession takes the session out of the table.
LEMMA UncreatedFacts ==
  ASSUME NEW r \in ClientType, NEW s \in Sessions
  PROVE  LET q == Uncreated(r, s)
         IN  /\ q \in ClientType /\ SameState(q, r)
             /\ q.sessions = r.sessions \ {s} /\ q.pending = r.pending
             /\ q.writes = r.writes /\ q.sending = r.sending
BY DEF Uncreated, ClientType, SameState

\* removeSession takes the session out of the table.
LEMMA removeSessionFacts ==
  ASSUME NEW r \in ClientType, NEW s \in Sessions
  PROVE  LET q == removeSession(r, s)
         IN  /\ q \in ClientType /\ SameState(q, r)
             /\ q.sessions = r.sessions \ {s} /\ q.pending = r.pending
             /\ q.writes = r.writes /\ q.sending = r.sending
<1> DEFINE p == [r EXCEPT !.sessions = @ \ {s}]
<1>1. /\ p \in ClientType /\ SameState(p, r)
      /\ p.sessions = r.sessions \ {s} /\ p.pending = r.pending
      /\ p.writes = r.writes /\ p.sending = r.sending
  BY DEF ClientType, SameState
<1>2. removeSession(r, s) \in {p, resetIdleTimer(p)}  BY DEF removeSession
<1> HIDE DEF p
<1> QED  BY <1>1, <1>2, resetIdleTimerFacts DEF SameState

\* MuxSession.close leaves the table and queues an End frame if that can be sent.
LEMMA ClientAfterCloseFacts ==
  ASSUME NEW r \in ClientType, NEW s \in Sessions, session[s].closed => s \notin r.sessions
  PROVE  LET q == ClientAfterClose(r, s)
         IN  /\ q \in ClientType /\ SameState(q, r)
             /\ q.sessions = r.sessions \ {s} /\ q.pending = r.pending
             /\ q.sending = r.sending
             /\ q.writes = IF session[s].closed \/ r.closed THEN r.writes
                           ELSE Append(r.writes, Frame(s, "end"))
<1> DEFINE ending == IF r.closed THEN r.writes ELSE Append(r.writes, Frame(s, "end"))
           p == [r EXCEPT !.writes = ending]
<1>1. Frame(s, "end") \in FrameType  BY DEF Frame, FrameType
<1>2. r.writes \in Seq(FrameType)  BY DEF ClientType
<1>3. ending \in Seq(FrameType)  BY <1>1, <1>2
<1>4. ClientAfterClose(r, s) = IF session[s].closed THEN r ELSE removeSession(p, s)
  BY DEF ClientAfterClose
<1>5. ending = IF r.closed THEN r.writes ELSE Append(r.writes, Frame(s, "end"))  OBVIOUS
<1> HIDE DEF ending
<1>6. /\ p \in ClientType /\ SameState(p, r) /\ p.writes = ending
      /\ p.sessions = r.sessions /\ p.pending = r.pending /\ p.sending = r.sending
  BY <1>3 DEF ClientType, SameState
<1> HIDE DEF p
<1>7. CASE session[s].closed
  BY <1>4, <1>7 DEF SameState
<1>8. CASE ~session[s].closed
  BY <1>4, <1>5, <1>6, <1>8, removeSessionFacts DEF SameState
<1> QED  BY <1>7, <1>8

\* The end of createSession: a New frame, unless XUDP or a closed client.
LEMMA ProceedFacts ==
  ASSUME NEW r \in ClientType, NEW s \in Sessions
  PROVE  LET q == Proceed(r, s)
         IN  /\ q \in ClientType /\ SameState(q, r)
             /\ q.sessions = IF ~xudpEnabled /\ r.closed THEN r.sessions \ {s} ELSE r.sessions
             /\ q.pending = r.pending /\ q.sending = r.sending
             /\ q.writes = IF xudpEnabled \/ r.closed THEN r.writes
                           ELSE Append(r.writes, Frame(s, "new"))
<1>1. Frame(s, "new") \in FrameType  BY DEF Frame, FrameType
<1>2. r.writes \in Seq(FrameType)  BY DEF ClientType
<1> DEFINE ws == Append(r.writes, Frame(s, "new"))
           p == [r EXCEPT !.writes = ws]
<1>3. ws \in Seq(FrameType)  BY <1>1, <1>2
<1> HIDE DEF ws
<1>4. /\ p \in ClientType /\ SameState(p, r) /\ p.writes = ws
      /\ p.sessions = r.sessions /\ p.pending = r.pending /\ p.sending = r.sending
  BY <1>3 DEF ClientType, SameState
<1>5. Proceed(r, s) = IF ~xudpEnabled /\ r.closed THEN Uncreated(r, s)
                      ELSE IF xudpEnabled \/ r.closed THEN r ELSE p
  BY DEF Proceed, WithNewFrame, ws
<1> HIDE DEF p
<1>6. CASE ~xudpEnabled /\ r.closed  BY <1>5, <1>6, UncreatedFacts
<1>7. CASE xudpEnabled  BY <1>5, <1>7 DEF SameState
<1>8. CASE ~xudpEnabled /\ ~r.closed  BY <1>4, <1>5, <1>8 DEF ws
<1> QED  BY <1>6, <1>7, <1>8

\* After sendRaw the next frame is first.
LEMMA WrittenFacts ==
  ASSUME NEW r \in ClientType, r.writes # <<>>
  PROVE  LET q == Written(r)
         IN  /\ q \in ClientType /\ SameState(q, r)
             /\ q.sessions = r.sessions /\ q.pending = r.pending
             /\ q.writes = Tail(r.writes) /\ q.sending = ~r.closed
<1> DEFINE b == ~r.closed
           t == Tail(r.writes)
<1>1. b \in BOOLEAN  OBVIOUS
<1>2. r.writes \in Seq(FrameType)  BY DEF ClientType
<1>3. t \in Seq(FrameType)  BY <1>2
<1>4. Written(r) = [r EXCEPT !.writes = t, !.sending = b]  BY DEF Written
<1> HIDE DEF b, t
<1>5. /\ Written(r) \in ClientType /\ SameState(Written(r), r)
      /\ Written(r).sessions = r.sessions /\ Written(r).pending = r.pending
      /\ Written(r).writes = t /\ Written(r).sending = b
  BY <1>1, <1>3, <1>4 DEF ClientType, SameState
<1> QED  BY <1>5 DEF b, t

\* A closed client has no sessions and no waiters, and keeps its frames.
LEMMA ClosedClientFacts ==
  ASSUME NEW r \in ClientType
  PROVE  LET q == ClosedClient(r)
         IN  /\ q \in ClientType /\ q.closed /\ ~q.connecting /\ q.connected = r.connected
             /\ q.sessions = {} /\ q.pending = {}
             /\ q.writes = r.writes /\ q.sending = r.sending
<1> DEFINE l == CancelledLink(r)
<1>1. l \in {"none", "dialing", "open", "dead"}  BY DEF CancelledLink
<1>2. ClosedClient(r) =
        [r EXCEPT !.closed = TRUE, !.idleTimer = FALSE, !.sessions = {},
                  !.link = l, !.connecting = FALSE, !.pending = {}]
  BY DEF ClosedClient
<1> HIDE DEF l
<1> QED  BY <1>1, <1>2 DEF ClientType

\* deliverClose tells the flow that holds the session, once.
LEMMA deliverCloseFacts ==
  ASSUME NEW z \in SessionType
  PROVE  LET y == deliverClose(z)
         IN  /\ y \in SessionType /\ y.client = z.client /\ y.phase = z.phase /\ y.closed
             /\ y.cancelled = z.cancelled /\ y.firstFrameSent = z.firstFrameSent
             /\ z.phase = "held" /\ ~z.closed => y.ended
             /\ z.closed => y = z
<1> DEFINE b == z.phase = "held"
<1>1. b \in BOOLEAN  OBVIOUS
<1>2. deliverClose(z) = IF z.closed THEN z ELSE [z EXCEPT !.closed = TRUE, !.ended = b]
  BY DEF deliverClose
<1>3. b <=> z.phase = "held"  OBVIOUS
<1> HIDE DEF b
<1>4. CASE z.closed  BY <1>2, <1>4 DEF SessionType
<1>5. CASE ~z.closed  BY <1>1, <1>2, <1>3, <1>5 DEF SessionType
<1> QED  BY <1>4, <1>5

\* A call that failed, or a flow that is closed, ends its session and nothing else.
LEMMA OverFacts ==
  ASSUME NEW z \in SessionType
  PROVE  LET y == Over(z)
         IN  /\ y \in SessionType /\ y.client = z.client /\ y.phase = "over"
             /\ y.closed = z.closed /\ y.cancelled = z.cancelled
             /\ y.firstFrameSent = z.firstFrameSent
BY DEF Over, SessionType, Phases

-----------------------------------------------------------------------------
(* Steps of one client c and of sessions that ask c. *)

\* A step of one client and of its sessions keeps the invariant if that client and
\* those sessions keep their part.
LEMMA OneClientStep ==
  ASSUME MuxInv, MuxType', NEW c \in Clients,
         \A d \in Clients \ {c} :
           /\ client'[d] = client[d] /\ (d <= created' <=> d <= created)
           /\ ~client[d].closed /\ d \in clients => d \in clients',
         \A s \in Sessions : session'[s] # session[s] =>
           session'[s].client = c /\ (session[s].client = c \/ session[s].phase = "none"),
         created <= created', asked <= asked',
         ClientInv(c)',
         \A s \in Sessions : session'[s].client = c => SessionInv(s)'
  PROVE  MuxInv'
<1>1. ASSUME NEW d \in Clients PROVE ClientInv(d)'
  <2>1. CASE d = c  BY <2>1
  <2>2. CASE d # c
    <3>1. client'[d] = client[d]  BY <2>2
    <3>2. \A s \in Sessions : session[s].client = d /\ session[s].phase # "none" =>
             session'[s] = session[s]
      BY <2>2
    <3>3. client[d] \in ClientType /\ client[d].sessions \subseteq Sessions
          /\ client[d].pending \subseteq Sessions
      BY DEF MuxInv, MuxType, ClientType
    <3>4. ClientInv(d)  BY DEF MuxInv
    <3>5. created \in Int /\ created' \in Int /\ d \in Int  BY DEF MuxInv, MuxType
    <3>6. (d > created' <=> d > created) /\ (d <= created' <=> d <= created)
      BY <2>2, <3>5
    <3>7. \A s \in client[d].sessions :
             /\ session'[s].client = d /\ session'[s].phase \notin {"none", "over"}
             /\ ~session'[s].closed
      BY <3>2, <3>3, <3>4 DEF ClientInv
    <3>8. \A s \in client[d].pending : session'[s].client = d /\ session'[s].phase = "waiting"
      BY <3>2, <3>3, <3>4 DEF ClientInv
    <3>9. Owners(client[d].writes) \subseteq Sessions
      <4>1. client[d].writes \in Seq(FrameType)  BY <3>3 DEF ClientType
      <4> QED  BY <4>1, OwnersFacts
    <3>10. \A s \in Owners(client[d].writes) :
             session'[s].client = d /\ session'[s].phase # "none"
      BY <3>2, <3>4, <3>9 DEF ClientInv
    <3>11. client[d].connecting =>
             \E e \in Sessions : session'[e].phase = "dialing" /\ session'[e].client = d
      BY <3>2, <3>4 DEF ClientInv
    <3>12. d <= created' /\ ~client[d].closed => d \in clients'
      BY <2>2, <3>4, <3>6 DEF ClientInv
    <3> QED  BY <3>1, <3>4, <3>6, <3>7, <3>8, <3>11, <3>12, <3>10 DEF ClientInv
  <2> QED  BY <2>1, <2>2
<1>2. ASSUME NEW s \in Sessions PROVE SessionInv(s)'
  <2>1. CASE session'[s].client = c  BY <2>1
  <2>2. CASE session'[s].client # c
    <3>1. session'[s] = session[s]  BY <2>2
    <3>2. SessionInv(s) /\ session[s].client \in Clients  BY DEF MuxInv, MuxType, SessionType
    <3>3. client'[session[s].client] = client[session[s].client]  BY <2>2, <3>1, <3>2
    <3>4. /\ created \in Int /\ created' \in Int /\ asked \in Int /\ asked' \in Int
          /\ s \in Int /\ session[s].client \in Int
      BY <3>2 DEF MuxInv, MuxType
    <3>5. /\ s > asked' => s > asked
          /\ session[s].client <= created => session[s].client <= created'
      BY <3>4
    <3> QED  BY <3>1, <3>2, <3>3, <3>5 DEF SessionInv
  <2> QED  BY <2>1, <2>2
<1> QED  BY <1>1, <1>2 DEF MuxInv

\* The same where the client takes on no work and one session changes.
LEMMA OneSessionStep ==
  ASSUME MuxInv, NEW s \in Sessions, NEW R \in ClientType, NEW Z \in SessionType,
         session[s].phase # "none",
         client' = [client EXCEPT ![session[s].client] = R],
         session' = [session EXCEPT ![s] = Z],
         UNCHANGED <<xudpEnabled, clients, created, asked>>,
         wire' \in [Sessions -> Seq({"new", "keep", "end"})],
         Z.client = session[s].client, Z.phase # "none",
         SameState(R, client[session[s].client]),
         R.sending = client[session[s].client].sending \/ R.sending = ~R.closed,
         R.pending \subseteq client[session[s].client].pending,
         client[session[s].client].pending \subseteq R.pending \cup {s},
         R.sessions \subseteq client[session[s].client].sessions,
         client[session[s].client].sessions \subseteq R.sessions \cup {s},
         Owners(R.writes) \subseteq Owners(client[session[s].client].writes) \cup {s},
         s \in R.sessions => Z.phase # "over" /\ ~Z.closed,
         s \in R.pending => Z.phase = "waiting",
         session[s].phase = "dialing" => Z.phase = "dialing",
         Z.phase \notin {"none", "over"} /\ ~Z.closed => s \in R.sessions,
         Z.phase = "waiting" => s \in R.pending,
         Z.phase \in {"resumed", "writing", "created", "held"} /\ ~R.closed => R.connected,
         Z.phase = "held" /\ Z.closed => Z.ended
  PROVE  MuxInv'
<1>1. PICK c \in Clients : c = session[s].client
  BY DEF MuxInv, MuxType, SessionType
<1>2. PICK r \in ClientType : r = client[c]
  BY DEF MuxInv, MuxType
<1>3. c \in Clients /\ r \in ClientType /\ session[s] \in SessionType
  BY <1>1, <1>2 DEF MuxInv, MuxType
<1>4. /\ client' = [client EXCEPT ![c] = R] /\ Z.client = c /\ SameState(R, r)
      /\ R.sending = r.sending \/ R.sending = ~R.closed
      /\ R.pending \subseteq r.pending /\ r.pending \subseteq R.pending \cup {s}
      /\ R.sessions \subseteq r.sessions /\ r.sessions \subseteq R.sessions \cup {s}
      /\ Owners(R.writes) \subseteq Owners(r.writes) \cup {s}
  BY <1>1, <1>2
<1>5. /\ \A t \in Sessions : session[t].client = c => SessionInv(t)
      /\ ClientInv(c) /\ SessionInv(s)
  BY <1>3, <1>1 DEF MuxInv
<1>6. r.sessions \subseteq Sessions /\ r.pending \subseteq Sessions  BY <1>3 DEF ClientType
<1>7. c <= created  BY <1>5, <1>1 DEF SessionInv
<1>8. /\ client'[c] = R /\ \A d \in Clients \ {c} : client'[d] = client[d]
      /\ session'[s] = Z /\ \A t \in Sessions \ {s} : session'[t] = session[t]
  BY <1>3, <1>4 DEF MuxInv, MuxType
<1>9. /\ xudpEnabled' = xudpEnabled /\ clients' = clients /\ created' = created
      /\ asked' = asked
  OBVIOUS
<1>10. MuxType'
  BY <1>9, <1>3, <1>4 DEF MuxInv, MuxType
<1>11. ClientInv(c)'
  <2>1. /\ R.closed => R.sessions = {} /\ ~R.connecting
        /\ R.connected /\ ~R.closed => R.link = "open"
        /\ c <= created /\ ~R.closed => c \in clients
    BY <1>4, <1>5, <1>2 DEF ClientInv, SameState
  <2>2. ~R.closed => R.sending  BY <1>4, <1>5, <1>2 DEF ClientInv, SameState
  <2>3. R.pending # {} => R.connecting  BY <1>4, <1>5, <1>2 DEF ClientInv, SameState
  <2>4. R.connecting => \E d \in Sessions : session'[d].phase = "dialing" /\ session'[d].client = c
    BY <1>4, <1>5, <1>8, <1>2 DEF ClientInv, SameState
  <2>5. \A t \in R.sessions :
          /\ session'[t].client = c /\ session'[t].phase \notin {"none", "over"}
          /\ ~session'[t].closed
    BY <1>4, <1>5, <1>6, <1>8, <1>2 DEF ClientInv
  <2>6. \A t \in R.pending : session'[t].client = c /\ session'[t].phase = "waiting"
    BY <1>4, <1>5, <1>6, <1>8, <1>2 DEF ClientInv
  <2>7. Owners(R.writes) \subseteq Sessions
    <3>1. R.writes \in Seq(FrameType)  BY DEF ClientType
    <3> QED  BY <3>1, OwnersFacts
  <2>8. \A t \in Owners(R.writes) : session'[t].client = c /\ session'[t].phase # "none"
    BY <1>4, <1>5, <1>8, <1>2, <2>7 DEF ClientInv
  <2>9. ~(c > created)  BY <1>3, <1>7 DEF MuxInv, MuxType
  <2> QED  BY <1>9, <1>8, <2>1, <2>2, <2>3, <2>4, <2>5, <2>6, <2>9, <2>8 DEF ClientInv
<1>12. ASSUME NEW t \in Sessions, session'[t].client = c PROVE SessionInv(t)'
  <2>1. CASE t = s
    <3>1. ~(s > asked)  BY <1>5 DEF SessionInv
    <3> QED  BY <1>4, <1>7, <1>8, <2>1, <3>1 DEF SessionInv
  <2>2. CASE t # s
    <3>1. session'[t] = session[t] /\ session[t].client = c /\ SessionInv(t)
      BY <1>5, <1>8, <1>12, <2>2
    <3>2. t \in r.sessions => t \in R.sessions  BY <1>4, <2>2
    <3>3. t \in r.pending => t \in R.pending  BY <1>4, <2>2
    <3>4. R.closed = r.closed /\ R.connected = r.connected  BY <1>4 DEF SameState
    <3> QED  BY <1>8, <3>1, <3>2, <3>3, <3>4, <1>2 DEF SessionInv
  <2> QED  BY <2>1, <2>2
<1>13. created <= created' /\ asked <= asked'  BY DEF MuxInv, MuxType
<1>14. \A t \in Sessions : session'[t] # session[t] =>
           session'[t].client = c /\ (session[t].client = c \/ session[t].phase = "none")
  BY <1>4, <1>8, <1>1
<1>15. \A d \in Clients \ {c} :
           /\ client'[d] = client[d] /\ (d <= created' <=> d <= created)
           /\ ~client[d].closed /\ d \in clients => d \in clients'
  BY <1>9, <1>8
<1>16. \A t \in Sessions : session'[t].client = c => SessionInv(t)'  BY <1>12
<1> QED  BY <1>3, <1>10, <1>11, <1>13, <1>14, <1>15, <1>16, OneClientStep

-----------------------------------------------------------------------------
(* closeAll. *)

\* closeAll closes the sessions in the table and fails the calls that wait.
LEMMA SessionsAfterCloseAllFacts ==
  ASSUME MuxInv, NEW c \in Clients, NEW t \in Sessions
  PROVE  LET r == client[c]
             z == session[t]
             y == SessionsAfterCloseAll(c, session)[t]
         IN  /\ y \in SessionType /\ y.client = z.client /\ y.cancelled = z.cancelled
             /\ y.firstFrameSent = z.firstFrameSent
             /\ y.phase = IF ~r.closed /\ t \in r.pending THEN "refused" ELSE z.phase
             /\ ~r.closed /\ t \in r.sessions => y.closed
             /\ t \notin r.sessions => y.closed = z.closed
             /\ z.closed => y.closed
             /\ y.phase = "held" /\ y.closed => y.ended
             /\ y # z => t \in r.sessions \cup r.pending
<1> DEFINE r == client[c]
           z == session[t]
           x == IF t \in r.sessions THEN deliverClose(z) ELSE z
           y == SessionsAfterCloseAll(c, session)[t]
<1>1. z \in SessionType /\ r \in ClientType /\ SessionInv(t)  BY DEF MuxInv, MuxType
<1>2. z.phase = "held" /\ z.closed => z.ended  BY <1>1 DEF SessionInv
<1>3. y = IF r.closed THEN z ELSE FailPending(r, t, x)  BY DEF SessionsAfterCloseAll
<1>4. /\ x \in SessionType /\ x.client = z.client /\ x.cancelled = z.cancelled
      /\ x.firstFrameSent = z.firstFrameSent /\ x.phase = z.phase
      /\ t \in r.sessions => x.closed
      /\ t \notin r.sessions => x = z
      /\ z.closed => x.closed
      /\ x.phase = "held" /\ x.closed => x.ended
  BY <1>1, <1>2, deliverCloseFacts
<1> HIDE DEF x, y, z, r
<1>5. CASE r.closed  BY <1>1, <1>2, <1>3, <1>5 DEF r, y, z
<1>6. CASE ~r.closed /\ t \in r.pending
  <2>1. y = [x EXCEPT !.phase = "refused"]  BY <1>3, <1>6 DEF FailPending
  <2>2. /\ y \in SessionType /\ y.client = x.client /\ y.cancelled = x.cancelled
        /\ y.firstFrameSent = x.firstFrameSent /\ y.phase = "refused" /\ y.closed = x.closed
    BY <1>4, <2>1 DEF SessionType, Phases
  <2> QED  BY <1>4, <1>6, <2>2 DEF r, y, z
<1>7. CASE ~r.closed /\ t \notin r.pending
  <2>1. y = x  BY <1>3, <1>7 DEF FailPending
  <2> QED  BY <1>4, <1>7, <2>1 DEF r, y, z
<1> QED  BY <1>5, <1>6, <1>7

\* A step that closes client c and ends the calls of the sessions X.
LEMMA CloseStep ==
  ASSUME MuxInv, NEW c \in Clients, NEW R \in ClientType, NEW X \in SUBSET Sessions,
         c <= created,
         client' = [client EXCEPT ![c] = R],
         session' = [t \in Sessions |-> LET y == SessionsAfterCloseAll(c, session)[t]
                                        IN  IF t \in X THEN Over(y) ELSE y],
         \A t \in X : session[t].client = c /\ session[t].phase # "none",
         UNCHANGED <<xudpEnabled, clients, created, asked, wire>>,
         R.closed, ~R.connecting, R.sessions = {}, R.pending = {},
         Owners(R.writes) \subseteq Owners(client[c].writes)
  PROVE  MuxInv'
<1>1. PICK r \in ClientType : r = client[c]  BY DEF MuxInv, MuxType
<1>2. /\ clients' = clients /\ created' = created /\ asked' = asked
      /\ xudpEnabled' = xudpEnabled /\ wire' = wire
  OBVIOUS
<1>3. /\ ClientInv(c) /\ \A t \in Sessions : SessionInv(t) /\ session[t] \in SessionType
      /\ r.sessions \subseteq Sessions /\ r.pending \subseteq Sessions
  BY DEF MuxInv, MuxType, ClientType
<1>4. \A t \in r.sessions \cup r.pending : session[t].client = c /\ session[t].phase # "none"
  BY <1>1, <1>3 DEF ClientInv
<1>5. ASSUME NEW t \in Sessions
      PROVE  /\ session'[t] \in SessionType /\ session'[t].client = session[t].client
             /\ session'[t] # session[t] => session[t].client = c /\ session[t].phase # "none"
             /\ session'[t].phase = IF t \in X THEN "over"
                                    ELSE IF ~r.closed /\ t \in r.pending THEN "refused"
                                    ELSE session[t].phase
             /\ ~r.closed /\ t \in r.sessions => session'[t].closed
             /\ session[t].closed => session'[t].closed
             /\ session'[t].phase = "held" /\ session'[t].closed => session'[t].ended
             /\ session'[t].phase = "none" => session'[t].closed = session[t].closed
  <2> DEFINE y == SessionsAfterCloseAll(c, session)[t]
  <2>1. session'[t] = IF t \in X THEN Over(y) ELSE y  OBVIOUS
  <2>2. /\ y \in SessionType /\ y.client = session[t].client
        /\ y.phase = IF ~r.closed /\ t \in r.pending THEN "refused" ELSE session[t].phase
        /\ ~r.closed /\ t \in r.sessions => y.closed
        /\ t \notin r.sessions => y.closed = session[t].closed
        /\ session[t].closed => y.closed
        /\ y.phase = "held" /\ y.closed => y.ended
        /\ y # session[t] => t \in r.sessions \cup r.pending
    BY <1>1, SessionsAfterCloseAllFacts
  <2> HIDE DEF y
  <2>3. CASE t \in X  BY <1>3, <2>1, <2>2, <2>3, OverFacts
  <2>4. CASE t \notin X  BY <1>3, <1>4, <2>1, <2>2, <2>4
  <2> QED  BY <2>3, <2>4
<1>6. /\ client'[c] = R /\ \A d \in Clients \ {c} : client'[d] = client[d]
  BY DEF MuxInv, MuxType
<1>7. MuxType'
  <2>1. client' \in [Clients -> ClientType]  BY DEF MuxInv, MuxType
  <2>2. session' \in [Sessions -> SessionType]  BY <1>5
  <2> QED  BY <1>2, <2>1, <2>2 DEF MuxInv, MuxType
<1>8. ClientInv(c)'
  <2>1. ~(c > created)  BY DEF MuxInv, MuxType
  <2>2. Owners(R.writes) \subseteq Sessions
    <3>1. R.writes \in Seq(FrameType)  BY DEF ClientType
    <3> QED  BY <3>1, OwnersFacts
  <2>3. \A t \in Owners(R.writes) : session'[t].client = c /\ session'[t].phase # "none"
    <3>1. \A t \in Owners(R.writes) :
             t \in Sessions /\ session[t].client = c /\ session[t].phase # "none"
      BY <1>3, <2>2 DEF ClientInv
    <3> QED  BY <1>5, <3>1
  <2> QED  BY <1>2, <1>6, <2>1, <2>3 DEF ClientInv
<1>9. ASSUME NEW t \in Sessions, session'[t].client = c PROVE SessionInv(t)'
  <2>1. SessionInv(t) /\ session[t].client = c  BY <1>3, <1>5, <1>9
  <2>2. t > asked => session'[t].phase = "none"
    <3>1. SUFFICES ASSUME t > asked PROVE session'[t].phase = "none"  OBVIOUS
    <3>2. session[t].phase = "none"  BY <2>1, <3>1 DEF SessionInv
    <3>3. t \notin X /\ t \notin r.pending  BY <1>4, <3>2
    <3> QED  BY <1>5, <3>2, <3>3
  <2>3. session'[t].phase = "none" => ~session'[t].closed
    <3>1. SUFFICES ASSUME session'[t].phase = "none" PROVE ~session'[t].closed  OBVIOUS
    <3>2. session[t].phase = "none"  BY <1>5, <3>1
    <3> QED  BY <1>5, <2>1, <3>1, <3>2 DEF SessionInv
  <2>4. session'[t].phase \notin {"none", "over"} => session'[t].closed
    <3>1. SUFFICES ASSUME session'[t].phase \notin {"none", "over"}, ~session[t].closed
                   PROVE  session'[t].closed
      BY <1>5
    <3>2. session[t].phase \notin {"none", "over"}
      <4>1. CASE t \in r.pending  BY <1>1, <1>3, <4>1 DEF ClientInv
      <4>2. CASE t \notin r.pending  BY <1>5, <3>1, <4>2
      <4> QED  BY <4>1, <4>2
    <3>3. t \in r.sessions  BY <1>1, <2>1, <3>1, <3>2 DEF SessionInv
    <3>4. ~r.closed  BY <1>1, <1>3, <3>3 DEF ClientInv
    <3> QED  BY <1>5, <3>3, <3>4
  <2>5. session'[t].phase # "waiting"
    <3>1. SUFFICES ASSUME session'[t].phase = "waiting" PROVE FALSE  OBVIOUS
    <3>2. session[t].phase = "waiting"  BY <1>5, <3>1
    <3>3. t \in r.pending  BY <1>1, <2>1, <3>2 DEF SessionInv
    <3>4. ~r.closed  BY <1>1, <1>3, <3>3 DEF ClientInv
    <3> QED  BY <1>5, <3>1, <3>3, <3>4
  <2>6. session'[t].phase = "held" /\ session'[t].closed => session'[t].ended  BY <1>5
  <2> QED  BY <1>2, <1>6, <1>9, <2>2, <2>3, <2>4, <2>5, <2>6 DEF SessionInv
<1>10. created <= created' /\ asked <= asked'  BY <1>2 DEF MuxInv, MuxType
<1>11. \A t \in Sessions : session'[t] # session[t] =>
           session'[t].client = c /\ (session[t].client = c \/ session[t].phase = "none")
  BY <1>5
<1>12. \A d \in Clients \ {c} :
           /\ client'[d] = client[d] /\ (d <= created' <=> d <= created)
           /\ ~client[d].closed /\ d \in clients => d \in clients'
  BY <1>2, <1>6
<1>13. \A t \in Sessions : session'[t].client = c => SessionInv(t)'  BY <1>9
<1> QED  BY <1>7, <1>8, <1>10, <1>11, <1>12, <1>13, OneClientStep

\* closeAll leaves the client closed, whether it was before or not.
LEMMA closeAllFacts ==
  ASSUME MuxInv, NEW c \in Clients, NEW r \in ClientType,
         r.closed = client[c].closed, r.sessions = client[c].sessions,
         r.pending = client[c].pending, r.connecting => client[c].connecting
  PROVE  LET q == closeAll(c, r)
         IN  /\ q \in ClientType /\ q.closed /\ ~q.connecting /\ q.sessions = {}
             /\ q.pending = {} /\ q.writes = r.writes /\ q.sending = r.sending
<1>1. ClientInv(c)  BY DEF MuxInv
<1>2. CASE client[c].closed  BY <1>1, <1>2 DEF closeAll, ClientInv
<1>3. CASE ~client[c].closed  BY <1>3, ClosedClientFacts DEF closeAll
<1> QED  BY <1>2, <1>3

-----------------------------------------------------------------------------
(* The actions. *)

\* What the lemmas below start from.
LEMMA AskedFacts ==
  ASSUME MuxInv, NEW s \in Sessions, session[s].phase # "none"
  PROVE  LET c == session[s].client
         IN  /\ c \in Clients /\ c <= created /\ client[c] \in ClientType
             /\ session[s] \in SessionType /\ ClientInv(c) /\ SessionInv(s)
             /\ session[s].closed \/ session[s].phase = "over" \/ s \in client[c].sessions
BY DEF MuxInv, MuxType, SessionType, SessionInv

\* SendDatagram keeps MuxInv.
LEMMA SendDatagramInv ==
  ASSUME MuxInv, NEW s \in Sessions, SendDatagram(s)
  PROVE  MuxInv'
<1> DEFINE c == session[s].client
           R == SendAsync(client[c], s, session[s], 1)
           Z == Sent(session[s], 1)
<1>1. session[s].phase = "held" /\ ~session[s].closed  BY DEF SendDatagram
<1>2. /\ c \in Clients /\ client[c] \in ClientType /\ session[s] \in SessionType
      /\ ClientInv(c) /\ SessionInv(s) /\ s \in client[c].sessions
  BY <1>1, AskedFacts
<1>3. /\ client' = [client EXCEPT ![c] = R]
      /\ session' = [session EXCEPT ![s] = Z]
      /\ UNCHANGED <<xudpEnabled, clients, created, asked>>
      /\ wire' \in [Sessions -> Seq({"new", "keep", "end"})]
  BY DEF SendDatagram, MuxInv, MuxType
<1>4. /\ Z \in SessionType /\ Z.client = c /\ Z.phase = "held" /\ ~Z.closed
  BY <1>1, <1>2, SentFacts
<1>5. /\ R \in ClientType /\ SameState(R, client[c]) /\ R.sessions = client[c].sessions
      /\ R.pending = client[c].pending /\ R.sending = client[c].sending
      /\ Owners(R.writes) \subseteq Owners(client[c].writes) \cup {s}
  <2>1. 1 \in Nat  OBVIOUS
  <2> QED  BY <1>2, <2>1, SendAsyncFacts, ZenonT(60)
<1>6. s \notin client[c].pending /\ (~client[c].closed => client[c].connected)
  BY <1>1, <1>2 DEF ClientInv, SessionInv
<1>7. R.closed = client[c].closed /\ R.connected = client[c].connected  BY <1>5 DEF SameState
<1> HIDE DEF R, Z
<1> QED  BY <1>1, <1>2, <1>3, <1>4, <1>5, <1>6, <1>7, OneSessionStep

\* WaiterResumes keeps MuxInv.
LEMMA WaiterResumesInv ==
  ASSUME MuxInv, NEW s \in Sessions, WaiterResumes(s)
  PROVE  MuxInv'
<1> DEFINE c == session[s].client
           R == IF session[s].cancelled THEN Uncreated(client[c], s) ELSE Proceed(client[c], s)
           Z == IF session[s].cancelled THEN Over(session[s])
                ELSE [session[s] EXCEPT !.phase = ProceedPhase(client[c])]
<1>1. session[s].phase = "resumed"  BY DEF WaiterResumes
<1>2. /\ c \in Clients /\ client[c] \in ClientType /\ session[s] \in SessionType
      /\ ClientInv(c) /\ SessionInv(s)
      /\ session[s].closed \/ s \in client[c].sessions
  BY <1>1, AskedFacts
<1>3. /\ client' = [client EXCEPT ![c] = R]
      /\ session' = [session EXCEPT ![s] = Z]
      /\ UNCHANGED <<xudpEnabled, clients, created, asked>>
      /\ wire' \in [Sessions -> Seq({"new", "keep", "end"})]
  BY DEF WaiterResumes, MuxInv, MuxType
<1>4. ProceedPhase(client[c]) \in {"created", "over", "writing"}  BY DEF ProceedPhase
<1>5. /\ Z \in SessionType /\ Z.client = c /\ Z.closed = session[s].closed
      /\ Z.phase \in {"created", "over", "writing"}
      /\ Z.phase = IF session[s].cancelled THEN "over" ELSE ProceedPhase(client[c])
  BY <1>2, <1>4, OverFacts DEF SessionType, Phases
<1>6. /\ R \in ClientType /\ SameState(R, client[c])
      /\ R.sessions = IF session[s].cancelled \/ (~xudpEnabled /\ client[c].closed)
                      THEN client[c].sessions \ {s} ELSE client[c].sessions
      /\ R.pending = client[c].pending /\ R.sending = client[c].sending
  BY <1>2, ProceedFacts, UncreatedFacts
<1>7. Owners(R.writes) \subseteq Owners(client[c].writes) \cup {s}
  <2>1. R.writes \in {client[c].writes, Append(client[c].writes, Frame(s, "new"))}
    BY <1>2, ProceedFacts, UncreatedFacts
  <2>2. Frame(s, "new") \in FrameType /\ Frame(s, "new").session = s  BY DEF Frame, FrameType
  <2>3. client[c].writes \in Seq(FrameType)  BY <1>2 DEF ClientType
  <2>4. Owners(Append(client[c].writes, Frame(s, "new"))) = Owners(client[c].writes) \cup {s}
    BY <2>2, <2>3, OwnersFacts
  <2> HIDE DEF R
  <2> QED  BY <2>1, <2>4
<1>8. s \notin client[c].pending /\ (~client[c].closed => client[c].connected)
  BY <1>1, <1>2 DEF ClientInv, SessionInv
<1>9. R.closed = client[c].closed /\ R.connected = client[c].connected  BY <1>6 DEF SameState
<1> HIDE DEF R, Z
<1>10. s \in R.sessions => Z.phase # "over" /\ ~Z.closed
  BY <1>2, <1>5, <1>6 DEF ProceedPhase, ClientInv
<1>11. Z.phase # "over" /\ ~Z.closed => s \in R.sessions
  BY <1>2, <1>5, <1>6 DEF ProceedPhase
<1> QED
  BY <1>1, <1>2, <1>3, <1>5, <1>6, <1>7, <1>8, <1>9, <1>10, <1>11, OneSessionStep

\* WaiterThrows keeps MuxInv.
LEMMA WaiterThrowsInv ==
  ASSUME MuxInv, NEW s \in Sessions, WaiterThrows(s)
  PROVE  MuxInv'
<1> DEFINE c == session[s].client
           Q == [client[c] EXCEPT !.pending = @ \ {s}]
           R == Uncreated(Q, s)
           Z == Over(session[s])
<1>1. session[s].phase \in {"refused", "waiting"}  BY DEF WaiterThrows
<1>2. /\ c \in Clients /\ client[c] \in ClientType /\ session[s] \in SessionType
  BY <1>1, AskedFacts
<1>3. /\ client' = [client EXCEPT ![c] = R]
      /\ session' = [session EXCEPT ![s] = Z]
      /\ UNCHANGED <<xudpEnabled, clients, created, asked>>
      /\ wire' \in [Sessions -> Seq({"new", "keep", "end"})]
  BY DEF WaiterThrows, MuxInv, MuxType
<1>4. Z \in SessionType /\ Z.client = c /\ Z.phase = "over"  BY <1>2, OverFacts
<1>5. /\ R \in ClientType /\ SameState(R, client[c])
      /\ R.sessions = client[c].sessions \ {s} /\ R.pending = client[c].pending \ {s}
      /\ R.sending = client[c].sending /\ R.writes = client[c].writes
  <2>1. /\ Q \in ClientType /\ SameState(Q, client[c]) /\ Q.sessions = client[c].sessions
        /\ Q.pending = client[c].pending \ {s}
        /\ Q.sending = client[c].sending /\ Q.writes = client[c].writes
    BY <1>2 DEF ClientType, SameState
  <2> HIDE DEF Q
  <2> QED  BY <2>1, UncreatedFacts DEF SameState
<1> HIDE DEF R, Z
<1> QED  BY <1>1, <1>2, <1>3, <1>4, <1>5, OneSessionStep

\* LockThrows keeps MuxInv.
LEMMA LockThrowsInv ==
  ASSUME MuxInv, NEW s \in Sessions, LockThrows(s)
  PROVE  MuxInv'
<1> DEFINE c == session[s].client
           Z == Over(session[s])
<1>1. session[s].phase = "writing"  BY DEF LockThrows
<1>2. /\ c \in Clients /\ client[c] \in ClientType /\ session[s] \in SessionType
      /\ ClientInv(c)
  BY <1>1, AskedFacts
<1>3. PICK i \in DOMAIN client[c].writes :
        client' = [client EXCEPT ![c] =
          Uncreated([client[c] EXCEPT !.writes = RemoveAt(@, i),
                                      !.sending = IF i = 1 THEN ~client[c].closed ELSE @], s)]
  BY DEF LockThrows
<1> DEFINE ws == RemoveAt(client[c].writes, i)
           b == IF i = 1 THEN ~client[c].closed ELSE client[c].sending
           Q == [client[c] EXCEPT !.writes = ws, !.sending = b]
           R == Uncreated(Q, s)
<1>4. /\ client' = [client EXCEPT ![c] = R]
      /\ session' = [session EXCEPT ![s] = Z]
      /\ UNCHANGED <<xudpEnabled, clients, created, asked>>
      /\ wire' \in [Sessions -> Seq({"new", "keep", "end"})]
  BY <1>3 DEF LockThrows, MuxInv, MuxType
<1>5. Z \in SessionType /\ Z.client = c /\ Z.phase = "over"  BY <1>2, OverFacts
<1>6. ws \in Seq(FrameType) /\ Owners(ws) \subseteq Owners(client[c].writes)
  <2>1. client[c].writes \in Seq(FrameType)  BY <1>2 DEF ClientType
  <2> QED  BY <2>1, OwnersFacts
<1>7. b \in BOOLEAN /\ (b = client[c].sending \/ b = ~client[c].closed)
  BY <1>2 DEF ClientType
<1> HIDE DEF ws, b
<1>8. /\ Q \in ClientType /\ SameState(Q, client[c]) /\ Q.sessions = client[c].sessions
      /\ Q.pending = client[c].pending /\ Q.sending = b /\ Q.writes = ws
  BY <1>2, <1>6, <1>7 DEF ClientType, SameState
<1> HIDE DEF Q
<1>9. /\ R \in ClientType /\ SameState(R, client[c])
      /\ R.sessions = client[c].sessions \ {s} /\ R.pending = client[c].pending
      /\ R.sending = b /\ R.writes = ws
  BY <1>8, UncreatedFacts DEF SameState
<1> HIDE DEF R, Z
<1>10. s \notin client[c].pending  BY <1>1, <1>2 DEF ClientInv
<1>11. R.sending = client[c].sending \/ R.sending = ~R.closed  BY <1>7, <1>9 DEF SameState
<1> QED  BY <1>1, <1>2, <1>4, <1>5, <1>6, <1>9, <1>10, <1>11, OneSessionStep

\* ReceiveEnd keeps MuxInv.
LEMMA ReceiveEndInv ==
  ASSUME MuxInv, NEW s \in Sessions, ReceiveEnd(s)
  PROVE  MuxInv'
<1> DEFINE c == session[s].client
           R == [client[c] EXCEPT !.sessions = @ \ {s}]
           Z == deliverClose(session[s])
<1>0. c \in Clients /\ ClientInv(c)  BY DEF MuxInv, MuxType, SessionType
<1>1. s \in client[c].sessions /\ session[s].phase \notin {"none", "over"}
  BY <1>0 DEF ReceiveEnd, ClientInv
<1>2. /\ client[c] \in ClientType /\ session[s] \in SessionType /\ SessionInv(s)
  BY <1>1, AskedFacts
<1>3. /\ client' = [client EXCEPT ![c] = R]
      /\ session' = [session EXCEPT ![s] = Z]
      /\ UNCHANGED <<xudpEnabled, clients, created, asked>>
      /\ wire' \in [Sessions -> Seq({"new", "keep", "end"})]
  BY DEF ReceiveEnd, MuxInv, MuxType
<1>4. /\ Z \in SessionType /\ Z.client = c /\ Z.phase = session[s].phase /\ Z.closed
      /\ Z.phase = "held" => Z.ended
  BY <1>2, deliverCloseFacts DEF SessionInv
<1>5. /\ R \in ClientType /\ SameState(R, client[c])
      /\ R.sessions = client[c].sessions \ {s} /\ R.pending = client[c].pending
      /\ R.sending = client[c].sending /\ R.writes = client[c].writes
  BY <1>2 DEF ClientType, SameState
<1>6. /\ s \in client[c].pending <=> session[s].phase = "waiting"
      /\ session[s].phase \in {"resumed", "writing", "created", "held"} /\ ~client[c].closed
           => client[c].connected
  BY <1>0, <1>2 DEF ClientInv, SessionInv
<1>7. R.closed = client[c].closed /\ R.connected = client[c].connected  BY <1>5 DEF SameState
<1> HIDE DEF R, Z
<1> QED  BY <1>1, <1>2, <1>3, <1>4, <1>5, <1>6, <1>7, OneSessionStep

\* FlowTakesSession keeps MuxInv.
LEMMA FlowTakesSessionInv ==
  ASSUME MuxInv, NEW s \in Sessions, FlowTakesSession(s)
  PROVE  MuxInv'
<1> DEFINE c == session[s].client
           z == session[s]
<1>1. z.phase = "created"  BY DEF FlowTakesSession
<1>2. /\ c \in Clients /\ client[c] \in ClientType /\ z \in SessionType
      /\ ClientInv(c) /\ SessionInv(s) /\ (z.closed \/ s \in client[c].sessions)
  BY <1>1, AskedFacts
<1>3. s \notin client[c].pending /\ (~client[c].closed => client[c].connected)
  BY <1>1, <1>2 DEF ClientInv, SessionInv
<1>4. /\ UNCHANGED <<xudpEnabled, clients, created, asked>>
      /\ wire' \in [Sessions -> Seq({"new", "keep", "end"})]
  BY DEF FlowTakesSession, MuxInv, MuxType
<1>5. z.closed => s \notin client[c].sessions  BY <1>2 DEF ClientInv
<1>6. CASE /\ z.cancelled
           /\ client' = [client EXCEPT ![c] = ClientAfterClose(@, s)]
           /\ session' = [session EXCEPT ![s] = Over([@ EXCEPT !.closed = TRUE])]
  <2> DEFINE R == ClientAfterClose(client[c], s)
             Y == [z EXCEPT !.closed = TRUE]
             Z == Over(Y)
  <2>1. /\ R \in ClientType /\ SameState(R, client[c]) /\ R.sessions = client[c].sessions \ {s}
        /\ R.pending = client[c].pending /\ R.sending = client[c].sending
    BY <1>2, <1>5, ClientAfterCloseFacts
  <2>2. Owners(R.writes) \subseteq Owners(client[c].writes) \cup {s}
    <3>1. R.writes \in {client[c].writes, Append(client[c].writes, Frame(s, "end"))}
      BY <1>2, <1>5, ClientAfterCloseFacts
    <3>2. Frame(s, "end") \in FrameType /\ Frame(s, "end").session = s  BY DEF Frame, FrameType
    <3>3. client[c].writes \in Seq(FrameType)  BY <1>2 DEF ClientType
    <3>4. Owners(Append(client[c].writes, Frame(s, "end"))) = Owners(client[c].writes) \cup {s}
      BY <3>2, <3>3, OwnersFacts
    <3> HIDE DEF R
    <3> QED  BY <3>1, <3>4
  <2>3. Y \in SessionType /\ Y.client = c  BY <1>2 DEF SessionType
  <2>4. client' = [client EXCEPT ![c] = R] /\ session' = [session EXCEPT ![s] = Z]
    BY <1>6
  <2> HIDE DEF R, Y
  <2>5. Z \in SessionType /\ Z.client = c /\ Z.phase = "over"  BY <2>3, OverFacts
  <2> HIDE DEF Z
  <2> QED  BY <1>1, <1>2, <1>3, <1>4, <2>1, <2>2, <2>4, <2>5, OneSessionStep
<1>7. CASE /\ AlreadyClosed(s) /\ client' = client
           /\ session' = [session EXCEPT ![s] = Over(@)]
  <2> DEFINE R == client[c]
             Z == Over(z)
  <2>1. client' = [client EXCEPT ![c] = R] /\ session' = [session EXCEPT ![s] = Z]
    BY <1>2, <1>7 DEF MuxInv, MuxType
  <2>2. Z \in SessionType /\ Z.client = c /\ Z.phase = "over"  BY <1>2, OverFacts
  <2>3. SameState(R, client[c])  BY DEF SameState
  <2>4. s \notin R.sessions  BY <1>5, <1>7 DEF AlreadyClosed
  <2> HIDE DEF Z
  <2> QED  BY <1>1, <1>2, <1>3, <1>4, <2>1, <2>2, <2>3, <2>4, OneSessionStep
<1>8. ASSUME ~AlreadyClosed(s), NEW k \in 0..MaxSends,
             client' = [client EXCEPT ![c] = SendAsync(@, s, z, k)],
             session' = [session EXCEPT ![s] = Sent([@ EXCEPT !.phase = "held"], k)]
      PROVE  MuxInv'
  <2> DEFINE R == SendAsync(client[c], s, z, k)
             Y == [z EXCEPT !.phase = "held"]
             Z == Sent(Y, k)
  <2>1. k \in Nat  BY BoundAssumption
  <2>2. /\ R \in ClientType /\ SameState(R, client[c]) /\ R.sessions = client[c].sessions
        /\ R.pending = client[c].pending /\ R.sending = client[c].sending
        /\ Owners(R.writes) \subseteq Owners(client[c].writes) \cup {s}
    BY <1>2, <2>1, SendAsyncFacts, ZenonT(60)
  <2>3. Y \in SessionType /\ Y.client = c /\ Y.phase = "held" /\ Y.closed = z.closed
    BY <1>2 DEF SessionType, Phases
  <2>4. client' = [client EXCEPT ![c] = R] /\ session' = [session EXCEPT ![s] = Z]
    BY <1>8
  <2> HIDE DEF R, Y
  <2>5. Z \in SessionType /\ Z.client = c /\ Z.phase = "held" /\ Z.closed = z.closed
    BY <2>1, <2>3, SentFacts
  <2>6. ~Z.closed /\ s \in client[c].sessions  BY <1>2, <1>8, <2>5 DEF AlreadyClosed
  <2>7. R.closed = client[c].closed /\ R.connected = client[c].connected
    BY <2>2 DEF SameState
  <2> HIDE DEF Z
  <2> QED  BY <1>1, <1>2, <1>3, <1>4, <2>2, <2>4, <2>5, <2>6, <2>7, OneSessionStep
<1> QED  BY <1>6, <1>7, <1>8 DEF FlowTakesSession

\* CloseFlow keeps MuxInv.
LEMMA CloseFlowInv ==
  ASSUME MuxInv, NEW s \in Sessions, CloseFlow(s)
  PROVE  MuxInv'
<1> DEFINE c == session[s].client
           z == session[s]
<1>1. z.phase \notin {"none", "over"}  BY DEF CloseFlow
<1>2. /\ c \in Clients /\ client[c] \in ClientType /\ z \in SessionType
      /\ ClientInv(c) /\ SessionInv(s) /\ (z.closed \/ s \in client[c].sessions)
  BY <1>1, AskedFacts
<1>3. /\ UNCHANGED <<xudpEnabled, clients, created, asked>>
      /\ wire' \in [Sessions -> Seq({"new", "keep", "end"})]
  BY DEF CloseFlow, MuxInv, MuxType
<1>4. z.closed => s \notin client[c].sessions  BY <1>2 DEF ClientInv
<1>5. CASE z.phase = "held"
  <2> DEFINE R == ClientAfterClose(client[c], s)
             Z == [Over(z) EXCEPT !.closed = TRUE, !.cancelled = TRUE]
  <2>1. /\ R \in ClientType /\ SameState(R, client[c]) /\ R.sessions = client[c].sessions \ {s}
        /\ R.pending = client[c].pending /\ R.sending = client[c].sending
    BY <1>2, <1>4, ClientAfterCloseFacts
  <2>2. Owners(R.writes) \subseteq Owners(client[c].writes) \cup {s}
    <3>1. R.writes \in {client[c].writes, Append(client[c].writes, Frame(s, "end"))}
      BY <1>2, <1>4, ClientAfterCloseFacts
    <3>2. Frame(s, "end") \in FrameType /\ Frame(s, "end").session = s  BY DEF Frame, FrameType
    <3>3. client[c].writes \in Seq(FrameType)  BY <1>2 DEF ClientType
    <3>4. Owners(Append(client[c].writes, Frame(s, "end"))) = Owners(client[c].writes) \cup {s}
      BY <3>2, <3>3, OwnersFacts
    <3> HIDE DEF R
    <3> QED  BY <3>1, <3>4
  <2>3. client' = [client EXCEPT ![c] = R] /\ session' = [session EXCEPT ![s] = Z]
    BY <1>5 DEF CloseFlow
  <2>4. Z \in SessionType /\ Z.client = c /\ Z.phase = "over"
    BY <1>2, OverFacts DEF SessionType
  <2>5. s \notin client[c].pending  BY <1>2, <1>5 DEF ClientInv
  <2> HIDE DEF R, Z
  <2> QED  BY <1>1, <1>2, <1>3, <1>5, <2>1, <2>2, <2>3, <2>4, <2>5, OneSessionStep
<1>6. CASE z.phase # "held"
  <2> DEFINE R == client[c]
             Z == [z EXCEPT !.cancelled = TRUE]
  <2>1. client' = [client EXCEPT ![c] = R] /\ session' = [session EXCEPT ![s] = Z]
    BY <1>2, <1>6 DEF CloseFlow, MuxInv, MuxType
  <2>2. /\ Z \in SessionType /\ Z.client = c /\ Z.phase = z.phase /\ Z.closed = z.closed
    BY <1>2 DEF SessionType
  <2>3. SameState(R, client[c])  BY DEF SameState
  <2>4. /\ s \in client[c].pending <=> z.phase = "waiting"
        /\ z.phase \in {"resumed", "writing", "created", "held"} /\ ~client[c].closed
             => client[c].connected
    BY <1>2 DEF ClientInv, SessionInv
  <2> HIDE DEF Z
  <2> QED  BY <1>1, <1>2, <1>3, <1>4, <1>6, <2>1, <2>2, <2>3, <2>4, OneSessionStep
<1> QED  BY <1>5, <1>6

\* DialFails keeps MuxInv.
LEMMA DialFailsInv ==
  ASSUME MuxInv, NEW s \in Sessions, DialFails(s)
  PROVE  MuxInv'
<1>1. session[s].phase = "dialing"  BY DEF DialFails
<1>2. PICK c \in Clients : c = session[s].client
  BY <1>1, AskedFacts
<1>3. c <= created /\ client[c] \in ClientType /\ session[s] \in SessionType
  BY <1>1, <1>2, AskedFacts
<1> DEFINE q == [client[c] EXCEPT !.connecting = FALSE]
           r == closeAll(c, q)
           R == Uncreated(r, s)
           zs == SessionsAfterCloseAll(c, session)
<1>4. client' = [client EXCEPT ![c] = R] /\ session' = [zs EXCEPT ![s] = Over(@)]
  BY <1>2 DEF DialFails
<1>5. UNCHANGED <<xudpEnabled, clients, created, asked, wire>>  BY DEF DialFails
<1>6. /\ q \in ClientType /\ q.closed = client[c].closed /\ q.sessions = client[c].sessions
      /\ q.pending = client[c].pending /\ ~q.connecting /\ q.writes = client[c].writes
  BY <1>3 DEF ClientType
<1> HIDE DEF q
<1>7. /\ r \in ClientType /\ r.closed /\ ~r.connecting /\ r.sessions = {}
      /\ r.pending = {} /\ r.writes = client[c].writes
  BY <1>6, closeAllFacts
<1> HIDE DEF r
<1>8. /\ R \in ClientType /\ R.closed /\ ~R.connecting /\ R.sessions = {}
      /\ R.pending = {} /\ R.writes = client[c].writes
  BY <1>7, UncreatedFacts DEF SameState
<1> HIDE DEF R
<1>9. zs = [t \in Sessions |-> zs[t]]
  BY DEF SessionsAfterCloseAll, MuxInv, MuxType
<1> HIDE DEF zs
<1>10. session' = [t \in Sessions |-> LET y == zs[t] IN IF t \in {s} THEN Over(y) ELSE y]
  BY <1>4, <1>9
<1> QED
  <2>1. {s} \in SUBSET Sessions /\ \A t \in {s} : session[t].client = c /\ session[t].phase # "none"
    BY <1>1, <1>2
  <2> QED  BY <1>3, <1>4, <1>5, <1>8, <1>10, <2>1, CloseStep DEF zs

\* ClientCloses keeps MuxInv.
LEMMA ClientClosesInv ==
  ASSUME MuxInv, NEW c \in Clients, ClientCloses(c)
  PROVE  MuxInv'
<1>1. client[c] \in ClientType /\ ClientInv(c)  BY DEF MuxInv, MuxType
<1> DEFINE R == closeAll(c, client[c])
           zs == SessionsAfterCloseAll(c, session)
<1>2. client' = [client EXCEPT ![c] = R] /\ session' = zs
  BY DEF ClientCloses
<1>3. UNCHANGED <<xudpEnabled, clients, created, asked, wire>>  BY DEF ClientCloses
<1>4. /\ R \in ClientType /\ R.closed /\ ~R.connecting /\ R.sessions = {}
      /\ R.pending = {} /\ R.writes = client[c].writes
  BY <1>1, closeAllFacts
<1> HIDE DEF R
<1>5. zs = [t \in Sessions |-> zs[t]]
  BY DEF SessionsAfterCloseAll, MuxInv, MuxType
<1> HIDE DEF zs
<1>6. session' = [t \in Sessions |-> LET y == zs[t] IN IF t \in {} THEN Over(y) ELSE y]
  BY <1>2, <1>5
<1>7. {} \in SUBSET Sessions  OBVIOUS
<1>8. c <= created
  <2>1. client[c].link = "open" \/ client[c].idleTimer  BY DEF ClientCloses
  <2> QED  BY <1>1, <2>1 DEF MuxInv, MuxType, ClientInv
<1> QED  BY <1>2, <1>3, <1>4, <1>6, <1>7, <1>8, CloseStep DEF zs

\* WriteFails keeps MuxInv.
LEMMA WriteFailsInv ==
  ASSUME MuxInv, NEW c \in Clients, WriteFails(c)
  PROVE  MuxInv'
<1>1. client[c] \in ClientType /\ ClientInv(c) /\ client[c].writes # <<>>
  BY DEF MuxInv, MuxType, WriteFails
<1>2. client[c].writes \in Seq(FrameType)  BY <1>1 DEF ClientType
<1>3. PICK s \in Sessions : s = Head(client[c].writes).session
  BY <1>1, <1>2, OwnersFacts
<1>4. s \in Owners(client[c].writes)  BY <1>1, <1>2, <1>3, OwnersFacts
<1>5. session[s].client = c /\ session[s].phase # "none"  BY <1>1, <1>4 DEF ClientInv
<1>6. c <= created  BY <1>5, AskedFacts
<1> DEFINE failed == session[s].phase = "writing" /\ Head(client[c].writes).status = "new"
           q == [Written(client[c]) EXCEPT !.sending = FALSE]
           r == closeAll(c, q)
           R == IF failed THEN Uncreated(r, s) ELSE r
           zs == SessionsAfterCloseAll(c, session)
           X == IF failed THEN {s} ELSE {}
<1>7. /\ client' = [client EXCEPT ![c] = R]
      /\ session' = IF failed THEN [zs EXCEPT ![s] = Over(@)] ELSE zs
      /\ UNCHANGED <<xudpEnabled, clients, created, asked, wire>>
  BY <1>3 DEF WriteFails
<1>8. /\ q \in ClientType /\ q.closed = client[c].closed /\ q.sessions = client[c].sessions
      /\ q.pending = client[c].pending /\ q.connecting = client[c].connecting
      /\ q.writes = Tail(client[c].writes)
  <2>1. /\ Written(client[c]) \in ClientType /\ SameState(Written(client[c]), client[c])
        /\ Written(client[c]).sessions = client[c].sessions
        /\ Written(client[c]).pending = client[c].pending
        /\ Written(client[c]).writes = Tail(client[c].writes)
    BY <1>1, WrittenFacts
  <2> QED  BY <2>1 DEF ClientType, SameState
<1> HIDE DEF q
<1>9. /\ r \in ClientType /\ r.closed /\ ~r.connecting /\ r.sessions = {}
      /\ r.pending = {} /\ r.writes = Tail(client[c].writes)
  BY <1>8, closeAllFacts
<1> HIDE DEF r
<1>10. /\ R \in ClientType /\ R.closed /\ ~R.connecting /\ R.sessions = {}
       /\ R.pending = {} /\ R.writes = Tail(client[c].writes)
  BY <1>9, UncreatedFacts DEF SameState
<1>11. Owners(R.writes) \subseteq Owners(client[c].writes)
  BY <1>1, <1>2, <1>10, OwnersFacts
<1> HIDE DEF R
<1>12. zs = [t \in Sessions |-> zs[t]]
  BY DEF SessionsAfterCloseAll, MuxInv, MuxType
<1> HIDE DEF zs
<1>13. session' = [t \in Sessions |-> LET y == zs[t] IN IF t \in X THEN Over(y) ELSE y]
  BY <1>7, <1>12
<1>14. X \in SUBSET Sessions /\ \A t \in X : session[t].client = c /\ session[t].phase # "none"
  BY <1>5
<1> HIDE DEF X
<1> QED  BY <1>6, <1>7, <1>10, <1>11, <1>13, <1>14, CloseStep DEF zs

\* WriteDone keeps MuxInv.
LEMMA WriteDoneInv ==
  ASSUME MuxInv, NEW c \in Clients, WriteDone(c)
  PROVE  MuxInv'
<1>1. client[c] \in ClientType /\ ClientInv(c) /\ client[c].writes # <<>>
  BY DEF MuxInv, MuxType, WriteDone
<1>2. client[c].writes \in Seq(FrameType)  BY <1>1 DEF ClientType
<1>3. PICK f \in FrameType : f = Head(client[c].writes)
  BY <1>1, <1>2, OwnersFacts
<1>4. PICK s \in Sessions : s = f.session  BY DEF FrameType
<1>5. s \in Owners(client[c].writes)  BY <1>1, <1>2, <1>3, <1>4, OwnersFacts
<1>6. session[s].client = c /\ session[s].phase # "none"  BY <1>1, <1>5 DEF ClientInv
<1>7. session[s] \in SessionType /\ SessionInv(s)  BY DEF MuxInv, MuxType
<1> DEFINE R == Written(client[c])
           Z == IF session[s].phase = "writing" /\ f.status = "new"
                THEN [session[s] EXCEPT !.phase = "created"] ELSE session[s]
<1>8. /\ R \in ClientType /\ SameState(R, client[c]) /\ R.sessions = client[c].sessions
      /\ R.pending = client[c].pending /\ R.writes = Tail(client[c].writes)
      /\ R.sending = ~client[c].closed
  BY <1>1, WrittenFacts
<1>9. client' = [client EXCEPT ![session[s].client] = R]
  BY <1>6 DEF WriteDone
<1>10. session' = [session EXCEPT ![s] = Z]
  BY <1>3, <1>4 DEF WriteDone, MuxInv, MuxType
<1>11. UNCHANGED <<xudpEnabled, clients, created, asked>>  BY DEF WriteDone
<1>12. wire' \in [Sessions -> Seq({"new", "keep", "end"})]
  <2>1. wire' = [wire EXCEPT ![s] = Append(@, f.status)]  BY <1>3, <1>4 DEF WriteDone
  <2>2. f.status \in {"new", "keep", "end"}  BY DEF FrameType
  <2>3. wire \in [Sessions -> Seq({"new", "keep", "end"})]  BY DEF MuxInv, MuxType
  <2> QED  BY <2>1, <2>2, <2>3
<1>13. Owners(R.writes) \subseteq Owners(client[c].writes) \cup {s}
  BY <1>1, <1>2, <1>8, OwnersFacts
<1>14. R.closed = client[c].closed /\ R.connected = client[c].connected  BY <1>8 DEF SameState
<1>15. /\ Z \in SessionType /\ Z.client = c /\ Z.closed = session[s].closed
       /\ Z.ended = session[s].ended
       /\ \/ Z.phase = session[s].phase
          \/ session[s].phase = "writing" /\ Z.phase = "created"
  BY <1>6, <1>7 DEF SessionType, Phases
<1>16. /\ s \in client[c].pending <=> session[s].phase = "waiting"
       /\ s \in client[c].sessions => ~session[s].closed /\ session[s].phase # "over"
       /\ ~session[s].closed => session[s].phase = "over" \/ s \in client[c].sessions
       /\ session[s].phase \in {"resumed", "writing", "created", "held"} /\ ~client[c].closed
            => client[c].connected
       /\ session[s].phase = "held" /\ session[s].closed => session[s].ended
  BY <1>1, <1>6, <1>7 DEF ClientInv, SessionInv
<1> HIDE DEF R, Z
<1> QED
  BY <1>6, <1>8, <1>9, <1>10, <1>11, <1>12, <1>13, <1>14, <1>15, <1>16, OneSessionStep,
     ZenonT(60)

\* DialSucceeds keeps MuxInv.
LEMMA DialSucceedsInv ==
  ASSUME MuxInv, NEW s \in Sessions, DialSucceeds(s)
  PROVE  MuxInv'
<1>1. session[s].phase = "dialing"  BY DEF DialSucceeds
<1>2. PICK c \in Clients : c = session[s].client
  BY <1>1, AskedFacts
<1>3. PICK r \in ClientType : r = client[c]  BY DEF MuxInv, MuxType
<1>4. /\ c <= created /\ session[s] \in SessionType /\ ClientInv(c) /\ SessionInv(s)
      /\ session[s].closed \/ s \in r.sessions
  BY <1>1, <1>2, <1>3, AskedFacts
<1> DEFINE p(up) == [r EXCEPT !.connected = TRUE, !.connecting = FALSE, !.pending = {}, !.link = up]
           q(up) == resetIdleTimer(p(up))
<1>5. PICK up \in {"open", "dead"} :
        /\ up = "dead" => r.closed
        /\ client' = [client EXCEPT ![c] = Proceed(q(up), s)]
        /\ session' = [z \in Sessions |->
                         IF z = s THEN [session[z] EXCEPT !.phase = ProceedPhase(q(up))]
                         ELSE IF z \in r.pending THEN [session[z] EXCEPT !.phase = "resumed"]
                         ELSE session[z]]
  BY <1>2, <1>3 DEF DialSucceeds
<1> DEFINE P == p(up)
           Q == q(up)
           R == Proceed(Q, s)
<1>6. /\ P \in ClientType /\ P.closed = r.closed /\ ~P.connecting /\ P.connected /\ P.link = up
      /\ P.sessions = r.sessions /\ P.pending = {} /\ P.writes = r.writes
      /\ P.sending = r.sending
  BY DEF ClientType
<1>7. /\ Q \in ClientType /\ Q.closed = r.closed /\ ~Q.connecting /\ Q.connected /\ Q.link = up
      /\ Q.sessions = r.sessions /\ Q.pending = {} /\ Q.writes = r.writes
      /\ Q.sending = r.sending
  <2> HIDE DEF p
  <2> QED  BY <1>6, resetIdleTimerFacts DEF SameState
<1>8. /\ client' = [client EXCEPT ![c] = R]
      /\ session' = [z \in Sessions |->
                         IF z = s THEN [session[z] EXCEPT !.phase = ProceedPhase(Q)]
                         ELSE IF z \in r.pending THEN [session[z] EXCEPT !.phase = "resumed"]
                         ELSE session[z]]
  BY <1>5
<1> HIDE DEF p, q, P, Q
<1>9. /\ R \in ClientType /\ R.closed = r.closed /\ ~R.connecting /\ R.connected /\ R.link = up
      /\ R.sessions = IF ~xudpEnabled /\ r.closed THEN r.sessions \ {s} ELSE r.sessions
      /\ R.pending = {} /\ R.sending = r.sending
      /\ R.writes \in {r.writes, Append(r.writes, Frame(s, "new"))}
  <2>1. /\ R \in ClientType /\ SameState(R, Q)
        /\ R.sessions = IF ~xudpEnabled /\ Q.closed THEN Q.sessions \ {s} ELSE Q.sessions
        /\ R.pending = Q.pending /\ R.sending = Q.sending
    BY <1>7, ProceedFacts
  <2>2. R.writes \in {Q.writes, Append(Q.writes, Frame(s, "new"))}
    BY <1>7, ProceedFacts
  <2> HIDE DEF R
  <2> QED  BY <1>7, <2>1, <2>2 DEF SameState
<1>10. ProceedPhase(Q) = IF xudpEnabled THEN "created" ELSE IF r.closed THEN "over" ELSE "writing"
  BY <1>7 DEF ProceedPhase
<1> HIDE DEF R
<1>11. r.sessions \subseteq Sessions /\ r.pending \subseteq Sessions /\ r.writes \in Seq(FrameType)
  BY DEF ClientType
<1>12. s \notin r.pending  BY <1>1, <1>3, <1>4 DEF ClientInv
<1>13. /\ session'[s] \in SessionType /\ session'[s].client = c
       /\ session'[s].closed = session[s].closed
       /\ session'[s].phase = ProceedPhase(Q)
  <2>1. session'[s] = [session[s] EXCEPT !.phase = ProceedPhase(Q)]  BY <1>8
  <2>2. ProceedPhase(Q) \in Phases  BY <1>10 DEF Phases
  <2> QED  BY <1>2, <1>4, <2>1, <2>2 DEF SessionType
<1>14. \A t \in r.pending : /\ session'[t] \in SessionType /\ session'[t].client = c
                            /\ session'[t].closed = session[t].closed
                            /\ session'[t].phase = "resumed"
  <2> TAKE t \in r.pending
  <2>1. /\ t \in Sessions /\ session[t] \in SessionType /\ session[t].client = c
        /\ session'[t] = [session[t] EXCEPT !.phase = "resumed"]
    BY <1>3, <1>4, <1>8, <1>11, <1>12 DEF ClientInv, MuxInv, MuxType
  <2> QED  BY <2>1 DEF SessionType, Phases
<1>15. \A t \in Sessions : t # s /\ t \notin r.pending => session'[t] = session[t]
  BY <1>8
<1>16. \A t \in Sessions : /\ session'[t] \in SessionType
                           /\ session'[t].client = session[t].client
                           /\ session'[t].closed = session[t].closed
                           /\ session'[t] # session[t] => session[t].client = c
                           /\ session[t].phase # "none" => session'[t].phase # "none"
  <2>1. \A t \in Sessions : session[t] \in SessionType  BY DEF MuxInv, MuxType
  <2>2. \A t \in r.pending : session[t].client = c  BY <1>3, <1>4 DEF ClientInv
  <2>3. ProceedPhase(Q) # "none"  BY <1>10
  <2> QED  BY <1>2, <1>13, <1>14, <1>15, <2>1, <2>2, <2>3
<1>17. /\ clients' = clients /\ created' = created /\ asked' = asked
       /\ xudpEnabled' = xudpEnabled /\ wire' = wire
  BY DEF DialSucceeds
<1>18. /\ client'[c] = R /\ \A d \in Clients \ {c} : client'[d] = client[d]
  BY <1>8 DEF MuxInv, MuxType
<1>19. MuxType'
  <2>1. client' \in [Clients -> ClientType]  BY <1>8, <1>9 DEF MuxInv, MuxType
  <2>2. session' \in [Sessions -> SessionType]  BY <1>8, <1>16
  <2> QED  BY <1>17, <2>1, <2>2 DEF MuxInv, MuxType
<1>20. ClientInv(c)'
  <2>1. /\ R.closed => R.sessions = {}
        /\ ~R.closed => R.sending /\ R.link = "open"
        /\ ~R.closed => c \in clients
    BY <1>3, <1>4, <1>5, <1>9 DEF ClientInv
  <2>2. ~(c > created)  BY <1>4 DEF MuxInv, MuxType
  <2>3. \A t \in R.sessions :
          /\ session'[t].client = c /\ session'[t].phase \notin {"none", "over"}
          /\ ~session'[t].closed
    <3> TAKE t \in R.sessions
    <3>1. /\ t \in Sessions /\ t \in r.sessions /\ session[t].client = c
          /\ session[t].phase \notin {"none", "over"} /\ ~session[t].closed
      BY <1>3, <1>4, <1>9, <1>11 DEF ClientInv
    <3>2. session'[t].client = c /\ ~session'[t].closed  BY <1>16, <3>1
    <3>3. CASE t = s  BY <1>9, <1>10, <1>13, <3>2, <3>3
    <3>4. CASE t \in r.pending  BY <1>14, <3>2, <3>4
    <3>5. CASE t # s /\ t \notin r.pending  BY <1>15, <3>1, <3>2, <3>5
    <3> QED  BY <3>3, <3>4, <3>5
  <2>4. \A t \in Owners(R.writes) : session'[t].client = c /\ session'[t].phase # "none"
    <3>1. Frame(s, "new") \in FrameType /\ Frame(s, "new").session = s
      BY DEF Frame, FrameType
    <3>2. Owners(R.writes) \subseteq Owners(r.writes) \cup {s} /\ Owners(r.writes) \subseteq Sessions
      <4>1. Owners(Append(r.writes, Frame(s, "new"))) = Owners(r.writes) \cup {s}
        BY <1>11, <3>1, OwnersFacts
      <4>2. Owners(r.writes) \subseteq Sessions  BY <1>11, OwnersFacts
      <4> QED  BY <1>9, <4>1, <4>2
    <3>3. \A t \in Owners(r.writes) : session[t].client = c /\ session[t].phase # "none"
      BY <1>3, <1>4 DEF ClientInv
    <3> QED  BY <1>1, <1>2, <1>16, <3>2, <3>3
  <2> QED  BY <1>9, <1>17, <1>18, <2>1, <2>2, <2>3, <2>4 DEF ClientInv
<1>21. ASSUME NEW t \in Sessions, session'[t].client = c PROVE SessionInv(t)'
  <2>1. SessionInv(t) /\ session[t].client = c  BY <1>16, <1>21 DEF MuxInv
  <2>2. CASE t = s
    <3>1. ~(s > asked)  BY <1>1, <1>4 DEF SessionInv
    <3>2. session'[s].phase # "none" /\ session'[s].phase # "waiting" /\ session'[s].phase # "held"
      BY <1>10, <1>13
    <3>3. session'[s].phase # "over" /\ ~session'[s].closed => s \in R.sessions
      BY <1>4, <1>9, <1>10, <1>13
    <3> QED  BY <1>4, <1>9, <1>13, <1>17, <1>18, <2>2, <3>1, <3>2, <3>3 DEF SessionInv
  <2>3. CASE t \in r.pending
    <3>1. session[t].phase = "waiting"  BY <1>3, <1>4, <2>3 DEF ClientInv
    <3>2. ~(t > asked) /\ (~session[t].closed => t \in r.sessions)
      BY <1>3, <2>1, <3>1 DEF SessionInv
    <3>3. t # s  BY <1>12, <2>3
    <3> QED  BY <1>4, <1>9, <1>14, <1>17, <1>18, <2>3, <3>2, <3>3 DEF SessionInv
  <2>4. CASE t # s /\ t \notin r.pending
    <3>1. session'[t] = session[t]  BY <1>15, <2>4
    <3>2. session[t].phase # "waiting"  BY <1>3, <2>1, <2>4 DEF SessionInv
    <3>3. t \in r.sessions => t \in R.sessions  BY <1>9, <2>4
    <3> QED  BY <1>3, <1>9, <1>17, <1>18, <2>1, <3>1, <3>2, <3>3 DEF SessionInv
  <2> QED  BY <2>2, <2>3, <2>4
<1>22. created <= created' /\ asked <= asked'  BY <1>17 DEF MuxInv, MuxType
<1>23. \A t \in Sessions : session'[t] # session[t] =>
           session'[t].client = c /\ (session[t].client = c \/ session[t].phase = "none")
  BY <1>16
<1>24. \A d \in Clients \ {c} :
           /\ client'[d] = client[d] /\ (d <= created' <=> d <= created)
           /\ ~client[d].closed /\ d \in clients => d \in clients'
  BY <1>17, <1>18
<1>25. \A t \in Sessions : session'[t].client = c => SessionInv(t)'  BY <1>21
<1> QED  BY <1>19, <1>20, <1>22, <1>23, <1>24, <1>25, OneClientStep

\* TearDown keeps MuxInv.
LEMMA TearDownInv ==
  ASSUME MuxInv, TearDown
  PROVE  MuxInv'
<1> DEFINE told(s) == SessionsAfterCloseAll(session[s].client, session)[s]
           after(s) == IF session[s].client \in clients THEN told(s) ELSE session[s]
<1>1. PICK listed \in SUBSET (1..asked) :
        session' = [s \in Sessions |->
          IF session[s].phase \in {"none", "over"} THEN session[s]
          ELSE IF s \notin listed THEN after(s)
          ELSE IF session[s].phase = "held"
          THEN Over([after(s) EXCEPT !.closed = TRUE, !.cancelled = TRUE])
          ELSE [after(s) EXCEPT !.cancelled = TRUE]]
  BY DEF TearDown
<1>2. /\ client' = [c \in Clients |-> IF c \in clients THEN closeAll(c, client[c]) ELSE client[c]]
      /\ clients' = {} /\ created' = created /\ asked' = asked
      /\ xudpEnabled' = xudpEnabled /\ wire' = wire
  BY DEF TearDown
<1>3. /\ \A c \in Clients : ClientInv(c) /\ client[c] \in ClientType
      /\ \A s \in Sessions : /\ SessionInv(s) /\ session[s] \in SessionType
                             /\ session[s].client \in Clients
      /\ created \in Int
  BY DEF MuxInv, MuxType, SessionType
<1>4. ASSUME NEW c \in Clients
      PROVE  /\ client'[c] \in ClientType
             /\ c <= created =>
                  /\ client'[c].closed /\ client'[c].sessions = {} /\ ~client'[c].connecting
                  /\ client'[c].pending = {}
             /\ client'[c].writes = client[c].writes
             /\ c > created => client'[c] = client[c]
  <2>1. CASE c \in clients
    <3>1. client'[c] = closeAll(c, client[c])  BY <1>2, <2>1
    <3>2. ~(c > created)  BY <1>3, <2>1 DEF MuxInv, MuxType
    <3> QED  BY <1>3, <3>1, <3>2, closeAllFacts
  <2>2. CASE c \notin clients
    <3>1. client'[c] = client[c]  BY <1>2, <2>2
    <3>2. c <= created => client[c].closed  BY <1>3, <2>2 DEF ClientInv
    <3>3. c <= created => client[c].sessions = {} /\ ~client[c].connecting /\ client[c].pending = {}
      BY <1>3, <3>2 DEF ClientInv
    <3> QED  BY <1>3, <3>1, <3>2, <3>3
  <2> QED  BY <2>1, <2>2
<1>5. ASSUME NEW s \in Sessions
      PROVE  LET z == session[s]
                 a == after(s)
                 open == ~client[z.client].closed
             IN  /\ a \in SessionType /\ a.client = z.client
                 /\ z.phase \notin {"none", "over"} =>
                      /\ a.closed /\ a.phase \notin {"none", "over", "waiting"}
                      /\ z.phase # "held" => a.phase # "held"
                 /\ a.phase = "held" /\ a.closed => a.ended
  <2> DEFINE c == session[s].client
             z == session[s]
             a == after(s)
  <2>1. /\ c \in Clients /\ ClientInv(c) /\ SessionInv(s) /\ z \in SessionType  BY <1>3
  <2>2. z.phase # "none" => c <= created  BY <2>1 DEF SessionInv
  <2>3. CASE c \in clients
    <3>1. a = SessionsAfterCloseAll(c, session)[s]  BY <2>3
    <3>2. /\ a \in SessionType /\ a.client = c
          /\ a.phase = IF ~client[c].closed /\ s \in client[c].pending THEN "refused" ELSE z.phase
          /\ ~client[c].closed /\ s \in client[c].sessions => a.closed
          /\ z.closed => a.closed
          /\ a.phase = "held" /\ a.closed => a.ended
      BY <2>1, <3>1, SessionsAfterCloseAllFacts
    <3> HIDE DEF after
    <3>3. z.phase \notin {"none", "over"} => a.closed
      BY <2>1, <3>2 DEF SessionInv, ClientInv
    <3>4. z.phase = "waiting" => s \in client[c].pending /\ ~client[c].closed
      BY <2>1 DEF SessionInv, ClientInv
    <3> QED  BY <3>2, <3>3, <3>4
  <2>4. CASE c \notin clients
    <3>1. a = z  BY <2>4
    <3>2. z.phase # "none" =>
            client[c].closed /\ client[c].sessions = {} /\ client[c].pending = {}
      BY <2>1, <2>2, <2>4 DEF ClientInv
    <3>3. z.phase \notin {"none", "over"} => z.closed  BY <2>1, <3>2 DEF SessionInv
    <3>4. z.phase # "waiting"  BY <2>1, <3>2 DEF SessionInv
    <3>5. z.phase = "held" /\ z.closed => z.ended  BY <2>1 DEF SessionInv
    <3> HIDE DEF after
    <3> QED  BY <2>1, <3>1, <3>3, <3>4, <3>5
  <2> QED  BY <2>3, <2>4
<1> HIDE DEF after
<1>6. ASSUME NEW s \in Sessions
      PROVE  LET z == session[s]
                 y == session'[s]
             IN  /\ y \in SessionType /\ y.client = z.client
                 /\ z.phase \in {"none", "over"} => y = z
                 /\ z.phase \notin {"none", "over"} =>
                      y.closed /\ y.phase \notin {"none", "waiting"}
                 /\ y.phase = "held" /\ y.closed => y.ended
  <2> DEFINE z == session[s]
             y == session'[s]
             a == after(s)
             h == [a EXCEPT !.closed = TRUE, !.cancelled = TRUE]
             o == [a EXCEPT !.cancelled = TRUE]
  <2>1. /\ a \in SessionType /\ a.client = z.client
        /\ z.phase \notin {"none", "over"} =>
             /\ a.closed /\ a.phase \notin {"none", "over", "waiting"}
             /\ z.phase # "held" => a.phase # "held"
        /\ a.phase = "held" /\ a.closed => a.ended
    BY <1>5
  <2>2. h \in SessionType /\ h.client = a.client /\ h.closed  BY <2>1 DEF SessionType
  <2>3. o \in SessionType /\ o.client = a.client /\ o.closed = a.closed /\ o.phase = a.phase
    BY <2>1 DEF SessionType
  <2>4. y = IF z.phase \in {"none", "over"} THEN z ELSE IF s \notin listed THEN a
            ELSE IF z.phase = "held" THEN Over(h) ELSE o
    BY <1>1
  <2> HIDE DEF a, h, o
  <2>5. CASE z.phase \in {"none", "over"}
    <3>1. y = z  BY <2>4, <2>5
    <3> QED  BY <1>3, <2>5, <3>1 DEF SessionInv
  <2>6. CASE z.phase \notin {"none", "over"} /\ s \notin listed
    <3>1. y = a  BY <2>4, <2>6
    <3> QED  BY <2>1, <2>6, <3>1
  <2>7. CASE z.phase = "held" /\ s \in listed
    <3>1. y = Over(h)  BY <2>4, <2>7
    <3>2. y \in SessionType /\ y.client = z.client /\ y.phase = "over" /\ y.closed
      BY <2>1, <2>2, <3>1, OverFacts
    <3> QED  BY <2>7, <3>2
  <2>8. CASE z.phase \notin {"none", "over", "held"} /\ s \in listed
    <3>1. y = o  BY <2>4, <2>8
    <3> QED  BY <2>1, <2>3, <2>8, <3>1
  <2> QED  BY <2>5, <2>6, <2>7, <2>8
<1>7. MuxType'
  <2>1. client' \in [Clients -> ClientType]  BY <1>2, <1>4, ZenonT(30)
  <2>2. session' \in [Sessions -> SessionType]  BY <1>1, <1>6
  <2> QED  BY <1>2, <2>1, <2>2 DEF MuxInv, MuxType
<1>8. ASSUME NEW c \in Clients PROVE ClientInv(c)'
  <2>1. \A t \in Owners(client'[c].writes) : session'[t].client = c /\ session'[t].phase # "none"
    <3>1. client[c].writes \in Seq(FrameType)  BY <1>3 DEF ClientType
    <3>2. \A t \in Owners(client[c].writes) :
            t \in Sessions /\ session[t].client = c /\ session[t].phase # "none"
      BY <1>3, <3>1, OwnersFacts DEF ClientInv
    <3> QED  BY <1>4, <1>6, <3>2
  <2>2. CASE c <= created
    <3>1. ~(c > created)  BY <1>3, <2>2
    <3> QED  BY <1>2, <1>4, <2>1, <2>2, <3>1 DEF ClientInv
  <2>3. CASE c > created
    <3>1. ~(c <= created)  BY <1>3, <2>3
    <3>2. client'[c] = client[c]  BY <1>4, <2>3
    <3> QED  BY <1>2, <1>3, <2>1, <2>3, <3>1, <3>2 DEF ClientInv
  <2> QED  BY <1>3, <2>2, <2>3
<1>9. ASSUME NEW s \in Sessions PROVE SessionInv(s)'
  <2>1. SessionInv(s) /\ session[s].client \in Clients  BY <1>3
  <2>2. CASE session[s].phase = "none"
    <3>1. session'[s] = session[s]  BY <1>6, <2>2
    <3> QED  BY <1>2, <2>1, <2>2, <3>1 DEF SessionInv
  <2>3. CASE session[s].phase = "over"
    <3>1. session'[s] = session[s]  BY <1>6, <2>3
    <3> QED  BY <1>2, <2>1, <2>3, <3>1 DEF SessionInv
  <2>4. CASE session[s].phase \notin {"none", "over"}
    <3>1. /\ session'[s].client = session[s].client /\ session'[s].closed
          /\ session'[s].phase \notin {"none", "waiting"}
          /\ session'[s].phase = "held" => session'[s].ended
      BY <1>6, <2>4
    <3>2. session[s].client <= created /\ ~(s > asked)  BY <2>1, <2>4 DEF SessionInv
    <3>3. client'[session[s].client].closed  BY <1>4, <2>1, <3>2
    <3> QED  BY <1>2, <3>1, <3>2, <3>3 DEF SessionInv
  <2> QED  BY <2>2, <2>3, <2>4
<1> QED  BY <1>7, <1>8, <1>9, ZenonT(30) DEF MuxInv

\* dispatch gives the new session s a client c that is open, or new.
LEMMA createSessionInv ==
  ASSUME MuxInv, NEW c \in Clients, NEW r \in ClientType, NEW s \in Sessions,
         createSession(c, r, s), s = asked + 1, asked' = asked + 1,
         c <= created', created <= created', created' \in 0..MaxClients,
         clients' \in SUBSET (1..created'), c \in clients',
         \A d \in Clients \ {c} : /\ d <= created' <=> d <= created
                                  /\ ~client[d].closed /\ d \in clients => d \in clients',
         xudpEnabled' = xudpEnabled, wire' = wire,
         ~r.closed, r.sending, r.connected = client[c].connected,
         r.connecting = client[c].connecting, r.sessions = client[c].sessions,
         r.pending = client[c].pending, r.writes = client[c].writes,
         r.connected => r.link = "open", ~client[c].closed
  PROVE  MuxInv'
<1> DEFINE p == [r EXCEPT !.isXUDP = xudpEnabled, !.sessions = @ \cup {s}]
           q == resetIdleTimer(p)
           z == [session[s] EXCEPT !.client = c]
<1>1. /\ session[s] \in SessionType /\ session[s].phase = "none" /\ ~session[s].closed
      /\ ClientInv(c) /\ xudpEnabled \in BOOLEAN /\ asked \in 0..MaxSessions
      /\ created \in 0..MaxClients
  BY DEF MuxInv, MuxType, SessionInv
<1>2. r.sessions \subseteq Sessions /\ r.pending \subseteq Sessions /\ r.writes \in Seq(FrameType)
  BY DEF ClientType
<1>3. /\ p \in ClientType /\ p.closed = r.closed /\ p.connecting = r.connecting
      /\ p.connected = r.connected /\ p.link = r.link /\ p.sessions = r.sessions \cup {s}
      /\ p.pending = r.pending /\ p.writes = r.writes /\ p.sending = r.sending
  BY <1>1 DEF ClientType
<1> HIDE DEF p
<1>4. /\ q \in ClientType /\ ~q.closed /\ q.connecting = r.connecting
      /\ q.connected = r.connected /\ q.link = r.link /\ q.sessions = r.sessions \cup {s}
      /\ q.pending = r.pending /\ q.writes = r.writes /\ q.sending = r.sending
  BY <1>3, resetIdleTimerFacts DEF SameState
<1>5. z \in SessionType /\ z.client = c /\ z.closed = session[s].closed
  BY <1>1 DEF SessionType
<1>6. \E R \in ClientType, ph \in {"created", "writing", "waiting", "dialing"} :
        /\ client' = [client EXCEPT ![c] = R]
        /\ session' = [session EXCEPT ![s] = [z EXCEPT !.phase = ph]]
        /\ ~R.closed /\ R.sending = r.sending /\ R.sessions = r.sessions \cup {s}
        /\ R.connected = r.connected /\ (R.connected => R.link = "open")
        /\ R.pending = IF ph = "waiting" THEN r.pending \cup {s} ELSE r.pending
        /\ R.connecting <=> r.connecting \/ ph = "dialing"
        /\ ph = "waiting" => r.connecting
        /\ ph \in {"created", "writing"} => R.connected
        /\ Owners(R.writes) \subseteq Owners(r.writes) \cup {s}
  <2>1. CASE /\ q.connected
             /\ client' = [client EXCEPT ![c] = Proceed(q, s)]
             /\ session' = [session EXCEPT ![s] = [z EXCEPT !.phase = ProceedPhase(q)]]
    <3> DEFINE R == Proceed(q, s)
               ph == ProceedPhase(q)
    <3>1. /\ R \in ClientType /\ SameState(R, q) /\ R.sessions = q.sessions
          /\ R.pending = q.pending /\ R.sending = q.sending
      BY <1>4, ProceedFacts
    <3>2. R.writes \in {q.writes, Append(q.writes, Frame(s, "new"))}  BY <1>4, ProceedFacts
    <3>3. Frame(s, "new") \in FrameType /\ Frame(s, "new").session = s  BY DEF Frame, FrameType
    <3>4. Owners(Append(q.writes, Frame(s, "new"))) = Owners(q.writes) \cup {s}
      BY <1>2, <1>4, <3>3, OwnersFacts
    <3>5. Owners(R.writes) \subseteq Owners(r.writes) \cup {s}
      <4> HIDE DEF R, q
      <4> QED  BY <1>4, <3>2, <3>4
    <3>6. ph \in {"created", "writing"}  BY <1>4 DEF ProceedPhase
    <3>7. client' = [client EXCEPT ![c] = R] /\ session' = [session EXCEPT ![s] = [z EXCEPT !.phase = ph]]
      BY <2>1
    <3> HIDE DEF R, ph, q, z
    <3>8. /\ ~R.closed /\ R.connecting = r.connecting /\ R.connected = r.connected /\ R.connected
          /\ R.link = r.link /\ R.sessions = r.sessions \cup {s} /\ R.pending = r.pending
          /\ R.sending = r.sending
      BY <1>4, <2>1, <3>1 DEF SameState
    <3> QED  BY <3>1, <3>5, <3>6, <3>7, <3>8
  <2>2. CASE /\ ~q.connected /\ q.connecting
             /\ client' = [client EXCEPT ![c] = [q EXCEPT !.pending = @ \cup {s}]]
             /\ session' = [session EXCEPT ![s] = [z EXCEPT !.phase = "waiting"]]
    <3> DEFINE R == [q EXCEPT !.pending = @ \cup {s}]
    <3> HIDE DEF q
    <3>1. /\ R \in ClientType /\ R.closed = q.closed /\ R.connecting = q.connecting
          /\ R.connected = q.connected /\ R.link = q.link /\ R.sessions = q.sessions
          /\ R.pending = q.pending \cup {s} /\ R.writes = q.writes /\ R.sending = q.sending
      BY <1>4 DEF ClientType
    <3>2. client' = [client EXCEPT ![c] = R]  BY <2>2
    <3> HIDE DEF R, z
    <3> QED  BY <1>4, <2>2, <3>1, <3>2
  <2>3. CASE /\ ~q.connected /\ ~q.connecting
             /\ client' = [client EXCEPT ![c] = [q EXCEPT !.connecting = TRUE, !.link = "dialing"]]
             /\ session' = [session EXCEPT ![s] = [z EXCEPT !.phase = "dialing"]]
    <3> DEFINE R == [q EXCEPT !.connecting = TRUE, !.link = "dialing"]
    <3> HIDE DEF q
    <3>1. /\ R \in ClientType /\ R.closed = q.closed /\ R.connecting
          /\ R.connected = q.connected /\ R.sessions = q.sessions
          /\ R.pending = q.pending /\ R.writes = q.writes /\ R.sending = q.sending
      BY <1>4 DEF ClientType
    <3>2. client' = [client EXCEPT ![c] = R]  BY <2>3
    <3> HIDE DEF R, z
    <3> QED  BY <1>4, <2>3, <3>1, <3>2
  <2> QED  BY <2>1, <2>2, <2>3 DEF createSession, p
<1>7. PICK R \in ClientType, ph \in {"created", "writing", "waiting", "dialing"} :
        /\ client' = [client EXCEPT ![c] = R]
        /\ session' = [session EXCEPT ![s] = [z EXCEPT !.phase = ph]]
        /\ ~R.closed /\ R.sending = r.sending /\ R.sessions = r.sessions \cup {s}
        /\ R.connected = r.connected /\ (R.connected => R.link = "open")
        /\ R.pending = IF ph = "waiting" THEN r.pending \cup {s} ELSE r.pending
        /\ R.connecting <=> r.connecting \/ ph = "dialing"
        /\ ph = "waiting" => r.connecting
        /\ ph \in {"created", "writing"} => R.connected
        /\ Owners(R.writes) \subseteq Owners(r.writes) \cup {s}
  BY <1>6
<1> DEFINE Z == [z EXCEPT !.phase = ph]
<1>8. Z \in SessionType /\ Z.client = c /\ Z.phase = ph /\ ~Z.closed
  BY <1>1, <1>5 DEF SessionType, Phases
<1>9. session' = [session EXCEPT ![s] = Z]  BY <1>7
<1> HIDE DEF q, z, Z
<1>10. /\ client'[c] = R /\ \A d \in Clients \ {c} : client'[d] = client[d]
       /\ session'[s] = Z /\ \A t \in Sessions \ {s} : session'[t] = session[t]
  BY <1>7, <1>9 DEF MuxInv, MuxType
<1>11. MuxType'
  <2>1. client' \in [Clients -> ClientType]  BY <1>7 DEF MuxInv, MuxType
  <2>2. session' \in [Sessions -> SessionType]  BY <1>8, <1>9 DEF MuxInv, MuxType
  <2>3. asked' \in 0..MaxSessions  BY <1>1
  <2> QED  BY <1>1, <2>1, <2>2, <2>3 DEF MuxInv, MuxType
<1>12. s \notin r.sessions /\ s \notin r.pending /\ s \notin Owners(r.writes)
  BY <1>1 DEF ClientInv
<1>13. ClientInv(c)'
  <2>1. ~(c > created') /\ c \in clients'  BY <1>1
  <2>2. R.pending # {} => R.connecting  BY <1>1, <1>7 DEF ClientInv
  <2>3. R.connecting => \E d \in Sessions : session'[d].phase = "dialing" /\ session'[d].client = c
    <3>1. CASE ph = "dialing"  BY <1>8, <1>10, <3>1
    <3>2. CASE ph # "dialing" /\ R.connecting
      <4>1. PICK d \in Sessions : session[d].phase = "dialing" /\ session[d].client = c
        BY <1>1, <1>7, <3>2 DEF ClientInv
      <4>2. session'[d] = session[d]  BY <1>1, <1>10, <4>1
      <4> QED  BY <4>1, <4>2
    <3> QED  BY <3>1, <3>2
  <2>4. \A t \in R.sessions :
          /\ session'[t].client = c /\ session'[t].phase \notin {"none", "over"}
          /\ ~session'[t].closed
    <3>1. \A t \in r.sessions : /\ t \in Sessions /\ session'[t] = session[t]
                                /\ session[t].client = c /\ ~session[t].closed
                                /\ session[t].phase \notin {"none", "over"}
      BY <1>1, <1>2, <1>10, <1>12 DEF ClientInv
    <3>2. \A t \in R.sessions : t = s \/ t \in r.sessions  BY <1>7
    <3> QED  BY <1>8, <1>10, <3>1, <3>2
  <2>5. \A t \in R.pending : session'[t].client = c /\ session'[t].phase = "waiting"
    <3>1. \A t \in r.pending : /\ t \in Sessions /\ session'[t] = session[t]
                               /\ session[t].client = c /\ session[t].phase = "waiting"
      BY <1>1, <1>2, <1>10, <1>12 DEF ClientInv
    <3>2. \A t \in R.pending : t \in r.pending \/ (t = s /\ ph = "waiting")  BY <1>7
    <3> QED  BY <1>8, <1>10, <3>1, <3>2
  <2>6. \A t \in Owners(R.writes) : session'[t].client = c /\ session'[t].phase # "none"
    <3>1. Owners(r.writes) \subseteq Sessions  BY <1>2, OwnersFacts
    <3>2. \A t \in Owners(r.writes) : /\ t \in Sessions /\ session'[t] = session[t]
                                      /\ session[t].client = c /\ session[t].phase # "none"
      BY <1>1, <1>10, <1>12, <3>1 DEF ClientInv
    <3>3. \A t \in Owners(R.writes) : t = s \/ t \in Owners(r.writes)  BY <1>7
    <3> QED  BY <1>8, <1>10, <3>2, <3>3
  <2> QED  BY <1>7, <1>10, <2>1, <2>2, <2>3, <2>4, <2>5, <2>6 DEF ClientInv
<1>14. ASSUME NEW t \in Sessions, session'[t].client = c PROVE SessionInv(t)'
  <2>1. CASE t = s
    <3>1. ~(s > asked')  BY <1>1
    <3> QED  BY <1>7, <1>8, <1>10, <2>1, <3>1 DEF SessionInv
  <2>2. CASE t # s
    <3>1. session'[t] = session[t] /\ session[t].client = c /\ SessionInv(t)
      BY <1>10, <1>14, <2>2 DEF MuxInv
    <3>2. t > asked' => t > asked  BY <1>1
    <3>3. /\ t \in r.sessions => t \in R.sessions
          /\ t \in r.pending => t \in R.pending
      BY <1>7
    <3> QED  BY <1>7, <1>10, <3>1, <3>2, <3>3 DEF SessionInv
  <2> QED  BY <2>1, <2>2
<1>15. asked <= asked'  BY <1>1
<1>16. \A t \in Sessions : session'[t] # session[t] =>
           session'[t].client = c /\ (session[t].client = c \/ session[t].phase = "none")
  BY <1>1, <1>8, <1>10
<1>17. \A d \in Clients \ {c} :
           /\ client'[d] = client[d] /\ (d <= created' <=> d <= created)
           /\ ~client[d].closed /\ d \in clients => d \in clients'
  BY <1>10
<1>18. \A t \in Sessions : session'[t].client = c => SessionInv(t)'  BY <1>14
<1> QED  BY <1>11, <1>13, <1>15, <1>16, <1>17, <1>18, OneClientStep

\* A client as dispatch creates it.
LEMMA NewClientFacts ==
  /\ NewClient \in ClientType /\ ~NewClient.closed /\ NewClient.sending
  /\ ~NewClient.connected /\ ~NewClient.connecting /\ ~NewClient.idleTimer
  /\ NewClient.sessions = {} /\ NewClient.pending = {} /\ NewClient.writes = <<>>
  /\ NewClient.link = "none"
BY DEF NewClient, ClientType

\* dispatch keeps MuxInv.
LEMMA dispatchInv ==
  ASSUME MuxInv, dispatch
  PROVE  MuxInv'
<1> DEFINE open == {c \in clients : ~client[c].closed}
           room == {c \in open : ~isFull(client[c])}
           s == asked + 1
<1>1. /\ asked \in 0..MaxSessions /\ created \in 0..MaxClients /\ clients \in SUBSET (1..created)
      /\ MaxSessions \in Nat /\ MaxClients \in Nat
  BY BoundAssumption DEF MuxInv, MuxType
<1>2. asked < MaxSessions /\ asked' = asked + 1 /\ xudpEnabled' = xudpEnabled /\ wire' = wire
  BY DEF dispatch
<1>3. s \in Sessions  BY <1>1, <1>2
<1>4. /\ open \subseteq 1..created
      /\ \A d \in clients : ~client[d].closed => d \in open
  BY <1>1
<1>5. ASSUME NEW c \in room, createSession(c, client[c], s), clients' = open, created' = created
      PROVE  MuxInv'
  <2>0. c \in open  OBVIOUS
  <2>1. c \in Clients /\ c \in clients /\ ~client[c].closed /\ c <= created  BY <1>1
  <2>2. client[c] \in ClientType /\ ClientInv(c)  BY <2>1 DEF MuxInv, MuxType
  <2> HIDE DEF open, room
  <2>3. client[c].sending /\ (client[c].connected => client[c].link = "open")
    BY <2>1, <2>2 DEF ClientInv
  <2>4. created <= created' /\ created' \in 0..MaxClients /\ clients' \in SUBSET (1..created')
    BY <1>1, <1>5, <1>4
  <2>5. c \in clients' /\ c <= created'  BY <1>5, <2>0, <2>1
  <2>6. \A d \in Clients \ {c} : /\ d <= created' <=> d <= created
                                 /\ ~client[d].closed /\ d \in clients => d \in clients'
    BY <1>5, <1>4
  <2> HIDE DEF s
  <2>7. s = asked + 1  BY DEF s
  <2> QED
    BY <1>2, <1>3, <1>5, <2>1, <2>2, <2>3, <2>4, <2>5, <2>6, <2>7, createSessionInv
<1>6. ASSUME created < MaxClients, created' = created + 1, clients' = open \cup {created + 1},
             createSession(created + 1, NewClient, s)
      PROVE  MuxInv'
  <2> HIDE DEF open, room
  <2>1. PICK c \in Clients : c = created + 1  BY <1>1, <1>6
  <2>2. ClientInv(c) /\ c > created  BY <1>1, <2>1 DEF MuxInv
  <2>3. /\ ~client[c].closed /\ client[c].sessions = {} /\ client[c].pending = {}
        /\ ~client[c].connecting /\ ~client[c].connected /\ client[c].writes = <<>>
        /\ client[c] \in ClientType
    BY <2>2 DEF ClientInv, MuxInv, MuxType
  <2>4. NewClient.connected = client[c].connected /\ NewClient.connecting = client[c].connecting
    BY <2>3, NewClientFacts DEF ClientType
  <2>5. created <= created' /\ created' \in 0..MaxClients /\ clients' \in SUBSET (1..created')
    BY <1>1, <1>6, <1>4
  <2>6. c \in clients' /\ c <= created'  BY <1>1, <1>6, <2>1
  <2>7. \A d \in Clients \ {c} : /\ d <= created' <=> d <= created
                                 /\ ~client[d].closed /\ d \in clients => d \in clients'
    <3>1. \A d \in Clients \ {c} : d <= created' <=> d <= created  BY <1>1, <1>6, <2>1
    <3>2. \A d \in Clients : ~client[d].closed /\ d \in clients => d \in clients'
      BY <1>6, <1>4
    <3> QED  BY <3>1, <3>2
  <2>8. createSession(c, NewClient, s)  BY <1>6, <2>1
  <2> HIDE DEF s
  <2>9. s = asked + 1  BY DEF s
  <2> QED
    <3>1. /\ NewClient \in ClientType /\ ~NewClient.closed /\ NewClient.sending
          /\ NewClient.sessions = client[c].sessions /\ NewClient.pending = client[c].pending
          /\ NewClient.writes = client[c].writes
          /\ NewClient.connected => NewClient.link = "open"
      BY <2>3, NewClientFacts
    <3> QED
      BY <1>2, <1>3, <2>1, <2>3, <2>4, <2>5, <2>6, <2>7, <2>8, <2>9, <3>1, createSessionInv
<1> QED  BY <1>5, <1>6 DEF dispatch

\* No client and no session yet.
LEMMA InitMux ==
  ASSUME Init
  PROVE  MuxInv
<1>1. xudpEnabled \in BOOLEAN  BY XudpAssumption DEF Init
<1>2. /\ NewSession \in SessionType /\ NewSession.phase = "none" /\ ~NewSession.closed
      /\ NewSession.client = 1
  <2> DEFINE b == ~xudpEnabled
  <2>1. b \in BOOLEAN /\ 1 \in Clients  BY BoundAssumption
  <2>2. NewSession = [client |-> 1, phase |-> "none", closed |-> FALSE, firstFrameSent |-> b,
                      sent |-> 0, cancelled |-> FALSE, ended |-> FALSE]
    BY DEF NewSession
  <2> HIDE DEF b
  <2> QED  BY <2>1, <2>2 DEF SessionType, Phases
<1>3. /\ client = [c \in Clients |-> NewClient] /\ session = [s \in Sessions |-> NewSession]
      /\ clients = {} /\ created = 0 /\ asked = 0 /\ wire = [s \in Sessions |-> <<>>]
  BY DEF Init
<1>4. MuxType
  <2>1. wire \in [Sessions -> Seq({"new", "keep", "end"})]  BY <1>3
  <2>2. created \in 0..MaxClients /\ asked \in 0..MaxSessions  BY <1>3, BoundAssumption
  <2> QED  BY <1>1, <1>2, <1>3, <2>1, <2>2, NewClientFacts DEF MuxType
<1>5. ASSUME NEW c \in Clients PROVE ClientInv(c)
  <2>1. client[c] = NewClient /\ ~(c <= created)  BY <1>3
  <2>2. Owners(<<>>) = {}  BY DEF Owners
  <2> QED  BY <2>1, <2>2, NewClientFacts DEF ClientInv
<1>6. ASSUME NEW s \in Sessions PROVE SessionInv(s)
  <2>1. session[s] = NewSession  BY <1>3
  <2> QED  BY <1>2, <2>1 DEF SessionInv
<1> QED  BY <1>4, <1>5, <1>6 DEF MuxInv

\* Stuttering.
LEMMA StutterMux ==
  ASSUME MuxInv, UNCHANGED vars
  PROVE  MuxInv'
<1>1. /\ xudpEnabled' = xudpEnabled /\ client' = client /\ session' = session
      /\ clients' = clients /\ created' = created /\ asked' = asked /\ wire' = wire
  BY DEF vars
<1> QED  BY <1>1 DEF MuxInv, MuxType, ClientInv, SessionInv

\* MuxInv is inductive.
LEMMA MuxInvInductive == MuxInv /\ [Next]_vars => MuxInv'
<1> SUFFICES ASSUME MuxInv, [Next]_vars PROVE MuxInv'
  OBVIOUS
<1>1. CASE UNCHANGED vars  BY <1>1, StutterMux
<1>2. CASE dispatch  BY <1>2, dispatchInv
<1>3. CASE TearDown  BY <1>3, TearDownInv
<1>4. ASSUME NEW s \in Sessions,
             \/ DialSucceeds(s) \/ DialFails(s) \/ WaiterResumes(s) \/ WaiterThrows(s)
             \/ LockThrows(s) \/ SendDatagram(s) \/ ReceiveEnd(s) \/ FlowTakesSession(s)
             \/ CloseFlow(s)
      PROVE  MuxInv'
  BY <1>4, DialSucceedsInv, DialFailsInv, WaiterResumesInv, WaiterThrowsInv, LockThrowsInv,
     SendDatagramInv, ReceiveEndInv, FlowTakesSessionInv, CloseFlowInv
<1>5. ASSUME NEW c \in Clients, WriteDone(c) \/ WriteFails(c) \/ ClientCloses(c)
      PROVE  MuxInv'
  BY <1>5, WriteDoneInv, WriteFailsInv, ClientClosesInv
<1> QED  BY <1>1, <1>2, <1>3, <1>4, <1>5 DEF Next

(* In every reachable state, for every number of clients, sessions and     *)
(* datagrams: what each client and each session relies on holds.           *)
THEOREM MuxInvariant == Spec => []MuxInv
<1>1. Init => MuxInv  BY InitMux
<1> QED  BY <1>1, MuxInvInductive, PTL DEF Spec

(* A call that waits for another flow's dial (the pending list of          *)
(* connectMux) always has that dial to wait for.                           *)
THEOREM WaitersAreReleased == Spec => []WaitersReleased
<1>1. MuxInv => WaitersReleased
  <2> SUFFICES ASSUME MuxInv, NEW s \in Sessions, session[s].phase = "waiting"
               PROVE  \E d \in Sessions :
                        session[d].phase = "dialing" /\ session[d].client = session[s].client
    BY DEF WaitersReleased
  <2>1. session[s].client \in Clients /\ s \in client[session[s].client].pending
    BY DEF MuxInv, MuxType, SessionType, SessionInv
  <2> QED  BY <2>1 DEF MuxInv, ClientInv
<1> QED  BY <1>1, MuxInvariant, PTL

(* A session handed out and open is in the table of an open, connected     *)
(* client, and no entry outlives its session (createSession, closeAll).    *)
THEOREM SessionsAreListed == Spec => []LiveSessionListed
<1>1. MuxInv => LiveSessionListed
  <2> SUFFICES ASSUME MuxInv PROVE LiveSessionListed
    OBVIOUS
  <2>1. ASSUME NEW s \in Sessions, session[s].phase \in {"created", "held"}, ~session[s].closed
        PROVE  LET r == client[session[s].client]
               IN  s \in r.sessions /\ ~r.closed /\ r.link = "open"
    <3>1. session[s].client \in Clients /\ SessionInv(s)
      BY DEF MuxInv, MuxType, SessionType
    <3>2. ClientInv(session[s].client)  BY <3>1 DEF MuxInv
    <3> QED  BY <2>1, <3>1, <3>2 DEF SessionInv, ClientInv
  <2>2. ASSUME NEW c \in Clients, NEW s \in client[c].sessions
        PROVE  session[s].phase # "over"
    BY DEF MuxInv, ClientInv
  <2> QED  BY <2>1, <2>2 DEF LiveSessionListed
<1> QED  BY <1>1, MuxInvariant, PTL

(* A flow that holds a closed session has been told (deliverClose).        *)
THEOREM FlowsHearOfClose == Spec => []FlowHearsOfClose
<1>1. MuxInv => FlowHearsOfClose  BY DEF MuxInv, SessionInv, FlowHearsOfClose
<1> QED  BY <1>1, MuxInvariant, PTL

-----------------------------------------------------------------------------
(* Frames. *)

\* A step that queues, drops and sends no frame.
LEMMA KeepStep ==
  ASSUME MuxInv, MuxInv', FrameInv, wire' = wire, xudpEnabled' = xudpEnabled,
         \A c \in Clients : /\ client'[c].writes = client[c].writes
                            /\ client'[c].sending => client[c].sending
                            /\ client[c].closed => client'[c].closed,
         \A s \in Sessions :
           /\ session'[s].firstFrameSent = session[s].firstFrameSent
           /\ session[s].phase # "none" => session'[s].client = session[s].client
           /\ \/ session'[s].phase \in {session[s].phase, "over"}
              \/ session[s].phase \in Early /\ session'[s].phase \in Early
              \/ session[s].phase \in Early /\ xudpEnabled /\ session'[s].phase = "created"
  PROVE  FrameInv'
<1>1. \A c \in Clients : client[c].writes \in Seq(FrameType)
  BY DEF MuxInv, MuxType, ClientType
<1>2. ASSUME NEW c \in Clients, NEW i \in DOMAIN client'[c].writes PROVE QueuedInv(c, i)'
  <2>1. PICK f \in FrameType : f = client[c].writes[i] /\ i \in DOMAIN client[c].writes
    BY <1>1, <1>2
  <2>2. PICK s \in Sessions : s = f.session  BY DEF FrameType
  <2>3. QueuedInv(c, i)  BY <2>1 DEF FrameInv
  <2>4. /\ session[s].client = c /\ session[s].phase \notin Early
        /\ session[s].phase = "writing" => f.status = "new"
        /\ session[s].phase = "over" \/ session[s].firstFrameSent
        /\ f.status = "end" => session[s].phase = "over"
    BY <2>1, <2>2, <2>3 DEF QueuedInv
  <2>5. session'[s].phase \in {session[s].phase, "over"}  BY <2>4
  <2>6. /\ session'[s].client = c /\ session'[s].phase \notin Early
        /\ session'[s].phase = "writing" => f.status = "new"
        /\ session'[s].phase = "over" \/ session'[s].firstFrameSent
        /\ f.status = "end" => session'[s].phase = "over"
    BY <2>4, <2>5 DEF Early
  <2>7. client'[c].writes = client[c].writes  OBVIOUS
  <2> QED  BY <2>1, <2>2, <2>3, <2>6, <2>7 DEF QueuedInv
<1>3. ASSUME NEW c \in Clients, NEW i \in DOMAIN client'[c].writes,
             NEW j \in DOMAIN client'[c].writes
      PROVE  PairInv(c, i, j)'
  <2>1. client'[c].writes = client[c].writes  OBVIOUS
  <2>2. PairInv(c, i, j)  BY <1>3, <2>1 DEF FrameInv
  <2> QED  BY <2>1, <2>2 DEF PairInv
<1>4. ASSUME NEW s \in Sessions PROVE WireInv(s)'
  <2>1. WireInv(s)  BY DEF FrameInv
  <2>2. session[s].client \in Clients  BY DEF MuxInv, MuxType, SessionType
  <2>3. CASE session'[s].phase = session[s].phase
    <3>1. CASE session[s].phase = "none"  BY <2>1, <2>3, <3>1 DEF WireInv
    <3>2. CASE session[s].phase # "none"
      <4>1. session'[s].client = session[s].client  BY <3>2
      <4>2. LET c == session[s].client
            IN  client'[c].writes = client[c].writes /\ (client[c].closed => client'[c].closed)
        BY <2>2
      <4> QED  BY <2>1, <2>3, <4>1, <4>2 DEF WireInv
    <3> QED  BY <3>1, <3>2
  <2>4. CASE session'[s].phase = "over"  BY <2>1, <2>4 DEF WireInv, Early
  <2>5. CASE session[s].phase \in Early /\ session'[s].phase \in Early
    BY <2>1, <2>5 DEF WireInv, Early
  <2>6. CASE session[s].phase \in Early /\ xudpEnabled /\ session'[s].phase = "created"
    BY <2>1, <2>6 DEF WireInv, Early
  <2> QED  BY <2>3, <2>4, <2>5, <2>6
<1> QED  BY <1>2, <1>3, <1>4 DEF FrameInv

\* A frame that keeps its place behind the same New frame, and its session.
LEMMA QueuedSame ==
  ASSUME NEW c \in Clients, NEW i \in Int, NEW j \in Int, NEW f \in FrameType, NEW s \in Sessions,
         f = client[c].writes[i], s = f.session, QueuedInv(c, i),
         f = client'[c].writes[j], client'[c].sending => client[c].sending,
         (\E k \in 1..(i - 1) : client[c].writes[k] = Frame(s, "new")) =>
           \E k \in 1..(j - 1) : client'[c].writes[k] = Frame(s, "new"),
         session'[s].client = session[s].client, session'[s].phase = session[s].phase,
         session'[s].firstFrameSent = session[s].firstFrameSent, wire'[s] = wire[s]
  PROVE  QueuedInv(c, j)'
<1>1. /\ session[s].client = c /\ session[s].phase \notin Early
      /\ session[s].phase = "writing" => f.status = "new"
      /\ session[s].phase = "over" \/ session[s].firstFrameSent
      /\ f.status = "new" => wire[s] = <<>>
      /\ f.status = "end" => session[s].phase = "over"
      /\ f.status = "keep" /\ client[c].sending =>
           wire[s] # <<>> \/ \E k \in 1..(i - 1) : client[c].writes[k] = Frame(s, "new")
      /\ \A k \in DOMAIN wire[s] : wire[s][k] # "end"
  BY ZenonT(60) DEF QueuedInv
<1>2. /\ session'[s].client = c /\ session'[s].phase \notin Early
      /\ session'[s].phase = "writing" => f.status = "new"
      /\ session'[s].phase = "over" \/ session'[s].firstFrameSent
      /\ f.status = "new" => wire'[s] = <<>>
      /\ f.status = "end" => session'[s].phase = "over"
      /\ f.status = "keep" /\ client'[c].sending =>
           wire'[s] # <<>> \/ \E k \in 1..(j - 1) : client'[c].writes[k] = Frame(s, "new")
      /\ \A k \in DOMAIN wire'[s] : wire'[s][k] # "end"
  BY <1>1, ZenonT(60)
<1>3. f = client'[c].writes[j] /\ s = f.session  OBVIOUS
<1> QED  BY ONLY <1>2, <1>3, ZenonT(60) DEF QueuedInv

\* A session that stays as it is, and keeps its New frame if it is queued.
LEMMA WireSame ==
  ASSUME NEW s \in Sessions, NEW c \in Clients, c = session[s].client, WireInv(s),
         session'[s].client = session[s].client, session'[s].phase = session[s].phase,
         session'[s].firstFrameSent = session[s].firstFrameSent,
         wire'[s] = wire[s], xudpEnabled' = xudpEnabled,
         client[c].closed => client'[c].closed,
         (\E i \in DOMAIN client[c].writes : client[c].writes[i] = Frame(s, "new")) =>
           \E i \in DOMAIN client'[c].writes : client'[c].writes[i] = Frame(s, "new")
  PROVE  WireInv(s)'
<1>1. session'[s].client = c  OBVIOUS
<1> QED  BY <1>1 DEF WireInv

\* A step of client c and session s that sends nothing and leaves the
\* frames of other clients and sessions alone.
Touches(c, s) ==
  /\ wire' = wire /\ xudpEnabled' = xudpEnabled
  /\ client'[c].sending => client[c].sending
  /\ client[c].closed => client'[c].closed
  /\ \A d \in Clients \ {c} : client'[d] = client[d]
  /\ \A t \in Sessions \ {s} :
       \/ session'[t] = session[t]
       \/ /\ session[t].phase \in Early /\ session'[t].phase \in Early
          /\ session'[t].firstFrameSent = session[t].firstFrameSent
  /\ session[s].phase \in Early \/ session[s].client = c

\* It queues the frames fs of session s behind the n frames ws of client c.
Appends(c, s, n, ws, fs) ==
  /\ Touches(c, s)
  /\ ws = client[c].writes /\ n = Len(ws) /\ client'[c].writes = ws \o fs
  /\ \A i \in 1..Len(fs) : fs[i].session = s

\* What session s, its earlier frames and its new ones rely on after that.
Fits(c, s, n, ws, fs) ==
  /\ WireInv(s)'
  /\ \A i \in DOMAIN ws : ws[i].session = s => QueuedInv(c, i)' /\ ws[i].status # "end"
  /\ \A i \in 1..Len(fs) :
       /\ QueuedInv(c, n + i)'
       /\ fs[i].status = "new" => i = 1 /\ \A j \in DOMAIN ws : ws[j].session # s
       /\ fs[i].status = "end" => i = Len(fs)

\* Such a step keeps the frame invariant if the frames fit.
LEMMA AppendStep ==
  ASSUME MuxInv, MuxInv', FrameInv,
         NEW c \in Clients, NEW s \in Sessions, NEW n \in Nat,
         NEW ws \in Seq(FrameType), NEW fs \in Seq(FrameType),
         Appends(c, s, n, ws, fs), Fits(c, s, n, ws, fs)
  PROVE  FrameInv'
<1> SUFFICES ASSUME
         wire' = wire, xudpEnabled' = xudpEnabled, ws = client[c].writes, n = Len(ws),
         \A i \in 1..Len(fs) : fs[i].session = s,
         client'[c].writes = ws \o fs,
         client'[c].sending => client[c].sending, client[c].closed => client'[c].closed,
         \A d \in Clients \ {c} : client'[d] = client[d],
         \A t \in Sessions \ {s} :
           \/ session'[t] = session[t]
           \/ /\ session[t].phase \in Early /\ session'[t].phase \in Early
              /\ session'[t].firstFrameSent = session[t].firstFrameSent,
         session[s].phase \in Early \/ session[s].client = c,
         WireInv(s)',
         \A i \in DOMAIN ws : ws[i].session = s => QueuedInv(c, i)' /\ ws[i].status # "end",
         \A i \in 1..Len(fs) :
           /\ QueuedInv(c, n + i)'
           /\ fs[i].status = "new" => i = 1 /\ \A j \in DOMAIN ws : ws[j].session # s
           /\ fs[i].status = "end" => i = Len(fs)
       PROVE  FrameInv'
  BY DEF Touches, Appends, Fits
<1>1. Len(fs) \in Nat  OBVIOUS
<1>2. PICK m \in Nat : m = Len(fs)  BY <1>1
<1>3. n \in Int /\ m \in Int /\ n >= 0 /\ m >= 0  OBVIOUS
<1>4. /\ DOMAIN client'[c].writes = 1..(n + m)
      /\ \A i \in 1..n : client'[c].writes[i] = ws[i]
      /\ \A i \in 1..m : client'[c].writes[n + i] = fs[i]
      /\ DOMAIN ws = 1..n
  <2>1. DOMAIN (ws \o fs) = 1..(n + m)  BY <1>2
  <2>2. \A i \in 1..n : (ws \o fs)[i] = ws[i]  BY <1>2
  <2>3. ASSUME NEW i \in 1..m PROVE (ws \o fs)[n + i] = fs[i]
    <3>0. i \in Int /\ 1 <= i /\ i <= m  BY <2>3
    <3>1. n + i \in 1..(n + m) /\ ~(n + i <= n) /\ (n + i) - n = i  BY <1>3, <3>0
    <3>2. (ws \o fs)[n + i] = IF n + i <= n THEN ws[n + i] ELSE fs[(n + i) - n]
      BY <1>2, <3>1
    <3> QED  BY <3>1, <3>2
  <2>4. DOMAIN ws = 1..n  OBVIOUS
  <2> QED  BY <2>1, <2>2, <2>3, <2>4
<1>5. \A i \in 1..(n + m) : i \in 1..n \/ \E k \in 1..m : i = n + k
  <2> TAKE i \in 1..(n + m)
  <2>1. CASE i > n
    <3>1. i - n \in 1..m /\ i = n + (i - n)  BY <1>3, <2>1
    <3> QED  BY <3>1
  <2> QED  BY <1>3, <2>1
<1>6. ASSUME NEW d \in Clients, NEW i \in DOMAIN client'[d].writes PROVE QueuedInv(d, i)'
  <2>1. CASE d # c
    <3>1. client'[d] = client[d] /\ i \in DOMAIN client[d].writes  BY <1>6, <2>1
    <3>2. PICK f \in FrameType : f = client[d].writes[i]
      <4>1. client[d].writes \in Seq(FrameType)  BY DEF MuxInv, MuxType, ClientType
      <4> QED  BY <3>1, <4>1
    <3>3. PICK t \in Sessions : t = f.session  BY DEF FrameType
    <3>4. QueuedInv(d, i)  BY <3>1, ZenonT(30) DEF FrameInv
    <3>5. session[t].client = d /\ session[t].phase \notin Early  BY <3>2, <3>3, <3>4 DEF QueuedInv
    <3>6. session'[t] = session[t]  BY <2>1, <3>5
    <3>7. i \in Int
      <4>1. client[d].writes \in Seq(FrameType)  BY DEF MuxInv, MuxType, ClientType
      <4> QED  BY <3>1, <4>1
    <3>8. /\ f = client'[d].writes[i] /\ (client'[d].sending => client[d].sending)
          /\ wire'[t] = wire[t]
          /\ (\E k \in 1..(i - 1) : client[d].writes[k] = Frame(t, "new")) =>
               \E k \in 1..(i - 1) : client'[d].writes[k] = Frame(t, "new")
      BY <3>1, <3>2
    <3> QED  BY <3>2, <3>3, <3>4, <3>6, <3>7, <3>8, QueuedSame
  <2>2. CASE d = c /\ i \in 1..n
    <3>1. i \in DOMAIN ws /\ client'[c].writes[i] = ws[i]  BY <1>4, <2>2
    <3>2. PICK f \in FrameType : f = ws[i]  BY <1>3, <3>1
    <3>3. PICK t \in Sessions : t = f.session  BY DEF FrameType
    <3>4. CASE t = s  BY <2>2, <3>1, <3>2, <3>3, <3>4
    <3>5. CASE t # s
      <4>1. QueuedInv(c, i)  BY <3>1, SMTT(30) DEF FrameInv
      <4>2. session'[t] = session[t]
        <5>1. session[t].phase \notin Early  BY <3>1, <3>2, <3>3, <4>1 DEF QueuedInv
        <5> QED  BY <3>5, <5>1, Zenon
      <4>3. \A j \in 1..(i - 1) : client'[c].writes[j] = ws[j]
        <5>1. \A j \in 1..(i - 1) : j \in 1..n  BY <1>3, <2>2
        <5> QED  BY <1>4, <5>1
      <4>4. i \in Int  BY <2>2
      <4>5. /\ f = client'[c].writes[i] /\ wire'[t] = wire[t] /\ f = client[c].writes[i]
            /\ client'[c].sending => client[c].sending
            /\ (\E k \in 1..(i - 1) : client[c].writes[k] = Frame(t, "new")) =>
                 \E k \in 1..(i - 1) : client'[c].writes[k] = Frame(t, "new")
        BY <3>1, <3>2, <4>3
      <4>6. c \in Clients /\ f \in FrameType /\ t \in Sessions  OBVIOUS
      <4>7. QueuedInv(c, i)'  BY ONLY <3>3, <4>6, <4>1, <4>2, <4>4, <4>5, QueuedSame
      <4> QED  BY <2>2, <4>7
    <3> QED  BY <3>4, <3>5
  <2>3. CASE d = c /\ i \notin 1..n
    <3>1. PICK k \in 1..m : i = n + k  BY <1>4, <1>5, <1>6, <2>3
    <3>2. k \in 1..Len(fs)  BY <1>2
    <3> QED  BY <2>3, <3>1, <3>2
  <2> QED  BY <2>1, <2>2, <2>3
<1>7. ASSUME NEW d \in Clients, NEW i \in DOMAIN client'[d].writes,
             NEW j \in DOMAIN client'[d].writes
      PROVE  PairInv(d, i, j)'
  <2>1. CASE d # c
    <3>1. client'[d] = client[d]  BY <2>1
    <3>2. PairInv(d, i, j)  BY <1>7, <3>1 DEF FrameInv
    <3> QED  BY <3>1, <3>2 DEF PairInv
  <2>2. CASE d = c
    <3> SUFFICES ASSUME i < j, client'[c].writes[i].session = client'[c].writes[j].session
                 PROVE  client'[c].writes[j].status # "new" /\ client'[c].writes[i].status # "end"
      BY <2>2 DEF PairInv
    <3>1. i \in 1..(n + m) /\ j \in 1..(n + m)  BY <1>4, <1>7, <2>2
    <3>2. CASE j \in 1..n
      <4>1. i \in 1..n  BY <1>3, <3>1, <3>2
      <4>2. PairInv(c, i, j)  BY <1>4, <3>2, <4>1 DEF FrameInv
      <4> QED  BY <1>4, <3>2, <4>1, <4>2 DEF PairInv
    <3>3. CASE i \in 1..n /\ j \notin 1..n
      <4>1. PICK k \in 1..m : j = n + k  BY <1>5, <3>1, <3>3
      <4>2. client'[c].writes[j] = fs[k] /\ client'[c].writes[i] = ws[i]  BY <1>4, <3>3, <4>1
      <4>3. fs[k].session = s /\ ws[i].session = s  BY <4>2, <1>2
      <4>4. i \in DOMAIN ws /\ k \in 1..Len(fs)  BY <1>4, <1>2, <3>3
      <4> QED  BY <4>2, <4>3, <4>4
    <3>4. CASE i \notin 1..n /\ j \notin 1..n
      <4>1. PICK k \in 1..m : j = n + k  BY <1>5, <3>1, <3>4
      <4>2. PICK l \in 1..m : i = n + l  BY <1>5, <3>1, <3>4
      <4>3. client'[c].writes[j] = fs[k] /\ client'[c].writes[i] = fs[l]  BY <1>4, <4>1, <4>2
      <4>4. l < k /\ k # 1 /\ l # m  BY <1>3, <4>1, <4>2
      <4> QED  BY <4>3, <4>4, <1>2
    <3> QED  BY <3>2, <3>3, <3>4
  <2> QED  BY <2>1, <2>2
<1>8. ASSUME NEW t \in Sessions PROVE WireInv(t)'
  <2>1. CASE t = s  BY <2>1
  <2>2. CASE t # s
    <3>0. WireInv(t)  BY DEF FrameInv
    <3>1. session[t].client \in Clients  BY DEF MuxInv, MuxType, SessionType
    <3>2. CASE session'[t] # session[t]
      <4>1. /\ session[t].phase \in Early /\ session'[t].phase \in Early
            /\ session'[t].firstFrameSent = session[t].firstFrameSent
        BY <2>2, <3>2
      <4> QED  BY ONLY <3>0, <4>1, wire' = wire, xudpEnabled' = xudpEnabled DEF WireInv, Early
    <3>3. CASE session'[t] = session[t] /\ session[t].client # c
      <4>0. WireInv(t) /\ session'[t] = session[t]  BY <3>0, <3>3
      <4>1. PICK e \in Clients : e = session[t].client  BY <3>1
      <4>2. client'[e] = client[e]  BY <3>3, <4>1
      <4>3. /\ t \in Sessions /\ e \in Clients /\ wire'[t] = wire[t]
            /\ xudpEnabled' = xudpEnabled
        OBVIOUS
      <4> QED  BY ONLY <4>0, <4>1, <4>2, <4>3, WireSame
    <3>4. CASE session'[t] = session[t] /\ session[t].client = c
      <4>1. (\E i \in DOMAIN ws : ws[i] = Frame(t, "new")) =>
              \E i \in DOMAIN client'[c].writes : client'[c].writes[i] = Frame(t, "new")
        <5>1. \A i \in 1..n : i \in 1..(n + m)  BY <1>3
        <5> QED  BY <1>4, <5>1
      <4> QED  BY <3>0, <3>4, <4>1, WireSame
    <3> QED  BY <3>3, <3>4, <3>2
  <2> QED  BY <2>1, <2>2
<1> QED  BY <1>6, <1>7, <1>8 DEF FrameInv

\* createSession queues its New frame.
LEMMA AppendNew ==
  ASSUME MuxInv, MuxInv', FrameInv, ~xudpEnabled,
         NEW c \in Clients, NEW s \in Sessions, Touches(c, s),
         session[s].phase \in Early, session'[s].phase = "writing", session'[s].client = c,
         session'[s].firstFrameSent = session[s].firstFrameSent,
         client'[c].writes = Append(client[c].writes, Frame(s, "new"))
  PROVE  FrameInv'
<1>0. wire' = wire /\ xudpEnabled' = xudpEnabled  BY DEF Touches
<1>1. PICK ws \in Seq(FrameType) : ws = client[c].writes
  BY DEF MuxInv, MuxType, ClientType
<1>2. PICK n \in Nat : n = Len(ws)
  <2>1. Len(ws) \in Nat  OBVIOUS
  <2> QED  BY <2>1
<1> DEFINE f == Frame(s, "new")
           fs == <<f>>
<1>3. f \in FrameType /\ f.session = s /\ f.status = "new"  BY DEF Frame, FrameType
<1> HIDE DEF f
<1>4. fs \in Seq(FrameType) /\ Len(fs) = 1 /\ fs[1] = f  BY <1>3
<1>5. client'[c].writes = ws \o fs /\ client'[c].writes[n + 1] = f
  <2>1. Append(ws, f) = ws \o fs  BY <1>3, AppendIsConcat
  <2>2. Append(ws, f)[n + 1] = f  BY <1>2, <1>3
  <2> QED  BY <1>1, <2>1, <2>2 DEF f
<1>6. WireInv(s) /\ \A i \in DOMAIN ws : QueuedInv(c, i)  BY <1>1 DEF FrameInv
<1>7. wire[s] = <<>> /\ session[s].firstFrameSent  BY <1>6 DEF WireInv, Early
<1>8. \A i \in DOMAIN ws : ws[i].session # s
  <2> TAKE i \in DOMAIN ws
  <2>1. QueuedInv(c, i)  BY <1>6
  <2> QED  BY <1>1, <2>1 DEF QueuedInv
<1>9. QueuedInv(c, n + 1)'
  <2>1. /\ session'[s].phase = "writing" /\ session'[s].client = c
        /\ session'[s].firstFrameSent /\ wire'[s] = <<>>
    BY <1>0, <1>7
  <2>2. client'[c].writes[n + 1] = f  BY <1>5
  <2>3. \A i \in DOMAIN wire'[s] : wire'[s][i] # "end"  BY <2>1
  <2> QED  BY ONLY <1>3, <2>1, <2>2, <2>3 DEF QueuedInv, Early
<1>10. WireInv(s)'  BY <1>0, <1>7 DEF WireInv, Early
<1> HIDE DEF fs
<1>11. \A i \in 1..Len(fs) : /\ fs[i].session = s /\ i = 1 /\ QueuedInv(c, n + i)'
                             /\ fs[i].status = "new" /\ i = Len(fs)
  BY <1>3, <1>4, <1>9
<1>12. Appends(c, s, n, ws, fs)  BY <1>1, <1>2, <1>5, <1>11 DEF Appends
<1>13. Fits(c, s, n, ws, fs)  BY <1>8, <1>10, <1>11 DEF Fits
<1> QED  BY <1>4, <1>12, <1>13, AppendStep

\* The flow's datagrams.
LEMMA AppendDatagrams ==
  ASSUME MuxInv, MuxInv', FrameInv,
         NEW c \in Clients, NEW s \in Sessions, NEW k \in Nat, Touches(c, s),
         session[s].phase \in {"created", "held"}, session[s].client = c, ~client[c].closed,
         session'[s].phase = "held", session'[s].client = c,
         session'[s].firstFrameSent = (session[s].firstFrameSent \/ k > 0),
         client'[c].writes = client[c].writes \o Datagrams(s, session[s], k)
  PROVE  FrameInv'
<1>0. /\ wire' = wire /\ xudpEnabled' = xudpEnabled
      /\ client'[c].sending => client[c].sending
  BY DEF Touches
<1>1. PICK ws \in Seq(FrameType) : ws = client[c].writes
  BY DEF MuxInv, MuxType, ClientType
<1>2. PICK n \in Nat : n = Len(ws)
  <2>1. Len(ws) \in Nat  OBVIOUS
  <2> QED  BY <2>1
<1>3. session[s] \in SessionType /\ xudpEnabled \in BOOLEAN  BY DEF MuxInv, MuxType
<1>4. PICK fs \in Seq(FrameType) : fs = Datagrams(s, session[s], k)  BY <1>3, DatagramsFacts
<1>5. /\ Len(fs) = k
      /\ \A i \in 1..k : /\ fs[i].session = s
                         /\ fs[i].status = IF i = 1 /\ ~session[s].firstFrameSent
                                           THEN "new" ELSE "keep"
  BY <1>3, <1>4, DatagramsFacts
<1>6. client'[c].writes = ws \o fs  BY <1>1, <1>4
<1>7. WireInv(s) /\ \A i \in DOMAIN ws : QueuedInv(c, i)  BY <1>1 DEF FrameInv
<1>8. /\ ~session[s].firstFrameSent => wire[s] = <<>>
      /\ session[s].firstFrameSent =>
           wire[s] # <<>> \/ \E i \in DOMAIN ws : ws[i] = Frame(s, "new")
      /\ \A i \in DOMAIN wire[s] : wire[s][i] # "end"
  BY <1>1, <1>7 DEF WireInv, Early
<1>9. \A i \in DOMAIN ws : ws[i].session = s =>
           session[s].firstFrameSent /\ ws[i].status # "end"
  <2> TAKE i \in DOMAIN ws
  <2>1. QueuedInv(c, i)  BY <1>7
  <2> QED  BY <1>1, <2>1 DEF QueuedInv
<1>10. /\ \A i \in DOMAIN ws : client'[c].writes[i] = ws[i]
       /\ \A i \in 1..k : client'[c].writes[n + i] = fs[i]
       /\ DOMAIN client'[c].writes = 1..(n + k) /\ DOMAIN ws = 1..n
  <2>1. DOMAIN ws = 1..n /\ DOMAIN client'[c].writes = 1..(n + k)
    <3>1. DOMAIN ws = 1..n  BY <1>2
    <3>2. DOMAIN (ws \o fs) = 1..(Len(ws) + Len(fs))  OBVIOUS
    <3> QED  BY <1>2, <1>5, <1>6, <3>1, <3>2
  <2>2. \A i \in DOMAIN ws : client'[c].writes[i] = ws[i]  BY <1>2, <1>6
  <2>3. ASSUME NEW i \in 1..k PROVE (ws \o fs)[n + i] = fs[i]
    <3>1. i \in Int /\ 1 <= i /\ i <= k  BY <2>3
    <3>2. n + i \in 1..(n + k) /\ ~(n + i <= n) /\ (n + i) - n = i  BY <3>1
    <3>3. (ws \o fs)[n + i] = IF n + i <= n THEN ws[n + i] ELSE fs[(n + i) - n]
      BY <1>2, <1>5, <3>2
    <3> QED  BY <3>2, <3>3
  <2> QED  BY <1>6, <2>1, <2>2, <2>3
<1>11. ASSUME NEW i \in DOMAIN ws, ws[i].session = s PROVE QueuedInv(c, i)'
  <2>1. PICK f \in FrameType : f = ws[i]  BY <1>11
  <2>2. QueuedInv(c, i) /\ f = client[c].writes[i] /\ f.session = s  BY <1>1, <1>7, <1>11, <2>1
  <2>3. \A j \in 1..(i - 1) : client'[c].writes[j] = client[c].writes[j]
    <3>1. \A j \in 1..(i - 1) : j \in DOMAIN ws  BY <1>2, <1>11
    <3> QED  BY <1>1, <1>10, <3>1
  <2>4. f = client'[c].writes[i]  BY <1>10, <1>11, <2>1
  <2>5. session[s].firstFrameSent  BY <1>9, <1>11
  <2>6. /\ f.status = "new" => wire[s] = <<>>
        /\ f.status # "end"
        /\ f.status = "keep" /\ client[c].sending =>
             wire[s] # <<>> \/ \E j \in 1..(i - 1) : client[c].writes[j] = Frame(s, "new")
    BY <2>2 DEF QueuedInv
  <2>7. /\ f.status = "keep" /\ client'[c].sending =>
             wire'[s] # <<>> \/ \E j \in 1..(i - 1) : client'[c].writes[j] = Frame(s, "new")
    BY <1>0, <2>3, <2>6
  <2>8. /\ session'[s].phase = "held" /\ session'[s].client = c /\ session'[s].firstFrameSent
        /\ wire' = wire
    BY <1>0, <2>5
  <2> QED  BY ONLY <1>8, <2>2, <2>4, <2>6, <2>7, <2>8 DEF QueuedInv, Early
<1>12. ASSUME NEW i \in 1..k
       PROVE  QueuedInv(c, n + i)'
  <2>1. PICK f \in FrameType : f = fs[i]  BY <1>5
  <2>2. /\ f = client'[c].writes[n + i] /\ f.session = s
        /\ f.status = IF i = 1 /\ ~session[s].firstFrameSent THEN "new" ELSE "keep"
    BY <1>5, <1>10, <2>1
  <2>3. session'[s].firstFrameSent
    <3>1. k > 0  BY <1>12
    <3> QED  BY <3>1
  <2>4. f.status = "keep" =>
          wire[s] # <<>> \/ \E j \in 1..(n + i - 1) : client'[c].writes[j] = Frame(s, "new")
    <3> SUFFICES ASSUME f.status = "keep", wire[s] = <<>>
                 PROVE  \E j \in 1..(n + i - 1) : client'[c].writes[j] = Frame(s, "new")
      OBVIOUS
    <3>1. CASE session[s].firstFrameSent
      <4>1. PICK j \in DOMAIN ws : ws[j] = Frame(s, "new")  BY <1>8, <3>1
      <4>2. j \in 1..(n + i - 1)  BY <1>10, <4>1
      <4> QED  BY <1>10, <4>1, <4>2
    <3>2. CASE ~session[s].firstFrameSent
      <4>1. i # 1  BY <2>2, <3>2
      <4>2. n + 1 \in 1..(n + i - 1) /\ 1 \in 1..k  BY <4>1
      <4>3. fs[1] = Frame(s, "new")  BY <1>4, <3>2, <4>2 DEF Datagrams
      <4> QED  BY <1>10, <4>2, <4>3
    <3> QED  BY <3>1, <3>2
  <2>5. f.status \in {"new", "keep"} /\ (f.status = "new" => wire[s] = <<>>)
    BY <1>8, <2>2
  <2>6. session'[s].phase = "held" /\ session'[s].client = c /\ wire' = wire  BY <1>0
  <2>7. n + i \in Int  OBVIOUS
  <2> QED  BY ONLY <1>8, <2>2, <2>3, <2>4, <2>5, <2>6, <2>7 DEF QueuedInv, Early
<1>13. WireInv(s)'
  <2>1. session'[s].firstFrameSent =>
          wire[s] # <<>> \/ \E i \in DOMAIN client'[c].writes : client'[c].writes[i] = Frame(s, "new")
    <3> SUFFICES ASSUME session'[s].firstFrameSent, wire[s] = <<>>
                 PROVE  \E i \in DOMAIN client'[c].writes : client'[c].writes[i] = Frame(s, "new")
      OBVIOUS
    <3>1. CASE session[s].firstFrameSent
      <4>1. PICK j \in DOMAIN ws : ws[j] = Frame(s, "new")  BY <1>8, <3>1
      <4>2. j \in 1..(n + k)  BY <1>10, <4>1
      <4> QED  BY <1>10, <4>1, <4>2
    <3>2. CASE ~session[s].firstFrameSent
      <4>1. k > 0  BY <3>2
      <4>2. n + 1 \in 1..(n + k) /\ 1 \in 1..k  BY <4>1
      <4>3. fs[1] = Frame(s, "new")  BY <1>4, <3>2, <4>2 DEF Datagrams
      <4>4. client'[c].writes[n + 1] = fs[1]  BY <1>10, <4>2
      <4>5. n + 1 \in DOMAIN client'[c].writes  BY <1>10, <4>2
      <4> QED  BY <4>3, <4>4, <4>5
    <3> QED  BY <3>1, <3>2
  <2>2. /\ xudpEnabled' \/ session'[s].firstFrameSent
        /\ ~session'[s].firstFrameSent => wire[s] = <<>>
    BY <1>0, <1>7, <1>8 DEF WireInv
  <2>3. session'[s].phase = "held" /\ session'[s].client = c /\ wire' = wire
        /\ xudpEnabled' = xudpEnabled
    BY <1>0
  <2> QED  BY ONLY <1>7, <1>8, <2>1, <2>2, <2>3 DEF WireInv, Early
<1>14. \A i \in DOMAIN ws : ws[i].session = s => QueuedInv(c, i)' /\ ws[i].status # "end"
  BY <1>9, <1>11
<1>15. \A i \in 1..Len(fs) :
           /\ QueuedInv(c, n + i)'
           /\ fs[i].status = "new" => i = 1 /\ \A j \in DOMAIN ws : ws[j].session # s
           /\ fs[i].status = "end" => i = Len(fs)
  BY <1>5, <1>9, <1>12
<1>16. \A i \in 1..Len(fs) : fs[i].session = s  BY <1>5
<1>17. Appends(c, s, n, ws, fs)  BY <1>1, <1>2, <1>6, <1>16 DEF Appends
<1>18. Fits(c, s, n, ws, fs)  BY <1>13, <1>14, <1>15 DEF Fits
<1> QED  BY <1>17, <1>18, AppendStep

\* MuxSession.close queues the End frame.
LEMMA AppendEnd ==
  ASSUME MuxInv, MuxInv', FrameInv,
         NEW c \in Clients, NEW s \in Sessions, Touches(c, s),
         session[s].phase \in {"created", "held"}, session[s].client = c,
         session'[s].phase = "over", session'[s].client = c,
         session'[s].firstFrameSent = session[s].firstFrameSent,
         client'[c].writes = Append(client[c].writes, Frame(s, "end"))
  PROVE  FrameInv'
<1>0. /\ wire' = wire /\ xudpEnabled' = xudpEnabled
      /\ client'[c].sending => client[c].sending
  BY DEF Touches
<1>1. PICK ws \in Seq(FrameType) : ws = client[c].writes
  BY DEF MuxInv, MuxType, ClientType
<1>2. PICK n \in Nat : n = Len(ws)
  <2>1. Len(ws) \in Nat  OBVIOUS
  <2> QED  BY <2>1
<1> DEFINE f == Frame(s, "end")
           fs == <<f>>
<1>3. f \in FrameType /\ f.session = s /\ f.status = "end"  BY DEF Frame, FrameType
<1> HIDE DEF f
<1>4. fs \in Seq(FrameType) /\ Len(fs) = 1 /\ fs[1] = f  BY <1>3
<1>5. client'[c].writes = ws \o fs /\ client'[c].writes[n + 1] = f
  <2>1. Append(ws, f) = ws \o fs  BY <1>3, AppendIsConcat
  <2>2. Append(ws, f)[n + 1] = f  BY <1>2, <1>3
  <2> QED  BY <1>1, <2>1, <2>2 DEF f
<1>6. WireInv(s) /\ \A i \in DOMAIN ws : QueuedInv(c, i)  BY <1>1 DEF FrameInv
<1>7. \A i \in DOMAIN wire[s] : wire[s][i] # "end"  BY <1>6 DEF WireInv
<1>8. ASSUME NEW i \in DOMAIN ws, ws[i].session = s
      PROVE  QueuedInv(c, i)' /\ ws[i].status # "end"
  <2>1. PICK g \in FrameType : g = ws[i]  BY <1>8
  <2>2. QueuedInv(c, i) /\ g = client[c].writes[i] /\ g.session = s  BY <1>1, <1>6, <1>8, <2>1
  <2>3. \A j \in 1..i : client'[c].writes[j] = client[c].writes[j]
    <3>1. \A j \in 1..i : j \in DOMAIN ws  BY <1>2, <1>8
    <3>2. \A j \in DOMAIN ws : Append(ws, f)[j] = ws[j]  BY <1>3
    <3> QED  BY <1>1, <3>1, <3>2 DEF f
  <2>4. g = client'[c].writes[i]
    <3>1. i \in 1..i  BY <1>2, <1>8
    <3> QED  BY <2>2, <2>3, <3>1
  <2>5. /\ g.status = "new" => wire[s] = <<>>
        /\ g.status # "end"
        /\ g.status = "keep" /\ client[c].sending =>
             wire[s] # <<>> \/ \E j \in 1..(i - 1) : client[c].writes[j] = Frame(s, "new")
    BY <2>2 DEF QueuedInv
  <2>6. g.status = "keep" /\ client'[c].sending =>
             wire'[s] # <<>> \/ \E j \in 1..(i - 1) : client'[c].writes[j] = Frame(s, "new")
    <3>1. \A j \in 1..(i - 1) : j \in 1..i  BY <1>2, <1>8
    <3> QED  BY <1>0, <2>3, <2>5, <3>1
  <2>7. session'[s].phase = "over" /\ session'[s].client = c /\ wire' = wire
    BY <1>0
  <2>8. QueuedInv(c, i)'
    BY ONLY <1>7, <2>2, <2>4, <2>5, <2>6, <2>7 DEF QueuedInv, Early
  <2> QED  BY <2>1, <2>5, <2>8
<1>9. QueuedInv(c, n + 1)'
  <2>1. session'[s].phase = "over" /\ session'[s].client = c /\ wire' = wire  BY <1>0
  <2>2. client'[c].writes[n + 1] = f  BY <1>5
  <2> QED  BY ONLY <1>3, <1>7, <2>1, <2>2 DEF QueuedInv, Early
<1>10. WireInv(s)'
  <2>1. /\ session'[s].phase = "over" /\ wire' = wire /\ xudpEnabled' = xudpEnabled
        /\ session'[s].firstFrameSent = session[s].firstFrameSent
    BY <1>0
  <2> QED  BY ONLY <1>6, <1>7, <2>1 DEF WireInv, Early
<1> HIDE DEF fs
<1>11. \A i \in 1..Len(fs) : /\ fs[i].session = s /\ i = 1 /\ QueuedInv(c, n + i)'
                             /\ fs[i].status = "end" /\ i = Len(fs)
  BY <1>3, <1>4, <1>9
<1>12. Appends(c, s, n, ws, fs)  BY <1>1, <1>2, <1>5, <1>11 DEF Appends
<1>13. Fits(c, s, n, ws, fs)  BY <1>8, <1>10, <1>11 DEF Fits
<1> QED  BY <1>4, <1>12, <1>13, AppendStep

\* A step of client c and session s that queues, drops and sends no frame.
LEMMA KeepOne ==
  ASSUME MuxInv, MuxInv', FrameInv, NEW c \in Clients, NEW s \in Sessions,
         NEW R \in ClientType, NEW Z \in SessionType,
         client' = [client EXCEPT ![c] = R], session' = [session EXCEPT ![s] = Z],
         wire' = wire, xudpEnabled' = xudpEnabled,
         R.writes = client[c].writes, R.sending => client[c].sending,
         client[c].closed => R.closed,
         Z.firstFrameSent = session[s].firstFrameSent,
         session[s].phase # "none" => Z.client = session[s].client,
         \/ Z.phase \in {session[s].phase, "over"}
         \/ session[s].phase \in Early /\ Z.phase \in Early
         \/ session[s].phase \in Early /\ xudpEnabled /\ Z.phase = "created"
  PROVE  FrameInv'
<1>1. /\ client'[c] = R /\ \A d \in Clients \ {c} : client'[d] = client[d]
      /\ session'[s] = Z /\ \A t \in Sessions \ {s} : session'[t] = session[t]
  BY DEF MuxInv, MuxType
<1>2. \A d \in Clients : /\ client'[d].writes = client[d].writes
                         /\ client'[d].sending => client[d].sending
                         /\ client[d].closed => client'[d].closed
  BY <1>1
<1>3. \A t \in Sessions :
        /\ session'[t].firstFrameSent = session[t].firstFrameSent
        /\ session[t].phase # "none" => session'[t].client = session[t].client
        /\ \/ session'[t].phase \in {session[t].phase, "over"}
           \/ session[t].phase \in Early /\ session'[t].phase \in Early
           \/ session[t].phase \in Early /\ xudpEnabled /\ session'[t].phase = "created"
  BY <1>1
<1> QED  BY <1>2, <1>3, KeepStep

\* When a step touches one client and one session only.
LEMMA TouchesOne ==
  ASSUME MuxInv, NEW c \in Clients, NEW s \in Sessions,
         NEW R \in ClientType, NEW Z \in SessionType,
         client' = [client EXCEPT ![c] = R], session' = [session EXCEPT ![s] = Z],
         wire' = wire, xudpEnabled' = xudpEnabled,
         R.sending = client[c].sending, R.closed = client[c].closed,
         session[s].client = c
  PROVE  Touches(c, s)
<1>1. /\ client'[c] = R /\ \A d \in Clients \ {c} : client'[d] = client[d]
      /\ session'[s] = Z /\ \A t \in Sessions \ {s} : session'[t] = session[t]
  BY DEF MuxInv, MuxType
<1> QED  BY <1>1 DEF Touches

\* SendDatagram keeps FrameInv.
LEMMA SendDatagramFrames ==
  ASSUME MuxInv, MuxInv', FrameInv, NEW s \in Sessions, SendDatagram(s)
  PROVE  FrameInv'
<1>1. session[s].phase = "held" /\ ~session[s].closed  BY DEF SendDatagram
<1>2. PICK c \in Clients : c = session[s].client  BY <1>1, AskedFacts
<1>3. /\ client[c] \in ClientType /\ session[s] \in SessionType
      /\ ClientInv(c) /\ s \in client[c].sessions
  BY <1>1, <1>2, AskedFacts
<1>4. ~client[c].closed  BY <1>3 DEF ClientInv
<1> DEFINE R == SendAsync(client[c], s, session[s], 1)
           Z == Sent(session[s], 1)
<1>5. /\ client' = [client EXCEPT ![c] = R] /\ session' = [session EXCEPT ![s] = Z]
      /\ wire' = wire /\ xudpEnabled' = xudpEnabled
  BY <1>2 DEF SendDatagram
<1>6. 1 \in Nat  OBVIOUS
<1>7. /\ Z \in SessionType /\ Z.client = c /\ Z.phase = "held"
      /\ Z.firstFrameSent = (session[s].firstFrameSent \/ 1 > 0)
  BY <1>1, <1>2, <1>3, <1>6, SentFacts
<1>8. /\ R \in ClientType /\ R.closed = client[c].closed /\ R.sending = client[c].sending
      /\ R.writes = client[c].writes \o Datagrams(s, session[s], 1)
  BY <1>3, <1>4, <1>6, SendAsyncFacts DEF SameState
<1> HIDE DEF R, Z
<1>9. Touches(c, s)
  BY <1>2, <1>5, <1>7, <1>8, TouchesOne
<1>10. client'[c] = R /\ session'[s] = Z  BY <1>5 DEF MuxInv, MuxType
<1> QED  BY <1>1, <1>2, <1>4, <1>6, <1>7, <1>8, <1>9, <1>10, AppendDatagrams

\* WaiterResumes keeps FrameInv.
LEMMA WaiterResumesFrames ==
  ASSUME MuxInv, MuxInv', FrameInv, NEW s \in Sessions, WaiterResumes(s)
  PROVE  FrameInv'
<1>1. session[s].phase = "resumed"  BY DEF WaiterResumes
<1>2. PICK c \in Clients : c = session[s].client  BY <1>1, AskedFacts
<1>3. client[c] \in ClientType /\ session[s] \in SessionType  BY <1>1, <1>2, AskedFacts
<1>4. wire' = wire /\ xudpEnabled' = xudpEnabled  BY DEF WaiterResumes
<1>5. CASE session[s].cancelled
  <2> DEFINE R == Uncreated(client[c], s)
             Z == Over(session[s])
  <2>1. client' = [client EXCEPT ![c] = R] /\ session' = [session EXCEPT ![s] = Z]
    BY <1>2, <1>5 DEF WaiterResumes
  <2>2. /\ R \in ClientType /\ R.writes = client[c].writes /\ R.sending = client[c].sending
        /\ R.closed = client[c].closed
    BY <1>3, UncreatedFacts DEF SameState
  <2>3. /\ Z \in SessionType /\ Z.client = c /\ Z.phase = "over"
        /\ Z.firstFrameSent = session[s].firstFrameSent
    BY <1>2, <1>3, OverFacts
  <2> HIDE DEF R, Z
  <2> QED  BY <1>2, <1>4, <2>1, <2>2, <2>3, KeepOne
<1>6. CASE ~session[s].cancelled
  <2> DEFINE R == Proceed(client[c], s)
             ph == ProceedPhase(client[c])
             Z == [session[s] EXCEPT !.phase = ph]
  <2>1. client' = [client EXCEPT ![c] = R] /\ session' = [session EXCEPT ![s] = Z]
    BY <1>2, <1>6 DEF WaiterResumes
  <2>2. /\ R \in ClientType /\ R.closed = client[c].closed /\ R.sending = client[c].sending
        /\ R.writes = IF xudpEnabled \/ client[c].closed THEN client[c].writes
                      ELSE Append(client[c].writes, Frame(s, "new"))
    BY <1>3, ProceedFacts DEF SameState
  <2>3. ph = IF xudpEnabled THEN "created" ELSE IF client[c].closed THEN "over" ELSE "writing"
    BY DEF ProceedPhase
  <2>4. ph \in Phases  BY <2>3 DEF Phases
  <2> HIDE DEF R, ph
  <2>5. /\ Z \in SessionType /\ Z.client = c /\ Z.phase = ph
        /\ Z.firstFrameSent = session[s].firstFrameSent
    BY <1>2, <1>3, <2>4 DEF SessionType
  <2> HIDE DEF Z
  <2>6. session[s].phase \in Early  BY <1>1 DEF Early
  <2>7. CASE xudpEnabled \/ client[c].closed
    BY <1>2, <1>4, <2>1, <2>2, <2>3, <2>5, <2>6, <2>7, KeepOne
  <2>8. CASE ~xudpEnabled /\ ~client[c].closed
    <3>1. Touches(c, s)
      BY <1>2, <1>4, <2>1, <2>2, <2>5, TouchesOne
    <3>2. client'[c] = R /\ session'[s] = Z  BY <2>1 DEF MuxInv, MuxType
    <3> QED  BY <2>2, <2>3, <2>5, <2>6, <2>8, <3>1, <3>2, AppendNew
  <2> QED  BY <2>7, <2>8
<1> QED  BY <1>5, <1>6

\* WaiterThrows keeps FrameInv.
LEMMA WaiterThrowsFrames ==
  ASSUME MuxInv, MuxInv', FrameInv, NEW s \in Sessions, WaiterThrows(s)
  PROVE  FrameInv'
<1>1. session[s].phase # "none"  BY DEF WaiterThrows
<1>2. PICK c \in Clients : c = session[s].client  BY <1>1, AskedFacts
<1>3. client[c] \in ClientType /\ session[s] \in SessionType  BY <1>1, <1>2, AskedFacts
<1> DEFINE Q == [client[c] EXCEPT !.pending = @ \ {s}]
           R == Uncreated(Q, s)
           Z == Over(session[s])
<1>4. /\ client' = [client EXCEPT ![c] = R] /\ session' = [session EXCEPT ![s] = Z]
      /\ wire' = wire /\ xudpEnabled' = xudpEnabled
  BY <1>2 DEF WaiterThrows
<1>5. /\ Q \in ClientType /\ Q.closed = client[c].closed /\ Q.sending = client[c].sending
      /\ Q.writes = client[c].writes
  BY <1>3 DEF ClientType
<1> HIDE DEF Q
<1>6. /\ R \in ClientType /\ R.writes = client[c].writes /\ R.sending = client[c].sending
      /\ R.closed = client[c].closed
  BY <1>5, UncreatedFacts DEF SameState
<1>7. /\ Z \in SessionType /\ Z.client = c /\ Z.phase = "over"
      /\ Z.firstFrameSent = session[s].firstFrameSent
  BY <1>2, <1>3, OverFacts
<1> HIDE DEF R, Z
<1> QED  BY <1>2, <1>4, <1>6, <1>7, KeepOne

\* ReceiveEnd keeps FrameInv.
LEMMA ReceiveEndFrames ==
  ASSUME MuxInv, MuxInv', FrameInv, NEW s \in Sessions, ReceiveEnd(s)
  PROVE  FrameInv'
<1>1. PICK c \in Clients : c = session[s].client  BY DEF MuxInv, MuxType, SessionType
<1>2. client[c] \in ClientType /\ session[s] \in SessionType  BY DEF MuxInv, MuxType
<1> DEFINE R == [client[c] EXCEPT !.sessions = @ \ {s}]
           Z == deliverClose(session[s])
<1>3. /\ client' = [client EXCEPT ![c] = R] /\ session' = [session EXCEPT ![s] = Z]
      /\ wire' = wire /\ xudpEnabled' = xudpEnabled
  BY <1>1 DEF ReceiveEnd
<1>4. /\ R \in ClientType /\ R.closed = client[c].closed /\ R.sending = client[c].sending
      /\ R.writes = client[c].writes
  BY <1>2 DEF ClientType
<1>5. /\ Z \in SessionType /\ Z.client = c /\ Z.phase = session[s].phase
      /\ Z.firstFrameSent = session[s].firstFrameSent
  BY <1>1, <1>2, deliverCloseFacts
<1> HIDE DEF R, Z
<1> QED  BY <1>1, <1>3, <1>4, <1>5, KeepOne

\* MuxSession.close of a session that was handed out.
LEMMA CloseFrames ==
  ASSUME MuxInv, MuxInv', FrameInv, NEW c \in Clients, NEW s \in Sessions, NEW Z \in SessionType,
         c = session[s].client, session[s].phase \in {"created", "held"},
         client' = [client EXCEPT ![c] = ClientAfterClose(client[c], s)],
         session' = [session EXCEPT ![s] = Z], wire' = wire, xudpEnabled' = xudpEnabled,
         Z.client = c, Z.phase = "over", Z.firstFrameSent = session[s].firstFrameSent
  PROVE  FrameInv'
<1>1. client[c] \in ClientType /\ ClientInv(c) /\ SessionInv(s)  BY DEF MuxInv, MuxType
<1>2. session[s].closed => s \notin client[c].sessions  BY <1>1 DEF ClientInv
<1> DEFINE R == ClientAfterClose(client[c], s)
<1>3. /\ R \in ClientType /\ R.closed = client[c].closed /\ R.sending = client[c].sending
      /\ R.writes = IF session[s].closed \/ client[c].closed THEN client[c].writes
                    ELSE Append(client[c].writes, Frame(s, "end"))
  BY <1>1, <1>2, ClientAfterCloseFacts DEF SameState
<1>4. client' = [client EXCEPT ![c] = R]  OBVIOUS
<1> HIDE DEF R
<1>5. CASE session[s].closed \/ client[c].closed
  <2>1. R.writes = client[c].writes  BY <1>3, <1>5
  <2>2. /\ MuxInv /\ MuxInv' /\ FrameInv /\ wire' = wire /\ xudpEnabled' = xudpEnabled
        /\ c \in Clients /\ s \in Sessions /\ Z \in SessionType
        /\ session' = [session EXCEPT ![s] = Z] /\ Z.client = session[s].client
        /\ Z.phase = "over" /\ Z.firstFrameSent = session[s].firstFrameSent
    OBVIOUS
  <2>3. (R.sending => client[c].sending) /\ (client[c].closed => R.closed)  BY <1>3
  <2> QED  BY ONLY <1>3, <1>4, <2>1, <2>2, <2>3, KeepOne
<1>6. CASE ~(session[s].closed \/ client[c].closed)
  <2>1. Touches(c, s)  BY <1>3, <1>4, TouchesOne
  <2>2. client'[c] = R /\ session'[s] = Z  BY <1>4 DEF MuxInv, MuxType
  <2> QED  BY <1>3, <1>6, <2>1, <2>2, AppendEnd
<1> QED  BY <1>5, <1>6

\* FlowTakesSession keeps FrameInv.
LEMMA FlowTakesSessionFrames ==
  ASSUME MuxInv, MuxInv', FrameInv, NEW s \in Sessions, FlowTakesSession(s)
  PROVE  FrameInv'
<1>1. session[s].phase = "created" /\ wire' = wire /\ xudpEnabled' = xudpEnabled
  BY DEF FlowTakesSession
<1>2. PICK c \in Clients : c = session[s].client  BY <1>1, AskedFacts
<1>3. PICK z \in SessionType : z = session[s]  BY DEF MuxInv, MuxType
<1>4. /\ client[c] \in ClientType /\ ClientInv(c)
      /\ z.closed \/ s \in client[c].sessions
  BY <1>1, <1>2, <1>3, AskedFacts
<1>5. CASE /\ client' = [client EXCEPT ![c] = ClientAfterClose(@, s)]
           /\ session' = [session EXCEPT ![s] = Over([@ EXCEPT !.closed = TRUE])]
  <2> DEFINE Y == [z EXCEPT !.closed = TRUE]
             Z == Over(Y)
  <2>1. Y \in SessionType /\ Y.client = c /\ Y.firstFrameSent = z.firstFrameSent
    BY <1>2, <1>3 DEF SessionType
  <2>2. /\ client' = [client EXCEPT ![c] = ClientAfterClose(client[c], s)]
        /\ session' = [session EXCEPT ![s] = Z]
    BY <1>3, <1>5
  <2> HIDE DEF Y
  <2>3. /\ Z \in SessionType /\ Z.client = c /\ Z.phase = "over"
        /\ Z.firstFrameSent = z.firstFrameSent
    BY <2>1, OverFacts
  <2> HIDE DEF Z
  <2> QED  BY <1>1, <1>2, <1>3, <2>2, <2>3, CloseFrames
<1>6. CASE client' = client /\ session' = [session EXCEPT ![s] = Over(@)]
  <2> DEFINE Z == Over(z)
  <2>1. client' = [client EXCEPT ![c] = client[c]] /\ session' = [session EXCEPT ![s] = Z]
    BY <1>3, <1>6 DEF MuxInv, MuxType
  <2>2. /\ Z \in SessionType /\ Z.client = c /\ Z.phase = "over"
        /\ Z.firstFrameSent = z.firstFrameSent
    BY <1>2, <1>3, OverFacts
  <2> HIDE DEF Z
  <2> QED  BY <1>1, <1>2, <1>3, <1>4, <2>1, <2>2, KeepOne
<1>7. ASSUME ~AlreadyClosed(s), NEW k \in 0..MaxSends,
             client' = [client EXCEPT ![c] = SendAsync(@, s, z, k)],
             session' = [session EXCEPT ![s] = Sent([@ EXCEPT !.phase = "held"], k)]
      PROVE  FrameInv'
  <2> DEFINE R == SendAsync(client[c], s, z, k)
             Y == [z EXCEPT !.phase = "held"]
             Z == Sent(Y, k)
  <2>1. k \in Nat  BY BoundAssumption
  <2>2. ~client[c].closed  BY <1>3, <1>4, <1>7 DEF AlreadyClosed, ClientInv
  <2>3. /\ R \in ClientType /\ R.closed = client[c].closed /\ R.sending = client[c].sending
        /\ R.writes = client[c].writes \o Datagrams(s, z, k)
    BY <1>4, <2>1, <2>2, SendAsyncFacts DEF SameState
  <2>4. /\ Y \in SessionType /\ Y.client = c /\ Y.phase = "held"
        /\ Y.firstFrameSent = z.firstFrameSent
    BY <1>2, <1>3 DEF SessionType, Phases
  <2>5. client' = [client EXCEPT ![c] = R] /\ session' = [session EXCEPT ![s] = Z]
    BY <1>3, <1>7
  <2> HIDE DEF R, Y
  <2>6. /\ Z \in SessionType /\ Z.client = c /\ Z.phase = "held"
        /\ Z.firstFrameSent = (z.firstFrameSent \/ k > 0)
    BY <2>1, <2>4, SentFacts
  <2> HIDE DEF Z
  <2>7. Touches(c, s)
    BY <1>1, <1>2, <2>3, <2>5, <2>6, TouchesOne
  <2>8. client'[c] = R /\ session'[s] = Z  BY <2>5 DEF MuxInv, MuxType
  <2> QED  BY <1>1, <1>2, <1>3, <2>1, <2>2, <2>3, <2>6, <2>7, <2>8, AppendDatagrams
<1> QED  BY <1>2, <1>3, <1>5, <1>6, <1>7 DEF FlowTakesSession

\* CloseFlow keeps FrameInv.
LEMMA CloseFlowFrames ==
  ASSUME MuxInv, MuxInv', FrameInv, NEW s \in Sessions, CloseFlow(s)
  PROVE  FrameInv'
<1>1. session[s].phase # "none" /\ wire' = wire /\ xudpEnabled' = xudpEnabled  BY DEF CloseFlow
<1>2. PICK c \in Clients : c = session[s].client  BY <1>1, AskedFacts
<1>3. PICK z \in SessionType : z = session[s]  BY DEF MuxInv, MuxType
<1>4. client[c] \in ClientType  BY DEF MuxInv, MuxType
<1>5. CASE z.phase = "held"
  <2> DEFINE Y == Over(z)
             Z == [Y EXCEPT !.closed = TRUE, !.cancelled = TRUE]
  <2>1. /\ client' = [client EXCEPT ![c] = ClientAfterClose(client[c], s)]
        /\ session' = [session EXCEPT ![s] = Z]
    BY <1>2, <1>3, <1>5 DEF CloseFlow
  <2>2. Y \in SessionType /\ Y.client = c /\ Y.phase = "over"
        /\ Y.firstFrameSent = z.firstFrameSent
    BY <1>2, <1>3, OverFacts
  <2> HIDE DEF Y
  <2>3. /\ Z \in SessionType /\ Z.client = c /\ Z.phase = "over"
        /\ Z.firstFrameSent = z.firstFrameSent
    BY <2>2 DEF SessionType
  <2> HIDE DEF Z
  <2> QED  BY <1>1, <1>2, <1>3, <1>5, <2>1, <2>3, CloseFrames
<1>6. CASE z.phase # "held"
  <2> DEFINE Z == [z EXCEPT !.cancelled = TRUE]
  <2>1. client' = [client EXCEPT ![c] = client[c]] /\ session' = [session EXCEPT ![s] = Z]
    BY <1>3, <1>6 DEF CloseFlow, MuxInv, MuxType
  <2>2. /\ Z \in SessionType /\ Z.client = c /\ Z.phase = z.phase
        /\ Z.firstFrameSent = z.firstFrameSent
    BY <1>2, <1>3 DEF SessionType
  <2> HIDE DEF Z
  <2> QED  BY <1>1, <1>2, <1>3, <1>4, <2>1, <2>2, KeepOne
<1> QED  BY <1>5, <1>6

\* closeAll of client c, after which the sessions of X are over.
LEMMA CloseAllFrames ==
  ASSUME MuxInv, MuxInv', FrameInv, NEW c \in Clients, NEW R \in ClientType,
         NEW X \in SUBSET Sessions,
         client' = [client EXCEPT ![c] = R],
         session' = [t \in Sessions |-> LET y == SessionsAfterCloseAll(c, session)[t]
                                        IN  IF t \in X THEN Over(y) ELSE y],
         wire' = wire, xudpEnabled' = xudpEnabled,
         R.closed, R.writes = client[c].writes, R.sending => client[c].sending
  PROVE  FrameInv'
<1>1. client'[c] = R /\ \A d \in Clients \ {c} : client'[d] = client[d]
  BY DEF MuxInv, MuxType
<1>2. \A d \in Clients : /\ client'[d].writes = client[d].writes
                         /\ client'[d].sending => client[d].sending
                         /\ client[d].closed => client'[d].closed
  BY <1>1
<1>3. ASSUME NEW t \in Sessions
      PROVE  /\ session'[t].firstFrameSent = session[t].firstFrameSent
             /\ session[t].phase # "none" => session'[t].client = session[t].client
             /\ \/ session'[t].phase \in {session[t].phase, "over"}
                \/ session[t].phase \in Early /\ session'[t].phase \in Early
                \/ session[t].phase \in Early /\ xudpEnabled /\ session'[t].phase = "created"
  <2> DEFINE y == SessionsAfterCloseAll(c, session)[t]
  <2>1. /\ y \in SessionType /\ y.client = session[t].client
        /\ y.firstFrameSent = session[t].firstFrameSent
        /\ y.phase = IF ~client[c].closed /\ t \in client[c].pending
                     THEN "refused" ELSE session[t].phase
    BY SessionsAfterCloseAllFacts
  <2>2. t \in client[c].pending => session[t].phase = "waiting"  BY DEF MuxInv, ClientInv
  <2>3. session'[t] = IF t \in X THEN Over(y) ELSE y  OBVIOUS
  <2> HIDE DEF y
  <2>4. y.phase = session[t].phase \/ (session[t].phase \in Early /\ y.phase \in Early)
    BY <2>1, <2>2 DEF Early
  <2>5. CASE t \in X  BY <2>1, <2>3, <2>5, OverFacts
  <2>6. CASE t \notin X  BY <2>1, <2>3, <2>4, <2>6
  <2> QED  BY <2>5, <2>6
<1> QED  BY <1>2, <1>3, KeepStep

\* DialFails keeps FrameInv.
LEMMA DialFailsFrames ==
  ASSUME MuxInv, MuxInv', FrameInv, NEW s \in Sessions, DialFails(s)
  PROVE  FrameInv'
<1>1. session[s].phase = "dialing"  BY DEF DialFails
<1>2. PICK c \in Clients : c = session[s].client  BY <1>1, AskedFacts
<1>3. client[c] \in ClientType  BY DEF MuxInv, MuxType
<1> DEFINE q == [client[c] EXCEPT !.connecting = FALSE]
           r == closeAll(c, q)
           R == Uncreated(r, s)
           zs == SessionsAfterCloseAll(c, session)
<1>4. /\ client' = [client EXCEPT ![c] = R] /\ session' = [zs EXCEPT ![s] = Over(@)]
      /\ wire' = wire /\ xudpEnabled' = xudpEnabled
  BY <1>2 DEF DialFails
<1>5. /\ q \in ClientType /\ q.closed = client[c].closed /\ q.sessions = client[c].sessions
      /\ q.pending = client[c].pending /\ ~q.connecting /\ q.writes = client[c].writes
      /\ q.sending = client[c].sending
  BY <1>3 DEF ClientType
<1> HIDE DEF q
<1>6. /\ r \in ClientType /\ r.closed /\ r.writes = client[c].writes
      /\ r.sending = client[c].sending
  BY <1>5, closeAllFacts
<1> HIDE DEF r
<1>7. /\ R \in ClientType /\ R.closed /\ R.writes = client[c].writes
      /\ R.sending = client[c].sending
  BY <1>6, UncreatedFacts DEF SameState
<1> HIDE DEF R
<1>8. zs = [t \in Sessions |-> zs[t]]
  BY DEF SessionsAfterCloseAll, MuxInv, MuxType
<1> HIDE DEF zs
<1>9. session' = [t \in Sessions |-> LET y == zs[t] IN IF t \in {s} THEN Over(y) ELSE y]
  BY <1>4, <1>8
<1>10. {s} \in SUBSET Sessions  OBVIOUS
<1> QED  BY <1>4, <1>7, <1>9, <1>10, CloseAllFrames DEF zs

\* ClientCloses keeps FrameInv.
LEMMA ClientClosesFrames ==
  ASSUME MuxInv, MuxInv', FrameInv, NEW c \in Clients, ClientCloses(c)
  PROVE  FrameInv'
<1>1. client[c] \in ClientType  BY DEF MuxInv, MuxType
<1> DEFINE R == closeAll(c, client[c])
           zs == SessionsAfterCloseAll(c, session)
<1>2. /\ client' = [client EXCEPT ![c] = R] /\ session' = zs
      /\ wire' = wire /\ xudpEnabled' = xudpEnabled
  BY DEF ClientCloses
<1>3. /\ R \in ClientType /\ R.closed /\ R.writes = client[c].writes
      /\ R.sending = client[c].sending
  BY <1>1, closeAllFacts
<1> HIDE DEF R
<1>4. zs = [t \in Sessions |-> zs[t]]
  BY DEF SessionsAfterCloseAll, MuxInv, MuxType
<1> HIDE DEF zs
<1>5. session' = [t \in Sessions |-> LET y == zs[t] IN IF t \in {} THEN Over(y) ELSE y]
  BY <1>2, <1>4
<1>6. {} \in SUBSET Sessions  OBVIOUS
<1> QED  BY <1>2, <1>3, <1>5, <1>6, CloseAllFrames DEF zs

\* TearDown keeps FrameInv.
LEMMA TearDownFrames ==
  ASSUME MuxInv, MuxInv', FrameInv, TearDown
  PROVE  FrameInv'
<1> DEFINE told(s) == SessionsAfterCloseAll(session[s].client, session)[s]
           after(s) == IF session[s].client \in clients THEN told(s) ELSE session[s]
<1>1. PICK listed \in SUBSET (1..asked) :
        session' = [s \in Sessions |->
          IF session[s].phase \in {"none", "over"} THEN session[s]
          ELSE IF s \notin listed THEN after(s)
          ELSE IF session[s].phase = "held"
          THEN Over([after(s) EXCEPT !.closed = TRUE, !.cancelled = TRUE])
          ELSE [after(s) EXCEPT !.cancelled = TRUE]]
  BY DEF TearDown
<1>2. /\ client' = [c \in Clients |-> IF c \in clients THEN closeAll(c, client[c]) ELSE client[c]]
      /\ xudpEnabled' = xudpEnabled /\ wire' = wire
  BY DEF TearDown
<1>3. \A d \in Clients : /\ client'[d].writes = client[d].writes
                         /\ client'[d].sending => client[d].sending
                         /\ client[d].closed => client'[d].closed
  <2> TAKE d \in Clients
  <2>1. client[d] \in ClientType  BY DEF MuxInv, MuxType
  <2> DEFINE R == closeAll(d, client[d])
  <2>2. /\ R \in ClientType /\ R.closed /\ R.writes = client[d].writes
        /\ R.sending = client[d].sending
    BY <2>1, closeAllFacts
  <2>3. client'[d] = R \/ client'[d] = client[d]  BY <1>2
  <2> HIDE DEF R
  <2> QED  BY <2>2, <2>3
<1>4. ASSUME NEW t \in Sessions
      PROVE  /\ session'[t].firstFrameSent = session[t].firstFrameSent
             /\ session[t].phase # "none" => session'[t].client = session[t].client
             /\ \/ session'[t].phase \in {session[t].phase, "over"}
                \/ session[t].phase \in Early /\ session'[t].phase \in Early
                \/ session[t].phase \in Early /\ xudpEnabled /\ session'[t].phase = "created"
  <2> DEFINE a == after(t)
  <2>1. PICK c \in Clients : c = session[t].client  BY DEF MuxInv, MuxType, SessionType
  <2>2. /\ a \in SessionType /\ a.client = c /\ a.firstFrameSent = session[t].firstFrameSent
        /\ a.phase = session[t].phase \/ (session[t].phase \in Early /\ a.phase \in Early)
    <3>1. CASE c \in clients
      <4> DEFINE y == SessionsAfterCloseAll(c, session)[t]
      <4>1. a = y  BY <2>1, <3>1
      <4>2. /\ y \in SessionType /\ y.client = c
            /\ y.firstFrameSent = session[t].firstFrameSent
            /\ y.phase = IF ~client[c].closed /\ t \in client[c].pending
                         THEN "refused" ELSE session[t].phase
        BY <2>1, SessionsAfterCloseAllFacts
      <4>3. t \in client[c].pending => session[t].phase = "waiting"  BY DEF MuxInv, ClientInv
      <4> HIDE DEF y, a
      <4> QED  BY <4>1, <4>2, <4>3 DEF Early
    <3>2. CASE c \notin clients
      <4>1. a = session[t]  BY <2>1, <3>2
      <4> HIDE DEF a
      <4> QED  BY <2>1, <4>1, SMTT(30) DEF MuxInv, MuxType
    <3> QED  BY <3>1, <3>2
  <2> DEFINE b == [a EXCEPT !.closed = TRUE, !.cancelled = TRUE]
             e == [a EXCEPT !.cancelled = TRUE]
  <2>3. session'[t] \in {session[t], a, Over(b), e}  BY <1>1
  <2> HIDE DEF a
  <2>4. /\ b \in SessionType /\ b.client = c /\ b.firstFrameSent = session[t].firstFrameSent
        /\ e \in SessionType /\ e.client = c /\ e.firstFrameSent = session[t].firstFrameSent
        /\ e.phase = a.phase
    BY <2>2 DEF SessionType
  <2> HIDE DEF b, e
  <2> DEFINE o == Over(b)
  <2>5. o.client = c /\ o.firstFrameSent = session[t].firstFrameSent /\ o.phase = "over"
    BY <2>4, OverFacts
  <2>6. session'[t] \in {session[t], a, o, e}  BY <2>3
  <2> HIDE DEF o
  <2> QED  BY <2>1, <2>2, <2>4, <2>5, <2>6
<1> QED  BY <1>2, <1>3, <1>4, KeepStep

\* DialSucceeds keeps FrameInv.
LEMMA DialSucceedsFrames ==
  ASSUME MuxInv, MuxInv', FrameInv, NEW s \in Sessions, DialSucceeds(s)
  PROVE  FrameInv'
<1>1. session[s].phase = "dialing"  BY DEF DialSucceeds
<1>2. PICK c \in Clients : c = session[s].client  BY <1>1, AskedFacts
<1>3. PICK r \in ClientType : r = client[c]  BY DEF MuxInv, MuxType
<1> DEFINE p(up) == [r EXCEPT !.connected = TRUE, !.connecting = FALSE, !.pending = {}, !.link = up]
           q(up) == resetIdleTimer(p(up))
<1>4. PICK up \in {"open", "dead"} :
        /\ client' = [client EXCEPT ![c] = Proceed(q(up), s)]
        /\ session' = [z \in Sessions |->
                         IF z = s THEN [session[z] EXCEPT !.phase = ProceedPhase(q(up))]
                         ELSE IF z \in r.pending THEN [session[z] EXCEPT !.phase = "resumed"]
                         ELSE session[z]]
  BY <1>2, <1>3 DEF DialSucceeds
<1>5. wire' = wire /\ xudpEnabled' = xudpEnabled  BY DEF DialSucceeds
<1> DEFINE P == p(up)
           Q == q(up)
           R == Proceed(Q, s)
           ph == ProceedPhase(Q)
<1>6. P \in ClientType /\ P.closed = r.closed /\ P.writes = r.writes /\ P.sending = r.sending
  BY DEF ClientType
<1>7. Q \in ClientType /\ Q.closed = r.closed /\ Q.writes = r.writes /\ Q.sending = r.sending
  <2> HIDE DEF p
  <2> QED  BY <1>6, resetIdleTimerFacts DEF SameState
<1>8. /\ client' = [client EXCEPT ![c] = R]
      /\ session' = [z \in Sessions |->
                         IF z = s THEN [session[z] EXCEPT !.phase = ph]
                         ELSE IF z \in r.pending THEN [session[z] EXCEPT !.phase = "resumed"]
                         ELSE session[z]]
  BY <1>4
<1> HIDE DEF p, q, P, Q
<1>9. /\ R \in ClientType /\ R.closed = r.closed /\ R.sending = r.sending
      /\ R.writes = IF xudpEnabled \/ r.closed THEN r.writes
                    ELSE Append(r.writes, Frame(s, "new"))
  <2>1. /\ R \in ClientType /\ SameState(R, Q) /\ R.sending = Q.sending
        /\ R.writes = IF xudpEnabled \/ Q.closed THEN Q.writes
                      ELSE Append(Q.writes, Frame(s, "new"))
    BY <1>7, ProceedFacts
  <2> HIDE DEF R
  <2> QED  BY <1>7, <2>1 DEF SameState
<1>10. ph = IF xudpEnabled THEN "created" ELSE IF r.closed THEN "over" ELSE "writing"
  BY <1>7 DEF ProceedPhase
<1> HIDE DEF R, ph
<1>11. \A t \in Sessions : session[t] \in SessionType  BY DEF MuxInv, MuxType
<1>12. /\ session'[s].client = c /\ session'[s].phase = ph
       /\ session'[s].firstFrameSent = session[s].firstFrameSent
  <2>1. session'[s] = [session[s] EXCEPT !.phase = ph]  BY <1>8
  <2>2. session[s] \in SessionType  BY <1>11
  <2> QED  BY <1>2, <2>1, <2>2 DEF SessionType
<1>13. ASSUME NEW t \in Sessions \ {s}
       PROVE  \/ session'[t] = session[t]
              \/ /\ session[t].phase \in Early /\ session'[t].phase \in Early
                 /\ session'[t].firstFrameSent = session[t].firstFrameSent
                 /\ session'[t].client = session[t].client
  <2>1. CASE t \in r.pending
    <3>1. session'[t] = [session[t] EXCEPT !.phase = "resumed"]  BY <1>8, <2>1
    <3>2. session[t].phase = "waiting"  BY <1>3, <2>1 DEF MuxInv, ClientInv
    <3>3. session[t] \in SessionType  BY <1>11
    <3> QED  BY <3>1, <3>2, <3>3 DEF Early, SessionType
  <2>2. CASE t \notin r.pending  BY <1>8, <2>2
  <2> QED  BY <2>1, <2>2
<1>14. client'[c] = R /\ \A d \in Clients \ {c} : client'[d] = client[d]
  BY <1>8 DEF MuxInv, MuxType
<1>15. CASE xudpEnabled \/ r.closed
  <2>1. R.writes = r.writes  BY <1>9, <1>15
  <2>2. \A d \in Clients : /\ client'[d].writes = client[d].writes
                           /\ client'[d].sending => client[d].sending
                           /\ client[d].closed => client'[d].closed
    BY <1>3, <1>9, <1>14, <2>1
  <2>3. ph = "over" \/ (xudpEnabled /\ ph = "created")  BY <1>10, <1>15
  <2>4. \A t \in Sessions :
          /\ session'[t].firstFrameSent = session[t].firstFrameSent
          /\ session[t].phase # "none" => session'[t].client = session[t].client
          /\ \/ session'[t].phase \in {session[t].phase, "over"}
             \/ session[t].phase \in Early /\ session'[t].phase \in Early
             \/ session[t].phase \in Early /\ xudpEnabled /\ session'[t].phase = "created"
    <3>1. session[s].phase \in Early  BY <1>1 DEF Early
    <3> QED  BY <1>2, <1>12, <1>13, <2>3, <3>1
  <2> QED  BY <1>5, <2>2, <2>4, KeepStep
<1>16. CASE ~xudpEnabled /\ ~r.closed
  <2>1. R.writes = Append(client[c].writes, Frame(s, "new"))  BY <1>3, <1>9, <1>16
  <2>2. Touches(c, s)  BY <1>2, <1>3, <1>5, <1>9, <1>13, <1>14 DEF Touches
  <2>3. session[s].phase \in Early /\ ph = "writing"  BY <1>1, <1>10, <1>16 DEF Early
  <2> QED  BY <1>12, <1>14, <1>16, <2>1, <2>2, <2>3, AppendNew
<1> QED  BY <1>15, <1>16

\* createSession keeps FrameInv.
LEMMA createSessionFrames ==
  ASSUME MuxInv, MuxInv', FrameInv, NEW c \in Clients, NEW r \in ClientType, NEW s \in Sessions,
         createSession(c, r, s), s = asked + 1, xudpEnabled' = xudpEnabled, wire' = wire,
         ~r.closed, r.sending = client[c].sending, r.writes = client[c].writes,
         ~client[c].closed
  PROVE  FrameInv'
<1> DEFINE p == [r EXCEPT !.isXUDP = xudpEnabled, !.sessions = @ \cup {s}]
           q == resetIdleTimer(p)
           z == [session[s] EXCEPT !.client = c]
<1>1. session[s] \in SessionType /\ session[s].phase = "none" /\ xudpEnabled \in BOOLEAN
  BY DEF MuxInv, MuxType, SessionInv
<1>2. p \in ClientType /\ p.closed = r.closed /\ p.writes = r.writes /\ p.sending = r.sending
  BY <1>1 DEF ClientType
<1> HIDE DEF p
<1>3. q \in ClientType /\ ~q.closed /\ q.writes = r.writes /\ q.sending = r.sending
  BY <1>2, resetIdleTimerFacts DEF SameState
<1>4. z \in SessionType /\ z.client = c /\ z.firstFrameSent = session[s].firstFrameSent
  BY <1>1 DEF SessionType
<1>5. \E R \in ClientType, ph \in {"created", "writing", "waiting", "dialing"} :
        /\ client' = [client EXCEPT ![c] = R]
        /\ session' = [session EXCEPT ![s] = [z EXCEPT !.phase = ph]]
        /\ ~R.closed /\ R.sending = r.sending
        /\ R.writes = IF ph = "writing" THEN Append(r.writes, Frame(s, "new")) ELSE r.writes
        /\ ph = "writing" => ~xudpEnabled
        /\ ph = "created" => xudpEnabled
  <2>1. CASE /\ client' = [client EXCEPT ![c] = Proceed(q, s)]
             /\ session' = [session EXCEPT ![s] = [z EXCEPT !.phase = ProceedPhase(q)]]
    <3> DEFINE R == Proceed(q, s)
               ph == ProceedPhase(q)
    <3>1. /\ R \in ClientType /\ R.closed = q.closed /\ R.sending = q.sending
          /\ R.writes = IF xudpEnabled \/ q.closed THEN q.writes
                        ELSE Append(q.writes, Frame(s, "new"))
      BY <1>3, ProceedFacts DEF SameState
    <3>2. ph = IF xudpEnabled THEN "created" ELSE "writing"  BY <1>3 DEF ProceedPhase
    <3>3. client' = [client EXCEPT ![c] = R] /\ session' = [session EXCEPT ![s] = [z EXCEPT !.phase = ph]]
      BY <2>1
    <3> HIDE DEF R, ph, q, z
    <3> QED  BY <1>3, <3>1, <3>2, <3>3
  <2>2. CASE /\ client' = [client EXCEPT ![c] = [q EXCEPT !.pending = @ \cup {s}]]
             /\ session' = [session EXCEPT ![s] = [z EXCEPT !.phase = "waiting"]]
    <3> DEFINE R == [q EXCEPT !.pending = @ \cup {s}]
    <3>1. R \in ClientType /\ R.closed = q.closed /\ R.sending = q.sending /\ R.writes = q.writes
      <4> HIDE DEF q
      <4> QED  BY <1>3 DEF ClientType
    <3>2. client' = [client EXCEPT ![c] = R]  BY <2>2
    <3> HIDE DEF R, q, z
    <3> QED  BY <1>3, <2>2, <3>1, <3>2
  <2>3. CASE /\ client' = [client EXCEPT ![c] = [q EXCEPT !.connecting = TRUE, !.link = "dialing"]]
             /\ session' = [session EXCEPT ![s] = [z EXCEPT !.phase = "dialing"]]
    <3> DEFINE R == [q EXCEPT !.connecting = TRUE, !.link = "dialing"]
    <3>1. R \in ClientType /\ R.closed = q.closed /\ R.sending = q.sending /\ R.writes = q.writes
      <4> HIDE DEF q
      <4> QED  BY <1>3 DEF ClientType
    <3>2. client' = [client EXCEPT ![c] = R]  BY <2>3
    <3> HIDE DEF R, q, z
    <3> QED  BY <1>3, <2>3, <3>1, <3>2
  <2> QED  BY <2>1, <2>2, <2>3 DEF createSession, p
<1>6. PICK R \in ClientType, ph \in {"created", "writing", "waiting", "dialing"} :
        /\ client' = [client EXCEPT ![c] = R]
        /\ session' = [session EXCEPT ![s] = [z EXCEPT !.phase = ph]]
        /\ ~R.closed /\ R.sending = r.sending
        /\ R.writes = IF ph = "writing" THEN Append(r.writes, Frame(s, "new")) ELSE r.writes
        /\ ph = "writing" => ~xudpEnabled
        /\ ph = "created" => xudpEnabled
  BY <1>5
<1> DEFINE Z == [z EXCEPT !.phase = ph]
<1> HIDE DEF z
<1>7. /\ Z \in SessionType /\ Z.client = c /\ Z.phase = ph
      /\ Z.firstFrameSent = session[s].firstFrameSent
  BY <1>4 DEF SessionType, Phases
<1>8. session' = [session EXCEPT ![s] = Z]  BY <1>6
<1> HIDE DEF Z
<1>9. session[s].phase \in Early  BY <1>1 DEF Early
<1>10. CASE ph # "writing"
  <2>1. R.writes = client[c].writes  BY <1>6, <1>10
  <2>2. ph \in Early \/ (xudpEnabled /\ ph = "created")  BY <1>6, <1>10 DEF Early
  <2>3. /\ session[s].phase # "none" => Z.client = session[s].client
        /\ \/ Z.phase \in {session[s].phase, "over"}
           \/ session[s].phase \in Early /\ Z.phase \in Early
           \/ session[s].phase \in Early /\ xudpEnabled /\ Z.phase = "created"
    BY <1>1, <1>7, <1>9, <2>2
  <2>4. (R.sending => client[c].sending) /\ (client[c].closed => R.closed)  BY <1>6
  <2>5. /\ MuxInv /\ MuxInv' /\ FrameInv /\ c \in Clients /\ s \in Sessions
        /\ R \in ClientType /\ Z \in SessionType /\ wire' = wire /\ xudpEnabled' = xudpEnabled
        /\ client' = [client EXCEPT ![c] = R] /\ session' = [session EXCEPT ![s] = Z]
        /\ Z.firstFrameSent = session[s].firstFrameSent
    BY <1>6, <1>7, <1>8
  <2> QED  BY ONLY <2>1, <2>3, <2>4, <2>5, KeepOne
<1>11. CASE ph = "writing"
  <2>1. R.writes = Append(client[c].writes, Frame(s, "new")) /\ ~xudpEnabled  BY <1>6, <1>11
  <2>2. /\ client'[c] = R /\ \A d \in Clients \ {c} : client'[d] = client[d]
        /\ session'[s] = Z /\ \A t \in Sessions \ {s} : session'[t] = session[t]
    BY <1>6, <1>8 DEF MuxInv, MuxType
  <2>3. Touches(c, s)  BY <1>6, <1>9, <2>2 DEF Touches
  <2> QED  BY <1>7, <1>9, <1>11, <2>1, <2>2, <2>3, AppendNew
<1> QED  BY <1>10, <1>11

\* dispatch keeps FrameInv.
LEMMA dispatchFrames ==
  ASSUME MuxInv, MuxInv', FrameInv, dispatch
  PROVE  FrameInv'
<1> DEFINE open == {c \in clients : ~client[c].closed}
           room == {c \in open : ~isFull(client[c])}
<1>1. /\ asked \in 0..MaxSessions /\ created \in 0..MaxClients /\ clients \in SUBSET (1..created)
      /\ MaxSessions \in Nat /\ MaxClients \in Nat
  BY BoundAssumption DEF MuxInv, MuxType
<1>2. asked < MaxSessions /\ xudpEnabled' = xudpEnabled /\ wire' = wire
  BY DEF dispatch
<1>3. PICK s \in Sessions : s = asked + 1  BY <1>1, <1>2
<1>4. ASSUME NEW c \in room, createSession(c, client[c], asked + 1)
      PROVE  FrameInv'
  <2>1. c \in Clients /\ ~client[c].closed  BY <1>1
  <2>2. client[c] \in ClientType /\ createSession(c, client[c], s)
    BY <1>3, <1>4, <2>1 DEF MuxInv, MuxType
  <2> QED  BY <1>2, <1>3, <2>1, <2>2, createSessionFrames
<1>5. ASSUME created < MaxClients, createSession(created + 1, NewClient, asked + 1)
      PROVE  FrameInv'
  <2>1. PICK c \in Clients : c = created + 1  BY <1>1, <1>5
  <2>2. ClientInv(c) /\ c > created  BY <1>1, <2>1 DEF MuxInv
  <2>3. ~client[c].closed /\ client[c].writes = <<>> /\ client[c].sending /\ client[c] \in ClientType
    BY <2>2 DEF ClientInv, MuxInv, MuxType
  <2>4. createSession(c, NewClient, s)  BY <1>3, <1>5, <2>1
  <2>5. /\ NewClient \in ClientType /\ ~NewClient.closed
        /\ NewClient.sending = client[c].sending /\ NewClient.writes = client[c].writes
    BY <2>3, NewClientFacts DEF ClientType
  <2> QED  BY <1>2, <1>3, <2>3, <2>4, <2>5, createSessionFrames
<1> QED  BY <1>4, <1>5 DEF dispatch

\* Client c takes the frame at place i, one of session s, out of the n frames ws.
Drops(c, s, i, n, ws) ==
  /\ ws = client[c].writes /\ n = Len(ws) /\ ws[i].session = s
  /\ DOMAIN client'[c].writes = 1..(n - 1)
  /\ \A j \in 1..(n - 1) : client'[c].writes[j] = ws[IF j < i THEN j ELSE j + 1]
  /\ client'[c].sending => client[c].sending
  /\ client[c].closed => client'[c].closed
  /\ xudpEnabled' = xudpEnabled
  /\ \A d \in Clients \ {c} : client'[d] = client[d]
  /\ \A t \in Sessions \ {s} :
       /\ wire'[t] = wire[t]
       /\ session'[t].client = session[t].client
       /\ session'[t].firstFrameSent = session[t].firstFrameSent
       /\ \/ session'[t].phase = session[t].phase
          \/ session[t].phase \in Early /\ session'[t].phase \in Early

\* Such a step keeps the frame invariant if session s and its other frames do.
LEMMA DropStep ==
  ASSUME MuxInv, MuxInv', FrameInv,
         NEW c \in Clients, NEW s \in Sessions, NEW n \in Nat, NEW i \in 1..n,
         NEW ws \in Seq(FrameType), Drops(c, s, i, n, ws), session[s].client = c,
         WireInv(s)',
         \A j \in 1..(n - 1) : client'[c].writes[j].session = s => QueuedInv(c, j)'
  PROVE  FrameInv'
<1>0. n \in Int /\ i \in Int /\ 1 <= i /\ i <= n /\ DOMAIN ws = 1..n  BY DEF Drops
<1>1. /\ ws = client[c].writes /\ ws[i].session = s
      /\ DOMAIN client'[c].writes = 1..(n - 1)
      /\ \A j \in 1..(n - 1) : client'[c].writes[j] = ws[IF j < i THEN j ELSE j + 1]
      /\ client'[c].sending => client[c].sending
      /\ client[c].closed => client'[c].closed
      /\ xudpEnabled' = xudpEnabled
      /\ \A d \in Clients \ {c} : client'[d] = client[d]
  BY DEF Drops
<1>2. \A t \in Sessions \ {s} :
       /\ wire'[t] = wire[t]
       /\ session'[t].client = session[t].client
       /\ session'[t].firstFrameSent = session[t].firstFrameSent
       /\ \/ session'[t].phase = session[t].phase
          \/ session[t].phase \in Early /\ session'[t].phase \in Early
  BY DEF Drops
<1>3. \A d \in Clients : \A j \in DOMAIN client[d].writes :
        client[d].writes[j] \in FrameType /\ QueuedInv(d, j)
  <2> TAKE d \in Clients
  <2>1. client[d].writes \in Seq(FrameType)  BY DEF MuxInv, MuxType, ClientType
  <2> QED  BY <2>1 DEF FrameInv
<1>4. ASSUME NEW d \in Clients, NEW k \in DOMAIN client[d].writes,
             client[d].writes[k].session # s
      PROVE  LET t == client[d].writes[k].session
             IN  /\ t \in Sessions \ {s} /\ session'[t].phase = session[t].phase
  <2>1. PICK f \in FrameType : f = client[d].writes[k]  BY <1>3, <1>4
  <2>2. PICK t \in Sessions : t = f.session  BY DEF FrameType
  <2>3. QueuedInv(d, k)  BY <1>3, <1>4
  <2>4. session[t].phase \notin Early  BY <2>1, <2>2, <2>3 DEF QueuedInv
  <2> QED  BY <1>2, <1>4, <2>1, <2>2, <2>4
<1>5. ASSUME NEW d \in Clients, NEW j \in DOMAIN client'[d].writes PROVE QueuedInv(d, j)'
  <2>1. CASE d # c
    <3>1. client'[d] = client[d] /\ j \in DOMAIN client[d].writes  BY <1>1, <1>5, <2>1
    <3>2. PICK f \in FrameType : f = client[d].writes[j]  BY <1>3, <3>1
    <3>3. PICK t \in Sessions : t = f.session  BY DEF FrameType
    <3>4. QueuedInv(d, j)  BY <1>3, <3>1
    <3>5. t # s  BY <2>1, <3>2, <3>3, <3>4 DEF QueuedInv
    <3>6. session'[t].phase = session[t].phase  BY <1>4, <3>1, <3>2, <3>3, <3>5
    <3>7. j \in Int
      <4>1. client[d].writes \in Seq(FrameType)  BY DEF MuxInv, MuxType, ClientType
      <4> QED  BY <3>1, <4>1
    <3>8. /\ wire'[t] = wire[t] /\ session'[t].client = session[t].client
          /\ session'[t].firstFrameSent = session[t].firstFrameSent
      BY <1>2, <3>5
    <3>9. /\ f = client'[d].writes[j] /\ (client'[d].sending => client[d].sending)
          /\ (\E k \in 1..(j - 1) : client[d].writes[k] = Frame(t, "new")) =>
               \E k \in 1..(j - 1) : client'[d].writes[k] = Frame(t, "new")
      BY <3>1, <3>2
    <3>10. d \in Clients /\ t \in Sessions /\ f \in FrameType  OBVIOUS
    <3> QED  BY ONLY <3>2, <3>3, <3>4, <3>6, <3>7, <3>8, <3>9, <3>10, QueuedSame
  <2>2. CASE d = c
    <3>1. j \in 1..(n - 1)  BY <1>1, <1>5, <2>2
    <3>2. PICK k \in 1..n : k = IF j < i THEN j ELSE j + 1  BY <1>0, <3>1
    <3>3. k # i /\ j \in Int /\ k \in Int  BY <1>0, <3>1, <3>2
    <3>4. client'[c].writes[j] = client[c].writes[k] /\ k \in DOMAIN client[c].writes
      BY <1>0, <1>1, <3>1, <3>2
    <3>5. PICK f \in FrameType : f = client[c].writes[k]  BY <1>3, <3>4
    <3>6. PICK t \in Sessions : t = f.session  BY DEF FrameType
    <3>7. CASE t = s  BY <2>2, <3>1, <3>4, <3>5, <3>6, <3>7
    <3>8. CASE t # s
      <4>1. session'[t].phase = session[t].phase  BY <1>4, <3>4, <3>5, <3>6, <3>8
      <4>2. QueuedInv(c, k)  BY <1>3, <3>4
      <4>3. ASSUME NEW m \in 1..(k - 1), client[c].writes[m] = Frame(t, "new")
            PROVE  \E l \in 1..(j - 1) : client'[c].writes[l] = Frame(t, "new")
        <5>1. m # i
          <6>1. Frame(t, "new").session = t  BY DEF Frame
          <6> QED  BY <1>1, <3>8, <4>3, <6>1
        <5>2. PICK l \in 1..(n - 1) : m = IF l < i THEN l ELSE l + 1
          <6>1. CASE m < i  BY <1>0, <3>1, <3>2, <6>1
          <6>2. CASE ~(m < i)
            <7>1. m - 1 \in 1..(n - 1) /\ ~(m - 1 < i) /\ m = (m - 1) + 1
              BY <1>0, <3>1, <3>2, <5>1, <6>2
            <7> QED  BY <7>1
          <6> QED  BY <6>1, <6>2
        <5>3. l \in 1..(j - 1)  BY <1>0, <3>1, <3>2, <5>1, <5>2
        <5>4. client'[c].writes[l] = client[c].writes[m]  BY <1>1, <5>2
        <5> QED  BY <4>3, <5>3, <5>4
      <4>4. f = client'[c].writes[j] /\ f = client[c].writes[k]  BY <3>4, <3>5
      <4>5. /\ wire'[t] = wire[t] /\ session'[t].client = session[t].client
            /\ session'[t].firstFrameSent = session[t].firstFrameSent
            /\ client'[c].sending => client[c].sending
        BY <1>1, <1>2, <3>8
      <4>6. (\E m \in 1..(k - 1) : client[c].writes[m] = Frame(t, "new")) =>
              \E l \in 1..(j - 1) : client'[c].writes[l] = Frame(t, "new")
        BY <4>3
      <4>7. c \in Clients /\ t \in Sessions /\ f \in FrameType /\ t = f.session /\ j \in Int /\ k \in Int
        BY <3>3, <3>6
      <4>8. QueuedInv(c, j)'
        BY ONLY <4>1, <4>2, <4>4, <4>5, <4>6, <4>7, QueuedSame
      <4> QED  BY <2>2, <4>8
    <3> QED  BY <3>7, <3>8
  <2> QED  BY <2>1, <2>2
<1>6. ASSUME NEW d \in Clients, NEW j \in DOMAIN client'[d].writes, NEW k \in DOMAIN client'[d].writes
      PROVE  PairInv(d, j, k)'
  <2>1. CASE d # c
    <3>1. client'[d] = client[d]  BY <1>1, <2>1
    <3>2. PairInv(d, j, k)  BY <1>6, <3>1 DEF FrameInv
    <3> QED  BY <3>1, <3>2 DEF PairInv
  <2>2. CASE d = c
    <3>1. j \in 1..(n - 1) /\ k \in 1..(n - 1)  BY <1>1, <1>6, <2>2
    <3>2. PICK a \in 1..n : a = IF j < i THEN j ELSE j + 1  BY <1>0, <3>1
    <3>3. PICK b \in 1..n : b = IF k < i THEN k ELSE k + 1  BY <1>0, <3>1
    <3>4. j < k => a < b  BY <1>0, <3>1, <3>2, <3>3
    <3>5. /\ client'[c].writes[j] = client[c].writes[a]
          /\ client'[c].writes[k] = client[c].writes[b]
      BY <1>1, <3>1, <3>2, <3>3
    <3>6. PairInv(c, a, b)  BY <1>0, <1>1 DEF FrameInv
    <3> QED  BY <2>2, <3>4, <3>5, <3>6 DEF PairInv
  <2> QED  BY <2>1, <2>2
<1>7. ASSUME NEW t \in Sessions PROVE WireInv(t)'
  <2>1. CASE t = s  BY <2>1
  <2>2. CASE t # s
    <3>1. WireInv(t)  BY DEF FrameInv
    <3>2. /\ wire'[t] = wire[t] /\ session'[t].client = session[t].client
          /\ session'[t].firstFrameSent = session[t].firstFrameSent
          /\ \/ session'[t].phase = session[t].phase
             \/ session[t].phase \in Early /\ session'[t].phase \in Early
      BY <1>2, <2>2
    <3>3. CASE session[t].phase \in Early /\ session'[t].phase \in Early
      BY <1>1, <3>1, <3>2, <3>3 DEF WireInv, Early
    <3>4. CASE session'[t].phase = session[t].phase
      <4>1. PICK e \in Clients : e = session[t].client  BY DEF MuxInv, MuxType, SessionType
      <4>2. client[e].closed => client'[e].closed  BY <1>1
      <4>3. ASSUME NEW k \in DOMAIN client[e].writes, client[e].writes[k] = Frame(t, "new")
            PROVE  \E l \in DOMAIN client'[e].writes : client'[e].writes[l] = Frame(t, "new")
        <5>1. CASE e # c  BY <1>1, <4>3, <5>1
        <5>2. CASE e = c
          <6>1. k \in 1..n  BY <1>0, <1>1, <4>3, <5>2
          <6>2. k # i
            <7>1. Frame(t, "new").session = t  BY DEF Frame
            <7> QED  BY <1>1, <2>2, <4>3, <5>2, <7>1
          <6>3. PICK l \in 1..(n - 1) : k = IF l < i THEN l ELSE l + 1
            <7>1. CASE k < i  BY <1>0, <6>1, <7>1
            <7>2. CASE ~(k < i)
              <8>1. k - 1 \in 1..(n - 1) /\ ~(k - 1 < i) /\ k = (k - 1) + 1
                BY <1>0, <6>1, <6>2, <7>2
              <8> QED  BY <8>1
            <7> QED  BY <7>1, <7>2
          <6>4. client'[c].writes[l] = client[c].writes[k] /\ l \in DOMAIN client'[c].writes
            BY <1>1, <6>3
          <6> QED  BY <4>3, <5>2, <6>4
        <5> QED  BY <5>1, <5>2
      <4>4. (\E k \in DOMAIN client[e].writes : client[e].writes[k] = Frame(t, "new")) =>
              \E l \in DOMAIN client'[e].writes : client'[e].writes[l] = Frame(t, "new")
        BY <4>3
      <4>5. xudpEnabled' = xudpEnabled /\ t \in Sessions /\ e \in Clients  BY <1>1
      <4> QED  BY ONLY <3>1, <3>2, <3>4, <4>1, <4>2, <4>4, <4>5, WireSame
    <3> QED  BY <3>2, <3>3, <3>4
  <2> QED  BY <2>1, <2>2
<1> QED  BY <1>5, <1>6, <1>7 DEF FrameInv

\* The frames of a session whose New frame is first are not New, and none
\* follows the End frame.
LEMMA LaterFrames ==
  ASSUME FrameInv, NEW c \in Clients, NEW i \in DOMAIN client[c].writes,
         NEW j \in DOMAIN client[c].writes, i < j,
         client[c].writes[j].session = client[c].writes[i].session
  PROVE  /\ client[c].writes[j].status # "new" /\ client[c].writes[i].status # "end"
         /\ session[client[c].writes[j].session].phase # "writing"
<1>1. PairInv(c, i, j) /\ QueuedInv(c, j)  BY DEF FrameInv
<1> QED  BY <1>1 DEF PairInv, QueuedInv

\* LockThrows keeps FrameInv.
LEMMA LockThrowsFrames ==
  ASSUME MuxInv, MuxInv', FrameInv, NEW s \in Sessions, LockThrows(s)
  PROVE  FrameInv'
<1>1. session[s].phase = "writing" /\ wire' = wire /\ xudpEnabled' = xudpEnabled
  BY DEF LockThrows
<1>2. PICK c \in Clients : c = session[s].client  BY <1>1, AskedFacts
<1>3. client[c] \in ClientType /\ session[s] \in SessionType /\ ClientInv(c)
  BY <1>1, <1>2, AskedFacts
<1>4. PICK ws \in Seq(FrameType) : ws = client[c].writes  BY <1>3 DEF ClientType
<1>5. PICK n \in Nat : n = Len(ws)
  <2>1. Len(ws) \in Nat  OBVIOUS
  <2> QED  BY <2>1
<1>6. PICK i \in DOMAIN client[c].writes :
        /\ client[c].writes[i] = Frame(s, "new")
        /\ client' = [client EXCEPT ![c] =
             Uncreated([client[c] EXCEPT !.writes = RemoveAt(@, i),
                                         !.sending = IF i = 1 THEN ~client[c].closed ELSE @], s)]
  BY <1>2 DEF LockThrows
<1> DEFINE us == RemoveAt(ws, i)
           b == IF i = 1 THEN ~client[c].closed ELSE client[c].sending
           Q == [client[c] EXCEPT !.writes = us, !.sending = b]
           R == Uncreated(Q, s)
           Z == Over(session[s])
<1>7. client' = [client EXCEPT ![c] = R] /\ session' = [session EXCEPT ![s] = Z]
  BY <1>4, <1>6 DEF LockThrows
<1>8. i \in 1..n /\ n \in Nat /\ DOMAIN ws = 1..n  BY <1>4, <1>5, <1>6
<1>9. /\ us \in Seq(FrameType) /\ DOMAIN us = 1..(n - 1)
      /\ \A j \in 1..(n - 1) : us[j] = ws[IF j < i THEN j ELSE j + 1]
  <2>1. /\ us \in Seq(FrameType) /\ Len(us) = Len(ws) - 1
        /\ \A j \in 1..(Len(ws) - 1) : us[j] = ws[IF j < i THEN j ELSE j + 1]
    BY <1>4, <1>6, RemoveAtFacts
  <2> HIDE DEF us
  <2> QED  BY <1>5, <2>1
<1>10. b \in BOOLEAN /\ (b => client[c].sending)
  BY <1>3 DEF ClientType, ClientInv
<1> HIDE DEF us, b
<1>11. Q \in ClientType /\ Q.closed = client[c].closed /\ Q.writes = us /\ Q.sending = b
  BY <1>3, <1>9, <1>10 DEF ClientType
<1> HIDE DEF Q
<1>12. R \in ClientType /\ R.closed = client[c].closed /\ R.writes = us /\ R.sending = b
  BY <1>11, UncreatedFacts DEF SameState
<1>13. /\ Z \in SessionType /\ Z.client = c /\ Z.phase = "over"
       /\ Z.firstFrameSent = session[s].firstFrameSent
  BY <1>2, <1>3, OverFacts
<1> HIDE DEF R, Z
<1>14. /\ client'[c] = R /\ \A d \in Clients \ {c} : client'[d] = client[d]
       /\ session'[s] = Z /\ \A t \in Sessions \ {s} : session'[t] = session[t]
  BY <1>7 DEF MuxInv, MuxType
<1>15. ws[i].session = s /\ ws[i].status = "new"  BY <1>4, <1>6 DEF Frame
<1>16. Drops(c, s, i, n, ws)
  BY <1>1, <1>4, <1>5, <1>9, <1>10, <1>12, <1>14, <1>15 DEF Drops
<1>17. ASSUME NEW j \in 1..(n - 1), client'[c].writes[j].session = s PROVE QueuedInv(c, j)'
  <2>1. PICK k \in 1..n : k = IF j < i THEN j ELSE j + 1  BY <1>8
  <2>2. k # i  BY <1>8, <2>1
  <2>3. ws[k].session = s  BY <1>9, <1>12, <1>14, <1>17, <2>1
  <2>4. CASE k < i
    <3>1. ws[i].status # "new"  BY <1>4, <1>8, <1>15, <2>3, <2>4, LaterFrames
    <3> QED  BY <1>15, <3>1
  <2>5. CASE i < k
    <3>1. session[s].phase # "writing"  BY <1>4, <1>8, <1>15, <2>3, <2>5, LaterFrames
    <3> QED  BY <1>1, <3>1
  <2>6. k < i \/ i < k  BY <1>8, <2>2
  <2> QED  BY <2>4, <2>5, <2>6
<1>18. WireInv(s)'
  <2>1. WireInv(s)  BY DEF FrameInv
  <2>2. wire[s] = <<>>  BY <1>1, <2>1 DEF WireInv
  <2>3. /\ session'[s].phase = "over" /\ wire'[s] = <<>> /\ xudpEnabled' = xudpEnabled
        /\ session'[s].firstFrameSent = session[s].firstFrameSent
    BY <1>1, <1>13, <1>14, <2>2
  <2> QED  BY ONLY <2>1, <2>3 DEF WireInv, Early
<1>19. \A j \in 1..(n - 1) : client'[c].writes[j].session = s => QueuedInv(c, j)'  BY <1>17
<1> QED  BY <1>2, <1>8, <1>16, <1>18, <1>19, DropStep

\* The frame that is sent, or lost, is the first of its client.
LEMMA FirstFrame ==
  ASSUME MuxInv, FrameInv, NEW c \in Clients, client[c].writes # <<>>
  PROVE  \E ws \in Seq(FrameType), n \in Nat, f \in FrameType, s \in Sessions :
           /\ ws = client[c].writes /\ n = Len(ws) /\ DOMAIN ws = 1..n /\ 1 \in 1..n
           /\ f = Head(ws) /\ f = ws[1] /\ s = f.session
           /\ Tail(ws) \in Seq(FrameType) /\ DOMAIN Tail(ws) = 1..(n - 1)
           /\ \A j \in 1..(n - 1) : Tail(ws)[j] = ws[IF j < 1 THEN j ELSE j + 1]
           /\ session[s].client = c /\ QueuedInv(c, 1)
<1>1. PICK ws \in Seq(FrameType) : ws = client[c].writes
  BY DEF MuxInv, MuxType, ClientType
<1>2. PICK n \in Nat : n = Len(ws)
  <2>1. Len(ws) \in Nat  OBVIOUS
  <2> QED  BY <2>1
<1>3. 1 \in 1..n /\ DOMAIN ws = 1..n /\ Head(ws) = ws[1]  BY <1>1, <1>2
<1>4. PICK f \in FrameType : f = ws[1]  BY <1>3
<1>5. PICK s \in Sessions : s = f.session  BY DEF FrameType
<1>6. /\ Tail(ws) \in Seq(FrameType) /\ DOMAIN Tail(ws) = 1..(n - 1)
      /\ \A j \in 1..(n - 1) : Tail(ws)[j] = ws[j + 1]
  BY <1>1, <1>2
<1>7. \A j \in 1..(n - 1) : (IF j < 1 THEN j ELSE j + 1) = j + 1  OBVIOUS
<1>8. \A j \in 1..(n - 1) : Tail(ws)[j] = ws[IF j < 1 THEN j ELSE j + 1]
  BY <1>6, <1>7
<1>9. QueuedInv(c, 1)  BY <1>1, <1>3 DEF FrameInv
<1>10. session[s].client = c  BY <1>1, <1>4, <1>5, <1>9 DEF QueuedInv
<1> QED  BY <1>1, <1>2, <1>3, <1>4, <1>5, <1>6, <1>8, <1>9, <1>10

\* WriteFails keeps FrameInv.
LEMMA WriteFailsFrames ==
  ASSUME MuxInv, MuxInv', FrameInv, NEW c \in Clients, WriteFails(c)
  PROVE  FrameInv'
<1>1. client[c] \in ClientType /\ client[c].writes # <<>> /\ wire' = wire
      /\ xudpEnabled' = xudpEnabled
  BY DEF MuxInv, MuxType, WriteFails
<1>2. PICK ws \in Seq(FrameType), n \in Nat, f \in FrameType, s \in Sessions :
        /\ ws = client[c].writes /\ n = Len(ws) /\ DOMAIN ws = 1..n /\ 1 \in 1..n
        /\ f = Head(ws) /\ f = ws[1] /\ s = f.session
        /\ Tail(ws) \in Seq(FrameType) /\ DOMAIN Tail(ws) = 1..(n - 1)
        /\ \A j \in 1..(n - 1) : Tail(ws)[j] = ws[IF j < 1 THEN j ELSE j + 1]
        /\ session[s].client = c /\ QueuedInv(c, 1)
  BY <1>1, FirstFrame
<1> DEFINE failed == session[s].phase = "writing" /\ f.status = "new"
           q == [Written(client[c]) EXCEPT !.sending = FALSE]
           r == closeAll(c, q)
           R == IF failed THEN Uncreated(r, s) ELSE r
           zs == SessionsAfterCloseAll(c, session)
<1>3. /\ client' = [client EXCEPT ![c] = R]
      /\ session' = IF failed THEN [zs EXCEPT ![s] = Over(@)] ELSE zs
  BY <1>2 DEF WriteFails
<1>4. /\ q \in ClientType /\ q.closed = client[c].closed /\ q.sessions = client[c].sessions
      /\ q.pending = client[c].pending /\ q.connecting = client[c].connecting
      /\ q.writes = Tail(ws) /\ ~q.sending
  <2>1. /\ Written(client[c]) \in ClientType /\ SameState(Written(client[c]), client[c])
        /\ Written(client[c]).sessions = client[c].sessions
        /\ Written(client[c]).pending = client[c].pending
        /\ Written(client[c]).writes = Tail(ws)
    BY <1>1, <1>2, WrittenFacts
  <2> QED  BY <2>1 DEF ClientType, SameState
<1> HIDE DEF q
<1>5. r \in ClientType /\ r.closed /\ r.writes = Tail(ws) /\ ~r.sending
  BY <1>4, closeAllFacts
<1> HIDE DEF r
<1>6. R \in ClientType /\ R.closed /\ R.writes = Tail(ws) /\ ~R.sending
  BY <1>5, UncreatedFacts DEF SameState
<1> HIDE DEF R
<1>7. client'[c] = R /\ \A d \in Clients \ {c} : client'[d] = client[d]
  BY <1>3 DEF MuxInv, MuxType
<1>8. ASSUME NEW t \in Sessions
      PROVE  /\ zs[t] \in SessionType /\ zs[t].client = session[t].client
             /\ zs[t].firstFrameSent = session[t].firstFrameSent
             /\ \/ zs[t].phase = session[t].phase
                \/ session[t].phase \in Early /\ zs[t].phase \in Early
  <2>1. /\ zs[t] \in SessionType /\ zs[t].client = session[t].client
        /\ zs[t].firstFrameSent = session[t].firstFrameSent
        /\ zs[t].phase = IF ~client[c].closed /\ t \in client[c].pending
                         THEN "refused" ELSE session[t].phase
    BY SessionsAfterCloseAllFacts
  <2>2. t \in client[c].pending => session[t].phase = "waiting"  BY DEF MuxInv, ClientInv
  <2> HIDE DEF zs
  <2> QED  BY <2>1, <2>2 DEF Early
<1>9. zs = [t \in Sessions |-> zs[t]]
  BY DEF SessionsAfterCloseAll, MuxInv, MuxType
<1> HIDE DEF zs
<1>10. \A t \in Sessions \ {s} : session'[t] = zs[t]  BY <1>3, <1>9
<1>11. /\ session[s].phase \notin Early
       /\ session[s].phase = "over" \/ session[s].firstFrameSent
    BY <1>2 DEF QueuedInv
<1>12. /\ session'[s].client = c /\ session'[s].firstFrameSent = session[s].firstFrameSent
       /\ session'[s].phase = IF failed THEN "over" ELSE session[s].phase
  <2>1. zs[s].phase = session[s].phase  BY <1>8, <1>11
  <2>2. CASE failed
    <3>1. session'[s] = Over(zs[s])  BY <1>3, <1>9, <2>2
    <3> QED  BY <1>2, <1>8, <2>2, <3>1, OverFacts, SMTT(30)
  <2>3. CASE ~failed
    <3>1. session'[s] = zs[s]  BY <1>3, <2>3
    <3> QED  BY <1>2, <1>8, <2>1, <2>3, <3>1
  <2> QED  BY <2>2, <2>3
<1>13. Drops(c, s, 1, n, ws)
  <2>1. \A t \in Sessions \ {s} :
          /\ wire'[t] = wire[t]
          /\ session'[t].client = session[t].client
          /\ session'[t].firstFrameSent = session[t].firstFrameSent
          /\ \/ session'[t].phase = session[t].phase
             \/ session[t].phase \in Early /\ session'[t].phase \in Early
    BY <1>1, <1>8, <1>10
  <2>2. /\ DOMAIN client'[c].writes = 1..(n - 1)
        /\ \A j \in 1..(n - 1) : client'[c].writes[j] = ws[IF j < 1 THEN j ELSE j + 1]
    <3> DEFINE us == Tail(ws)
    <3>1. client'[c].writes = us  BY <1>6, <1>7
    <3>2. /\ DOMAIN us = 1..(n - 1)
          /\ \A j \in 1..(n - 1) : us[j] = ws[IF j < 1 THEN j ELSE j + 1]
      BY <1>2
    <3> HIDE DEF us
    <3> QED  BY <3>1, <3>2
  <2>3. /\ ws = client[c].writes /\ n = Len(ws) /\ ws[1].session = s
        /\ (client'[c].sending => client[c].sending) /\ client'[c].closed
    BY <1>2, <1>6, <1>7
  <2> QED  BY ONLY <1>1, <1>7, <2>1, <2>2, <2>3 DEF Drops
<1>14. ASSUME NEW j \in 1..(n - 1), client'[c].writes[j].session = s PROVE QueuedInv(c, j)'
  <2>1. /\ client'[c].writes[j] = ws[j + 1] /\ j + 1 \in DOMAIN ws /\ 1 < j + 1
    <3>1. (IF j < 1 THEN j ELSE j + 1) = j + 1 /\ j + 1 \in 1..n /\ 1 < j + 1  OBVIOUS
    <3> DEFINE us == Tail(ws)
    <3>2. client'[c].writes = us  BY <1>6, <1>7
    <3>3. us[j] = ws[IF j < 1 THEN j ELSE j + 1]  BY <1>2
    <3> HIDE DEF us
    <3>4. DOMAIN ws = 1..n  BY <1>2
    <3> QED  BY ONLY <3>1, <3>2, <3>3, <3>4
  <2>2. PICK g \in FrameType : g = ws[j + 1]  BY <2>1
  <2>3. PICK k \in DOMAIN ws : k = j + 1  BY <2>1
  <2>4. QueuedInv(c, k) /\ g = client[c].writes[k] /\ g.session = s
    BY <1>2, <1>14, <2>1, <2>2, <2>3 DEF FrameInv
  <2>5. session[s].phase # "writing" /\ g.status # "new"
    <3>1. 1 \in DOMAIN client[c].writes /\ k \in DOMAIN client[c].writes /\ 1 < k
      BY <1>2, <2>1, <2>3
    <3>2. client[c].writes[k].session = client[c].writes[1].session  BY <1>2, <2>4
    <3> QED  BY <2>4, <3>1, <3>2, LaterFrames
  <2>6. session'[s].phase = session[s].phase /\ ~client'[c].sending
    BY <1>6, <1>7, <1>12, <2>5
  <2>7. /\ session[s].phase \notin Early
        /\ session[s].phase = "over" \/ session[s].firstFrameSent
        /\ g.status = "end" => session[s].phase = "over"
        /\ \A l \in DOMAIN wire[s] : wire[s][l] # "end"
    BY <2>4 DEF QueuedInv
  <2>8. client'[c].writes[j] = g  BY <2>1, <2>2
  <2> QED  BY ONLY <1>1, <1>12, <2>4, <2>5, <2>6, <2>7, <2>8 DEF QueuedInv
<1>15. WireInv(s)'
  <2>1. WireInv(s)  BY DEF FrameInv
  <2>2. session'[s].phase \in {session[s].phase, "over"} /\ client'[c].closed
    BY <1>6, <1>7, <1>12
  <2> QED  BY ONLY <1>1, <1>12, <2>1, <2>2 DEF WireInv, Early
<1>16. \A j \in 1..(n - 1) : client'[c].writes[j].session = s => QueuedInv(c, j)'  BY <1>14
<1>17. 1 \in 1..n /\ session[s].client = c  BY <1>2
<1> QED  BY <1>13, <1>15, <1>16, <1>17, DropStep

\* WriteDone keeps FrameInv.
LEMMA WriteDoneFrames ==
  ASSUME MuxInv, MuxInv', FrameInv, NEW c \in Clients, WriteDone(c)
  PROVE  FrameInv'
<1>1. /\ client[c] \in ClientType /\ client[c].writes # <<>> /\ client[c].sending
      /\ xudpEnabled' = xudpEnabled /\ wire \in [Sessions -> Seq({"new", "keep", "end"})]
  BY DEF MuxInv, MuxType, WriteDone
<1>2. PICK ws \in Seq(FrameType), n \in Nat, f \in FrameType, s \in Sessions :
        /\ ws = client[c].writes /\ n = Len(ws) /\ DOMAIN ws = 1..n /\ 1 \in 1..n
        /\ f = Head(ws) /\ f = ws[1] /\ s = f.session
        /\ Tail(ws) \in Seq(FrameType) /\ DOMAIN Tail(ws) = 1..(n - 1)
        /\ \A j \in 1..(n - 1) : Tail(ws)[j] = ws[IF j < 1 THEN j ELSE j + 1]
        /\ session[s].client = c /\ QueuedInv(c, 1)
  BY <1>1, FirstFrame
<1>3. session[s] \in SessionType  BY SMTT(30) DEF MuxInv, MuxType
<1> DEFINE R == Written(client[c])
           made == session[s].phase = "writing" /\ f.status = "new"
           Z == IF made THEN [session[s] EXCEPT !.phase = "created"] ELSE session[s]
           w == Append(wire[s], f.status)
<1>4. /\ client' = [client EXCEPT ![c] = R] /\ session' = [session EXCEPT ![s] = Z]
      /\ wire' = [wire EXCEPT ![s] = w]
  BY <1>2, ZenonT(30) DEF WriteDone, MuxInv, MuxType
<1>5. R \in ClientType /\ R.closed = client[c].closed /\ R.writes = Tail(ws)
  BY <1>1, <1>2, WrittenFacts DEF SameState
<1>6. /\ Z \in SessionType /\ Z.client = c
      /\ Z.firstFrameSent = session[s].firstFrameSent
      /\ Z.phase = IF made THEN "created" ELSE session[s].phase
  BY <1>2, <1>3 DEF SessionType, Phases
<1>7. PICK v \in Seq({"new", "keep", "end"}) : v = wire[s]  BY <1>1
<1>8. PICK m \in Nat : m = Len(v)
  <2>1. Len(v) \in Nat  OBVIOUS
  <2> QED  BY <2>1
<1>9. /\ DOMAIN v = 1..m /\ DOMAIN w = 1..(m + 1) /\ Len(w) = m + 1 /\ w # <<>>
      /\ w[m + 1] = f.status /\ \A k \in 1..m : w[k] = v[k]
  <2>1. f.status \in {"new", "keep", "end"}  BY DEF FrameType
  <2> QED  BY <1>7, <1>8, <2>1
<1> HIDE DEF R, Z, w
<1>10. /\ client'[c] = R /\ \A d \in Clients \ {c} : client'[d] = client[d]
       /\ session'[s] = Z /\ \A t \in Sessions \ {s} : session'[t] = session[t]
       /\ wire'[s] = w /\ \A t \in Sessions \ {s} : wire'[t] = wire[t]
  BY <1>4 DEF MuxInv, MuxType
<1>11. Drops(c, s, 1, n, ws)
  <2>1. \A t \in Sessions \ {s} :
          /\ wire'[t] = wire[t]
          /\ session'[t].client = session[t].client
          /\ session'[t].firstFrameSent = session[t].firstFrameSent
          /\ \/ session'[t].phase = session[t].phase
             \/ session[t].phase \in Early /\ session'[t].phase \in Early
    BY <1>10
  <2>2. /\ DOMAIN client'[c].writes = 1..(n - 1)
        /\ \A j \in 1..(n - 1) : client'[c].writes[j] = ws[IF j < 1 THEN j ELSE j + 1]
    <3> DEFINE us == Tail(ws)
    <3>1. client'[c].writes = us  BY <1>5, <1>10
    <3>2. /\ DOMAIN us = 1..(n - 1)
          /\ \A j \in 1..(n - 1) : us[j] = ws[IF j < 1 THEN j ELSE j + 1]
      BY <1>2
    <3> HIDE DEF us
    <3> QED  BY <3>1, <3>2
  <2>3. /\ ws = client[c].writes /\ n = Len(ws) /\ ws[1].session = s
        /\ client[c].sending /\ client'[c].closed = client[c].closed
    BY <1>1, <1>2, <1>5, <1>10
  <2> QED  BY ONLY <1>1, <1>10, <2>1, <2>2, <2>3 DEF Drops
<1>12. /\ session[s].phase \notin Early
       /\ session[s].phase = "writing" => f.status = "new"
       /\ session[s].phase = "over" \/ session[s].firstFrameSent
       /\ f.status = "new" => v = <<>>
       /\ f.status = "end" => session[s].phase = "over"
       /\ f.status = "keep" => v # <<>>
       /\ \A k \in DOMAIN v : v[k] # "end"
  <2>1. /\ session[s].phase \notin Early
        /\ session[s].phase = "writing" => f.status = "new"
        /\ session[s].phase = "over" \/ session[s].firstFrameSent
        /\ f.status = "new" => v = <<>>
        /\ f.status = "end" => session[s].phase = "over"
        /\ \A k \in DOMAIN v : v[k] # "end"
    BY <1>2, <1>7 DEF QueuedInv
  <2>2. f.status = "keep" =>
          v # <<>> \/ \E j \in 1..(1 - 1) : client[c].writes[j] = Frame(s, "new")
    BY <1>1, <1>2, <1>7 DEF QueuedInv
  <2>3. 1..(1 - 1) = {}  OBVIOUS
  <2> QED  BY <2>1, <2>2, <2>3, SMTT(30)
<1>13. ASSUME NEW j \in 1..(n - 1), client'[c].writes[j].session = s PROVE QueuedInv(c, j)'
  <2>1. /\ client'[c].writes[j] = ws[j + 1] /\ j + 1 \in DOMAIN ws /\ 1 < j + 1
    <3>1. (IF j < 1 THEN j ELSE j + 1) = j + 1 /\ j + 1 \in 1..n /\ 1 < j + 1  OBVIOUS
    <3> DEFINE us == Tail(ws)
    <3>2. client'[c].writes = us  BY <1>5, <1>10
    <3>3. us[j] = ws[IF j < 1 THEN j ELSE j + 1]  BY <1>2
    <3> HIDE DEF us
    <3>4. DOMAIN ws = 1..n  BY <1>2
    <3> QED  BY ONLY <3>1, <3>2, <3>3, <3>4
  <2>2. PICK g \in FrameType : g = ws[j + 1]  BY <2>1
  <2>3. PICK k \in DOMAIN ws : k = j + 1  BY <2>1
  <2>4. QueuedInv(c, k) /\ g = client[c].writes[k] /\ g.session = s
    BY <1>2, <1>13, <2>1, <2>2, <2>3 DEF FrameInv
  <2>5. session[s].phase # "writing" /\ g.status # "new" /\ f.status # "end"
    <3>1. 1 \in DOMAIN client[c].writes /\ k \in DOMAIN client[c].writes /\ 1 < k
      BY <1>2, <2>1, <2>3
    <3>2. client[c].writes[k].session = client[c].writes[1].session  BY <1>2, <2>4
    <3>3. client[c].writes[1] = f  BY <1>2
    <3> QED  BY <2>4, <3>1, <3>2, <3>3, LaterFrames
  <2>6. session'[s].phase = session[s].phase /\ session'[s].client = c
        /\ session'[s].firstFrameSent = session[s].firstFrameSent
    BY <1>6, <1>10, <2>5
  <2>7. g.status = "end" => session[s].phase = "over"  BY <2>4 DEF QueuedInv
  <2>8. client'[c].writes[j] = g  BY <2>1, <2>2
  <2>9. wire'[s] # <<>> /\ \A l \in DOMAIN wire'[s] : wire'[s][l] # "end"
    <3>1. \A l \in 1..(m + 1) : l \in 1..m \/ l = m + 1  OBVIOUS
    <3> QED  BY <1>9, <1>10, <1>12, <2>5, <3>1
  <2> QED  BY ONLY <1>12, <2>4, <2>5, <2>6, <2>7, <2>8, <2>9 DEF QueuedInv
<1>14. WireInv(s)'
  <2>1. WireInv(s)  BY DEF FrameInv
  <2>2. \A k \in DOMAIN w : /\ w[k] = "new" => k = 1
                            /\ w[k] = "keep" => k > 1
                            /\ w[k] = "end" => k = Len(w) /\ session[s].phase = "over"
    <3> TAKE k \in DOMAIN w
    <3>1. CASE k \in 1..m
      <4>1. /\ v[k] = "new" => k = 1
            /\ v[k] = "keep" => k > 1
        BY <1>7, <1>9, <2>1, <3>1 DEF WireInv
      <4> QED  BY <1>9, <1>12, <3>1, <4>1
    <3>2. CASE k = m + 1
      <4>1. v = <<>> => m = 0  BY <1>8
      <4>2. v # <<>> => m > 0  BY <1>8
      <4> QED  BY <1>9, <1>12, <3>2, <4>1, <4>2
    <3> QED  BY <1>9, <3>1, <3>2
  <2>3. /\ session'[s].phase = IF made THEN "created" ELSE session[s].phase
        /\ session'[s].firstFrameSent = session[s].firstFrameSent
        /\ wire'[s] = w /\ w # <<>>
    BY <1>6, <1>9, <1>10
  <2>4. /\ session'[s].phase \notin Early \cup {"writing"}
        /\ session'[s].phase = "over" \/ session'[s].firstFrameSent
        /\ session[s].phase = "over" => session'[s].phase = "over"
        /\ session[s].phase \in {"held", "over"} => session'[s].phase \in {"held", "over"}
        /\ session'[s].phase \in {"held", "over"} => session[s].phase \in {"held", "over"}
    BY <1>12, <2>3 DEF Early
  <2>5. /\ xudpEnabled \/ session[s].firstFrameSent
        /\ xudpEnabled /\ session[s].phase \notin {"held", "over"} => ~session[s].firstFrameSent
    BY <2>1 DEF WireInv
  <2>6. xudpEnabled' /\ session'[s].phase \notin {"held", "over"} => ~session'[s].firstFrameSent
    BY <1>1, <2>3, <2>4, <2>5
  <2> QED  BY ONLY <1>1, <2>2, <2>3, <2>4, <2>5, <2>6 DEF WireInv
<1>15. \A j \in 1..(n - 1) : client'[c].writes[j].session = s => QueuedInv(c, j)'  BY <1>13
<1>16. 1 \in 1..n /\ session[s].client = c  BY <1>2
<1> QED  BY <1>11, <1>14, <1>15, <1>16, DropStep

\* No frame yet.
LEMMA InitFrames ==
  ASSUME Init
  PROVE  FrameInv
<1>1. /\ client = [c \in Clients |-> NewClient] /\ session = [s \in Sessions |-> NewSession]
      /\ wire = [s \in Sessions |-> <<>>] /\ xudpEnabled \in BOOLEAN
  BY XudpAssumption DEF Init
<1>2. \A c \in Clients : client[c].writes = <<>>  BY <1>1 DEF NewClient
<1>3. \A s \in Sessions : /\ session[s].phase = "none" /\ session[s].firstFrameSent = ~xudpEnabled
                          /\ wire[s] = <<>>
  BY <1>1 DEF NewSession
<1>4. ASSUME NEW s \in Sessions PROVE WireInv(s)
  <2>1. DOMAIN wire[s] = {}  BY <1>3
  <2> QED  BY <1>1, <1>3, <2>1 DEF WireInv, Early
<1>5. \A c \in Clients : DOMAIN client[c].writes = {}  BY <1>2
<1> QED  BY <1>4, <1>5 DEF FrameInv

\* Stuttering.
LEMMA StutterFrames ==
  ASSUME FrameInv, UNCHANGED vars
  PROVE  FrameInv'
<1>1. /\ xudpEnabled' = xudpEnabled /\ client' = client /\ session' = session
      /\ wire' = wire
  BY DEF vars
<1> QED  BY <1>1 DEF FrameInv, QueuedInv, PairInv, WireInv

\* FrameInv is inductive, given MuxInv.
LEMMA FrameInvInductive == MuxInv /\ MuxInv' /\ FrameInv /\ [Next]_vars => FrameInv'
<1> SUFFICES ASSUME MuxInv, MuxInv', FrameInv, [Next]_vars PROVE FrameInv'
  OBVIOUS
<1>1. CASE dispatch  BY <1>1, dispatchFrames
<1>2. CASE TearDown  BY <1>2, TearDownFrames
<1>3. ASSUME NEW s \in Sessions,
             \/ DialSucceeds(s) \/ DialFails(s) \/ WaiterResumes(s) \/ WaiterThrows(s)
             \/ LockThrows(s) \/ SendDatagram(s) \/ ReceiveEnd(s) \/ FlowTakesSession(s)
             \/ CloseFlow(s)
      PROVE  FrameInv'
  BY <1>3, DialSucceedsFrames, DialFailsFrames, WaiterResumesFrames, WaiterThrowsFrames,
     LockThrowsFrames, SendDatagramFrames, ReceiveEndFrames, FlowTakesSessionFrames,
     CloseFlowFrames
<1>4. ASSUME NEW c \in Clients, WriteDone(c) \/ WriteFails(c) \/ ClientCloses(c)
      PROVE  FrameInv'
  BY <1>4, WriteDoneFrames, WriteFailsFrames, ClientClosesFrames
<1>5. CASE UNCHANGED vars  BY <1>5, StutterFrames
<1> QED  BY <1>1, <1>2, <1>3, <1>4, <1>5 DEF Next

(* On the wire the New frame of a session comes first and once, and        *)
(* nothing follows its End frame (writeFrame under writeMutex, sendAsync). *)
THEOREM FramesStayInOrder == Spec => []FramesInOrder
<1>1. FrameInv => FramesInOrder  BY DEF FrameInv, WireInv, FramesInOrder
<1>2. Init => FrameInv  BY InitFrames
<1> QED  BY <1>1, <1>2, MuxInvariant, FrameInvInductive, PTL DEF Spec
=============================================================================
