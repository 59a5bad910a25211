--------------------------- MODULE NioSocketProofs ---------------------------
(***************************************************************************)
(* For every number of addresses, messages and units in a message: a       *)
(* socket that reports a connection has an open channel, and the units of  *)
(* the stream reach the wire in order.                                     *)
(*                                                                         *)
(* Neither is inductive.  DialInv adds who may hold a channel: the waiting *)
(* coroutine (ContInv), the handler that took its continuation (ClaimInv)  *)
(* or the socket (ChannelInv), never two of them, and none of them one     *)
(* that the coroutine can still come to and close.  StreamInv adds that    *)
(* the wire, the queue and what the caller is about to add are one chain,  *)
(* as long as the channel works; InitialInv that the initial data is there *)
(* when the chain begins.                                                  *)
(***************************************************************************)
EXTENDS NioSocket, TLAPS, SequenceTheorems

----------------------------------------------------------------------------
(* The dial.                                                               *)

Live(c) == fd[c] \in {"connected", "broken"}
Settled == conn.at \in {"ok", "connected"}

(* The coroutine has gone past channel c, or still waits for it. *)
Behind(c) ==
    /\ c <= conn.addr
    /\ conn.at \in {"next", "suspending"} => c < conn.addr

(* Channels the coroutine has not come to are not open. *)
FreshInv == \A c \in Channels : IsOpen(c) => c <= conn.addr

JobInv == conn.at \in {"waiting", "ok", "connected"} => job

ContInv == connectCont # None => conn.at = "waiting" /\ claimed = None /\ channel = None

ClaimInv ==
    claimed # None =>
      channel = None /\ Live(claimed) /\ Behind(claimed) /\ (job => conn.at = "waiting")

ChannelInv ==
    /\ selectionKey = channel
    /\ channel # None => Live(channel) /\ Behind(channel) /\ (job => Settled)

ReadyInv == state = "READY" \/ Settled => cancel > 0 \/ channel # None

DialInv == FreshInv /\ JobInv /\ ContInv /\ ClaimInv /\ ChannelInv /\ ReadyInv

----------------------------------------------------------------------------
(* The stream.                                                             *)

IsEnd(a) == a % Size = 0
IsStart(b) == b % Size = 1 % Size
Follows(a, b) == b = a + 1 \/ (b > a /\ IsEnd(a) /\ IsStart(b))

Ordered(w) == \A i \in 1..Len(w) - 1 : Follows(w[i], w[i + 1])
Begins(w) == w # << >> /\ HasInitial => w[1] = 1

Whole(r) == 1 <= r.from /\ r.from <= r.to /\ IsEnd(r.to)
Queue(q) ==
    /\ \A i \in 1..Len(q) : Whole(q[i])
    /\ \A i \in 1..Len(q) - 1 : Follows(q[i].to, q[i + 1].from)

(* The queue goes on where the wire stops. *)
Joins(w, q) ==
    q # << >> => IF w = << >> THEN HasInitial => q[1].from = 1
                 ELSE Follows(w[Len(w)], q[1].from)

(* The last unit written or queued. *)
LastUnit(w, q) ==
    IF q # << >> THEN q[Len(q)].to ELSE IF w # << >> THEN w[Len(w)] ELSE 0

(* What the next call adds comes after it. *)
CallerAfter(l) ==
    /\ snd.at = "idle" => IsEnd(l) /\ l <= (snd.sent + 1) * Size
    /\ snd.at = "adding" => Follows(l, snd.from) /\ 1 <= snd.from /\ snd.from <= (snd.sent + 2) * Size
    /\ snd.at = "waiting" => IsEnd(l) /\ l <= (snd.sent + 2) * Size

Chain(w) ==
    /\ Queue(pendingSends)
    /\ Joins(w, pendingSends)
    /\ HasInitial /\ Settled => w # << >> \/ pendingSends # << >>
    /\ CallerAfter(LastUnit(w, pendingSends))

InitialInv ==
    /\ pendingInitialData => HasInitial
    /\ job /\ HasInitial /\ conn.at \in {"suspending", "waiting"} => pendingInitialData

StreamInv ==
    cancel = 0 =>
      /\ \A c \in Channels : "WRITE" \in interest[c] => c = channel
      /\ \A c \in Channels : c # channel => wire[c] = << >>
      /\ conn.at # "connected" => snd.at \in {"idle", "failed"} /\ snd.sent = 0
      /\ channel = None => pendingSends = << >>
      /\ channel # None =>
           /\ Ordered(wire[channel]) /\ Begins(wire[channel])
           /\ fd[channel] = "connected" => Chain(wire[channel])
----------------------------------------------------------------------------
(* The records.                                                            *)

Ats == {"next", "suspending", "waiting", "ok", "error", "connected", "failed"}
ConnGoes(a, n) == conn' \in ConnRecord /\ conn'.at = a /\ conn'.addr = n

(* An assignment to one field of the dialling coroutine keeps the other. *)
LEMMA ConnAt ==
  ASSUME conn \in ConnRecord, NEW a \in Ats, conn' = [conn EXCEPT !.at = a]
  PROVE  ConnGoes(a, conn.addr)
  BY DEF ConnRecord, ConnGoes, Ats

LEMMA ConnAddr ==
  ASSUME conn \in ConnRecord, NEW n \in 1..Addresses + 1, conn' = [conn EXCEPT !.addr = n]
  PROVE  ConnGoes(conn.at, n)
  BY DEF ConnRecord, ConnGoes

LEMMA ConnNext ==
  ASSUME NEW n \in 1..Addresses + 1, conn' = [at |-> "next", addr |-> n]
  PROVE  ConnGoes("next", n)
  BY DEF ConnRecord, ConnGoes

SndGoes(a, m) == snd' \in SndRecord /\ snd'.at = a /\ snd'.sent = m

(* The same of the sending one. *)
LEMMA SndAt ==
  ASSUME snd \in SndRecord, NEW a \in {"idle", "adding", "waiting", "failed"},
         snd' = [snd EXCEPT !.at = a]
  PROVE  SndGoes(a, snd.sent) /\ snd'.from = snd.from
  BY DEF SndRecord, SndGoes

LEMMA SndAdds ==
  ASSUME snd \in SndRecord, NEW n \in Nat, snd' = [snd EXCEPT !.at = "adding", !.from = n]
  PROVE  SndGoes("adding", snd.sent) /\ snd'.from = n
  BY DEF SndRecord, SndGoes

LEMMA SndSent ==
  ASSUME snd \in SndRecord, NEW n \in Nat, snd' = [snd EXCEPT !.sent = n]
  PROVE  SndGoes(snd.at, n)
  BY DEF SndRecord, SndGoes

LEMMA SndDone ==
  ASSUME snd \in SndRecord, NEW n \in Nat, snd' = [snd EXCEPT !.at = "idle", !.sent = n]
  PROVE  SndGoes("idle", n)
  BY DEF SndRecord, SndGoes

(* A run of n units that starts at a. *)
Units(a, n) == [i \in 1..n |-> a + i - 1]

LEMMA UnitsType ==
  ASSUME NEW a \in Nat, NEW n \in Nat
  PROVE  /\ Units(a, n) \in Seq(Nat) /\ Len(Units(a, n)) = n
         /\ \A i \in 1..n : Units(a, n)[i] = a + i - 1
<1>1. \A i \in 1..n : a + i - 1 \in Nat
  OBVIOUS
<1>2. Units(a, n) \in [1..n -> Nat]
  BY <1>1 DEF Units
<1>3. Units(a, n) \in Seq(Nat)
  BY <1>2
<1>4. DOMAIN Units(a, n) = 1..n
  BY DEF Units
<1>5. Len(Units(a, n)) = n
  BY <1>3, <1>4, LenProperties
<1> QED
  BY <1>3, <1>5 DEF Units

(* Posting keeps the operations well formed. *)
LEMMA PostType ==
  ASSUME NEW ops \in Seq(SelectorOp), NEW op \in {"register", "timeout", "READ", "WRITE"},
         NEW c \in 0..Addresses
  PROVE  Append(ops, << op, c >>) \in Seq(SelectorOp)
<1>1. << op, c >> \in SelectorOp
  BY DEF SelectorOp
<1> QED
  BY <1>1, AppendProperties

(* The assumption on the constants, one by one. *)
LEMMA Sizes ==
  /\ Addresses \in Nat /\ Addresses >= 1 /\ Size \in Nat /\ Size >= 1
  /\ MaxSends \in Nat /\ MaxReceived \in Nat /\ MaxPending \in Nat /\ HasInitial \in BOOLEAN
<1>1. /\ Addresses \in Nat /\ Addresses # 0 /\ Size \in Nat /\ Size # 0
      /\ MaxSends \in Nat /\ MaxReceived \in Nat /\ MaxPending \in Nat /\ HasInitial \in BOOLEAN
  BY NioAssumption, Zenon
<1> QED
  BY <1>1

LEMMA InitType == Init => TypeOK
<1> SUFFICES ASSUME Init PROVE TypeOK
  OBVIOUS
<1>1. << >> \in Seq(PendingSend) /\ << >> \in Seq(SelectorOp) /\ << >> \in Seq(Nat)
  OBVIOUS
<1>2. conn \in ConnRecord /\ snd \in SndRecord /\ conn.at = "next" /\ snd.at = "idle" /\ snd.sent = 0
  BY Sizes DEF Init, ConnRecord, SndRecord
<1>3. wire \in [Channels -> Seq(Nat)]
  BY <1>1 DEF Init
<1>4. interest \in [Channels -> SUBSET {"CONNECT", "READ", "WRITE"}]
  BY Zenon DEF Init
<1>5. fd \in [Channels -> {"none", "connecting", "refused", "connected", "broken", "closed"}]
  BY DEF Init
<1>6. 0 \in 0..Addresses /\ 0 \in 0..4 /\ 0 <= MaxSends /\ 0 + 0 <= MaxReceived
  BY Sizes
<1> QED
  BY <1>1, <1>2, <1>3, <1>4, <1>5, <1>6 DEF Init, TypeOK, None

LEMMA RestType ==
  ASSUME NEW a \in Nat, NEW b \in Nat, NEW w \in BOOLEAN
  PROVE  /\ Rest(a, b, w) \in PendingSend
         /\ Rest(a, b, w).from = a /\ Rest(a, b, w).to = b /\ Rest(a, b, w).waits = w
  BY DEF Rest, PendingSend

----------------------------------------------------------------------------
(* What each action does to the dialling coroutine. *)

LEMMA ConnSteps ==
  ASSUME TypeOK
  PROVE  /\ connectToAddress =>
              \/ ConnGoes("next", conn.addr + 1)
              \/ ConnGoes("suspending", conn.addr)
         /\ ConnectFails => ConnGoes("failed", conn.addr)
         /\ Suspend => IF job THEN ConnGoes("waiting", conn.addr)
                       ELSE ConnGoes("next", conn.addr + 1)
         /\ Resume => IF conn.at = "ok" THEN ConnGoes("connected", conn.addr)
                      ELSE ConnGoes("next", conn.addr + 1)
         /\ CancelJob => IF conn.at \in {"waiting", "ok"} THEN ConnGoes("error", conn.addr)
                         ELSE conn' = conn
         /\ Answer("error") => ConnGoes("error", conn.addr)
         /\ Established =>
              IF conn.at = "waiting"
              THEN IF state' = "READY" THEN ConnGoes("ok", conn.addr) ELSE ConnGoes("error", conn.addr)
              ELSE conn' = conn
<1>1. conn \in ConnRecord /\ conn.addr \in 1..Addresses + 1
  BY DEF TypeOK, ConnRecord
<1>2. conn.at \notin {"next", "failed"} => conn.addr \in 1..Addresses
  BY DEF TypeOK, Channels
<1>3. conn.addr \in 1..Addresses => conn.addr + 1 \in 1..Addresses + 1
  BY Sizes
<1>4. conn.addr <= Addresses => conn.addr \in 1..Addresses
  BY <1>1, Sizes
<1>5. "next" \in Ats /\ "suspending" \in Ats /\ "waiting" \in Ats /\ "ok" \in Ats
      /\ "error" \in Ats /\ "connected" \in Ats /\ "failed" \in Ats
  BY DEF Ats
<1>6. ASSUME connectToAddress
      PROVE  ConnGoes("next", conn.addr + 1) \/ ConnGoes("suspending", conn.addr)
  <2>1. conn.addr + 1 \in 1..Addresses + 1 /\ conn.at = "next"
    BY <1>3, <1>4, <1>6 DEF connectToAddress
  <2>2. CASE conn' = [conn EXCEPT !.addr = conn.addr + 1]
    BY <1>1, <2>1, <2>2, ConnAddr
  <2>3. CASE conn' = [conn EXCEPT !.at = "suspending"]
    BY <1>1, <1>5, <2>3, ConnAt
  <2> QED
    BY <1>6, <2>2, <2>3 DEF connectToAddress
<1>7. ASSUME ConnectFails PROVE ConnGoes("failed", conn.addr)
  BY <1>1, <1>5, <1>7, ConnAt, Zenon DEF ConnectFails
<1>8. ASSUME Suspend PROVE IF job THEN ConnGoes("waiting", conn.addr)
                       ELSE ConnGoes("next", conn.addr + 1)
  <2>1. conn.addr + 1 \in 1..Addresses + 1
    BY <1>2, <1>3, <1>8 DEF Suspend
  <2>2. CASE job
    <3>1. conn' = [conn EXCEPT !.at = "waiting"]
      BY <1>8, <2>2 DEF Suspend
    <3> QED
      BY <1>1, <1>5, <2>2, <3>1, ConnAt
  <2>3. CASE ~ job
    <3>1. conn' = [at |-> "next", addr |-> conn.addr + 1]
      BY <1>8, <2>3 DEF Suspend
    <3> QED
      BY <2>1, <2>3, <3>1, ConnNext
  <2> QED
    BY <2>2, <2>3
<1>9. ASSUME Resume PROVE IF conn.at = "ok" THEN ConnGoes("connected", conn.addr)
                      ELSE ConnGoes("next", conn.addr + 1)
  <2>1. conn.addr + 1 \in 1..Addresses + 1
    BY <1>2, <1>3, <1>9 DEF Resume
  <2> QED
    BY <1>1, <1>5, <1>9, <2>1, ConnAt, ConnNext, Zenon DEF Resume
<1>10. ASSUME CancelJob PROVE IF conn.at \in {"waiting", "ok"} THEN ConnGoes("error", conn.addr)
                         ELSE conn' = conn
  BY <1>1, <1>5, <1>10, ConnAt, Zenon DEF CancelJob
<1>11. ASSUME Answer("error") PROVE ConnGoes("error", conn.addr)
  BY <1>1, <1>5, <1>11, ConnAt, Zenon DEF Answer
<1>12. ASSUME Established
       PROVE  IF conn.at = "waiting"
              THEN IF state' = "READY" THEN ConnGoes("ok", conn.addr) ELSE ConnGoes("error", conn.addr)
              ELSE conn' = conn
  <2>1. CASE state' = "READY" /\ conn.at = "waiting"
    <3>1. conn' = [conn EXCEPT !.at = "ok"]
      BY <1>12, <2>1, Zenon DEF Established
    <3> QED
      BY <1>1, <1>5, <2>1, <3>1, ConnAt
  <2>2. CASE state' # "READY" /\ conn.at = "waiting"
    <3>1. conn' = [conn EXCEPT !.at = "error"]
      BY <1>12, <2>2, Zenon DEF Established
    <3> QED
      BY <1>1, <1>5, <2>2, <3>1, ConnAt
  <2>3. CASE conn.at # "waiting"
    BY <1>12, <2>3, Zenon DEF Established
  <2> QED
    BY <2>1, <2>2, <2>3
<1> QED
  BY <1>6, <1>7, <1>8, <1>9, <1>10, <1>11, <1>12

Fds == {"none", "connecting", "refused", "connected", "broken", "closed"}
Interests == SUBSET {"CONNECT", "READ", "WRITE"}

LEMMA FdEdit ==
  ASSUME NEW c, NEW v \in Fds, fd \in [Channels -> Fds], fd' = [fd EXCEPT ![c] = v]
  PROVE  fd' \in [Channels -> Fds] /\ \A d \in Channels : fd'[d] = IF d = c THEN v ELSE fd[d]
  OBVIOUS

LEMMA InterestEdit ==
  ASSUME NEW c, NEW v \in Interests, interest \in [Channels -> Interests],
         interest' = [interest EXCEPT ![c] = v]
  PROVE  /\ interest' \in [Channels -> Interests]
         /\ \A d \in Channels : interest'[d] = IF d = c THEN v ELSE interest[d]
  OBVIOUS

LEMMA KernelType == TypeOK => fd \in [Channels -> Fds] /\ interest \in [Channels -> Interests]
  BY DEF TypeOK, Fds, Interests

(* Types. *)
LEMMA DialType ==
  ASSUME TypeOK,
         connectToAddress \/ ConnectFails \/ Suspend \/ Resume \/ CancelJob \/ TimeoutFires
  PROVE  TypeOK'
<1> USE Sizes
<1>0. conn \in ConnRecord /\ conn.addr \in 1..Addresses + 1
  BY DEF TypeOK, ConnRecord
<1>1. CASE connectToAddress
  <2>1. conn' \in ConnRecord /\ (conn'.at \notin {"next", "failed"} => conn'.addr \in Channels)
    <3>1. conn.addr \in Channels
      BY <1>0, <1>1 DEF connectToAddress, Channels
    <3>2. ConnGoes("next", conn.addr + 1) \/ ConnGoes("suspending", conn.addr)
      BY <1>1, ConnSteps
    <3> QED
      BY <3>1, <3>2 DEF ConnGoes
  <2>2. pendingInitialData' \in BOOLEAN
    BY <1>1, Zenon DEF connectToAddress, TypeOK
  <2>3. fd' \in [Channels -> {"none", "connecting", "refused", "connected", "broken", "closed"}]
    BY <1>1 DEF connectToAddress, TypeOK, Close
  <2> QED
    BY <1>1, <2>1, <2>2, <2>3 DEF connectToAddress, TypeOK, fields, sending, receiving
<1>2. CASE ConnectFails
  <2>1. conn' \in ConnRecord /\ (conn'.at \notin {"next", "failed"} => conn'.addr \in Channels)
    BY <1>2, ConnSteps DEF ConnGoes
  <2> QED
    BY <1>2, <2>1 DEF ConnectFails, TypeOK, sending, receiving, kernel
<1>3. CASE Suspend
  <2>1. conn.addr \in Channels
    BY <1>3 DEF Suspend, TypeOK
  <2>2. pendingOps' \in Seq(SelectorOp)
    BY <1>3, <2>1, PostType, SMTT(30) DEF Suspend, TypeOK, runOnSelector, Channels
  <2>3. conn' \in ConnRecord /\ (conn'.at \notin {"next", "failed"} => conn'.addr \in Channels)
    BY <1>3, <2>1, ConnSteps DEF ConnGoes
  <2>4. fd' \in [Channels -> {"none", "connecting", "refused", "connected", "broken", "closed"}]
    BY <1>3 DEF Suspend, TypeOK, Close
  <2>5. connectCont' \in 0..Addresses /\ connectTimeout' \in 0..Addresses /\ timers' \subseteq Channels
    <3>1. /\ timers' = timers \cup {conn.addr} /\ connectTimeout' = conn.addr
          /\ connectCont' = conn.addr \/ connectCont' = 0
      BY <1>3, Zenon DEF Suspend, None
    <3>2. conn.addr \in 0..Addresses /\ 0 \in 0..Addresses
      BY <2>1 DEF Channels
    <3> QED
      BY <2>1, <3>1, <3>2, Zenon DEF TypeOK
  <2> QED
    BY <1>3, <2>2, <2>3, <2>4, <2>5 DEF Suspend, TypeOK, fields, sending, receiving
<1>4. CASE Resume
  <2>1. conn' \in ConnRecord /\ (conn'.at \notin {"next", "failed"} => conn'.addr \in Channels)
    BY <1>4, ConnSteps DEF ConnGoes, Resume, TypeOK
  <2> QED
    BY <1>4, <2>1 DEF Resume, TypeOK, fields, sending, receiving, kernel
<1>5. CASE CancelJob
  <2>1. conn' \in ConnRecord /\ (conn'.at \notin {"next", "failed"} => conn'.addr \in Channels)
    BY <1>5, ConnSteps DEF ConnGoes, TypeOK
  <2>2. fd' \in [Channels -> {"none", "connecting", "refused", "connected", "broken", "closed"}]
    BY <1>5 DEF CancelJob, TypeOK, Close
  <2>3. connectCont' \in 0..Addresses /\ connectTimeout' \in 0..Addresses /\ timers' \subseteq Channels
    BY <1>5 DEF CancelJob, CancelTimeout, TypeOK, None
  <2> QED
    BY <1>5, <2>1, <2>2, <2>3 DEF CancelJob, TypeOK, fields, sending, receiving
<1>6. CASE TimeoutFires
  <2>1. PICK c \in timers : timers' = timers \ {c} /\ runOnSelector("timeout", c)
    BY <1>6 DEF TimeoutFires
  <2>2. pendingOps' \in Seq(SelectorOp)
    BY <2>1, PostType DEF TypeOK, runOnSelector, Channels
  <2> QED
    BY <1>6, <2>1, <2>2 DEF TimeoutFires, TypeOK, fields, sending, receiving, kernel
<1> QED
  BY <1>1, <1>2, <1>3, <1>4, <1>5, <1>6

LEMMA AnswerType ==
  ASSUME TypeOK, ContInv, Answer("error")
  PROVE  /\ conn' \in ConnRecord /\ (conn'.at \notin {"next", "failed"} => conn'.addr \in Channels)
         /\ connectCont' \in 0..Addresses
<1>1. connectCont # None /\ connectCont' = None /\ ConnGoes("error", conn.addr)
  BY ConnSteps DEF Answer
<1>2. conn.addr \in Channels
  BY <1>1 DEF ContInv, TypeOK
<1> QED
  BY <1>1, <1>2, Sizes DEF ConnGoes, None

LEMMA RunOpType ==
  ASSUME TypeOK, ContInv, RunOp
  PROVE  TypeOK'
<1>1. /\ pendingOps # << >> /\ pendingOps' = Tail(pendingOps)
      /\ UNCHANGED << fields, claimed, job, pendingInitialData, sending, receiving, cancel >>
  BY DEF RunOp
<1>2. pendingOps' \in Seq(SelectorOp)
  BY <1>1, HeadTailProperties DEF TypeOK
<1>3. PICK op \in SelectorOp :
        \/ op[1] = "timeout" /\ RunTimeout(op[2])
        \/ op[1] = "register" /\ RunRegister(op[2])
        \/ op[1] \notin {"timeout", "register"} /\ AddInterest(op[1])
  <2>1. Head(pendingOps) \in SelectorOp
    BY <1>1, HeadTailProperties DEF TypeOK
  <2> QED
    BY <2>1 DEF RunOp
<1>4. op[1] \in {"register", "timeout", "READ", "WRITE"} /\ op[2] \in 0..Addresses
  BY DEF SelectorOp
<1> DEFINE Goal ==
      /\ conn' \in ConnRecord /\ (conn'.at \notin {"next", "failed"} => conn'.addr \in Channels)
      /\ connectCont' \in 0..Addresses /\ connectTimeout' \in 0..Addresses
      /\ timers' \subseteq Channels
      /\ fd' \in [Channels -> {"none", "connecting", "refused", "connected", "broken", "closed"}]
      /\ interest' \in [Channels -> SUBSET {"CONNECT", "READ", "WRITE"}]
<1>5. ASSUME RunTimeout(op[2]) PROVE Goal
  <2>1. CASE connectCont # None
    <3>1. Answer("error") /\ connectTimeout' = 0 /\ fd' = [fd EXCEPT ![op[2]] = "closed"]
      BY <1>5, <2>1 DEF RunTimeout, Close, None
    <3>2. timers' = timers /\ interest' = interest
      BY <1>5 DEF RunTimeout
    <3>3. fd' \in [Channels -> Fds]
      BY <3>1, FdEdit, KernelType DEF Fds
    <3>4. 0 \in 0..Addresses
      BY Sizes
    <3> QED
      BY <3>1, <3>2, <3>3, <3>4, AnswerType DEF TypeOK, Fds
  <2>2. CASE connectCont = None
    BY <1>5, <2>2 DEF RunTimeout, TypeOK
  <2> QED
    BY <2>1, <2>2
<1>6. ASSUME RunRegister(op[2]) PROVE Goal
  <2>1. CASE ~ IsOpen(op[2]) /\ connectCont # None
    BY <1>6, <2>1, AnswerType, Sizes DEF RunRegister, TypeOK, CancelTimeout, None
  <2>2. CASE ~ IsOpen(op[2]) /\ connectCont = None
    BY <1>6, <2>2 DEF RunRegister, TypeOK
  <2>3. CASE IsOpen(op[2])
    <3>1. /\ interest' = [interest EXCEPT ![op[2]] = {"CONNECT"}]
          /\ UNCHANGED << connectCont, connectTimeout, conn, timers, fd >>
      BY <1>6, <2>3 DEF RunRegister
    <3>2. interest' \in [Channels -> Interests]
      BY <3>1, InterestEdit, KernelType DEF Interests
    <3> QED
      BY <3>1, <3>2 DEF TypeOK, Interests
  <2> QED
    BY <2>1, <2>2, <2>3
<1>7. ASSUME op[1] \notin {"timeout", "register"} /\ AddInterest(op[1]) PROVE Goal
  <2>1. op[1] \in {"CONNECT", "READ", "WRITE"}
    BY <1>4, <1>7
  <2>2. \/ interest' = interest
        \/ selectionKey # None /\ interest' = [interest EXCEPT ![selectionKey] = interest[selectionKey] \cup {op[1]}]
    BY <1>7 DEF AddInterest
  <2>3. ASSUME selectionKey # None PROVE interest[selectionKey] \cup {op[1]} \in Interests
    <3>1. selectionKey \in Channels
      BY <2>3, Sizes DEF TypeOK, None, Channels
    <3> QED
      BY <2>1, <3>1, KernelType, Zenon DEF Interests
  <2>4. interest' \in [Channels -> Interests]
    BY <2>2, <2>3, InterestEdit, KernelType
  <2> QED
    BY <1>7, <2>4 DEF AddInterest, TypeOK, Interests
<1>8. Goal
  BY <1>3, <1>5, <1>6, <1>7
<1> HIDE DEF Goal
<1> QED
  BY <1>1, <1>2, <1>8 DEF TypeOK, Goal, fields, sending, receiving

LEMMA WireEdit ==
  ASSUME NEW c, NEW v \in Seq(Nat), wire \in [Channels -> Seq(Nat)], wire' = [wire EXCEPT ![c] = v]
  PROVE  /\ wire' \in [Channels -> Seq(Nat)]
         /\ \A d \in Channels : wire'[d] = IF d = c THEN v ELSE wire[d]
  OBVIOUS

LEMMA FirstUnits == \A n \in Nat : [i \in 1..n |-> i] = Units(1, n)
  BY DEF Units

(* The numbering of the stream. *)
LEMMA FirstFacts ==
  ASSUME NEW m \in Nat
  PROVE  /\ First(m) \in Nat /\ First(m) >= 1 /\ First(m) = m * Size + 1
         /\ First(m + 1) = First(m) + Size /\ First(m + 1) - 1 = (m + 1) * Size
<1>1. m * Size \in Nat /\ (m + 1) * Size = m * Size + Size
  BY Sizes
<1> QED
  BY <1>1, Sizes DEF First

LEMMA onConnectableType ==
  ASSUME TypeOK, ContInv, onConnectable
  PROVE  TypeOK'
<1>1. PICK c \in Channels :
        /\ \/ /\ claimed' = c /\ connectCont' = None
              /\ UNCHANGED << conn, fd, pendingInitialData >>
           \/ /\ Answer("error") /\ Close(c) /\ pendingInitialData' = FALSE
              /\ UNCHANGED claimed
        /\ CancelTimeout
        /\ UNCHANGED << fields, job, sending, receiving, interest, pendingOps, cancel >>
  BY DEF onConnectable
<1>2. 0 \in 0..Addresses /\ c \in 0..Addresses
  BY Sizes DEF Channels
<1>3. connectTimeout' \in 0..Addresses /\ timers' \subseteq Channels
  BY <1>1, <1>2 DEF CancelTimeout, None, TypeOK
<1>4. CASE claimed' = c /\ connectCont' = None /\ UNCHANGED << conn, fd, pendingInitialData >>
  BY <1>1, <1>2, <1>3, <1>4 DEF TypeOK, None, fields, sending, receiving
<1>5. CASE Answer("error") /\ Close(c) /\ pendingInitialData' = FALSE /\ UNCHANGED claimed
  <2>1. fd' \in [Channels -> Fds]
    BY <1>5, FdEdit, KernelType DEF Close, Fds
  <2> QED
    BY <1>1, <1>3, <1>5, <2>1, AnswerType DEF TypeOK, Fds, fields, sending, receiving
<1> QED
  BY <1>1, <1>4, <1>5

LEMMA EstablishedSteps ==
  ASSUME TypeOK, Established
  PROVE  /\ claimed \in Channels /\ claimed' = None /\ pendingInitialData' = FALSE
         /\ UNCHANGED << connectCont, connectTimeout, timers, job, snd, receiving, pendingOps,
                         cancel >>
         /\ \/ /\ state' = "FAILED" /\ channel' = None /\ selectionKey' = None
               /\ Close(claimed) /\ UNCHANGED << wire, pendingSends, interest >>
            \/ /\ channel' = claimed /\ selectionKey' = claimed /\ state' = "READY"
               /\ UNCHANGED fd
               /\ \E n \in 0..Size, v \in Interests :
                    /\ pendingInitialData \/ n = 0
                    /\ wire' = [wire EXCEPT ![claimed] = Units(1, n)]
                    /\ pendingSends' = IF pendingInitialData /\ n < Size
                                       THEN Append(pendingSends, Rest(n + 1, Size, FALSE)) ELSE pendingSends
                    /\ interest' = [interest EXCEPT ![claimed] = v]
<1> DEFINE Accepted(n) ==
          /\ channel' = claimed /\ selectionKey' = claimed /\ state' = "READY"
          /\ wire' = [wire EXCEPT ![claimed] = [i \in 1..n |-> i]]
          /\ pendingSends' = IF pendingInitialData /\ n < Size
                             THEN Append(pendingSends, Rest(n + 1, Size, FALSE)) ELSE pendingSends
          /\ interest' = [interest EXCEPT ![claimed] = IF pendingSends' # pendingSends
                                                       THEN {"WRITE"} ELSE {}]
          /\ UNCHANGED fd
<1> DEFINE WriteFails ==
          /\ state' = "FAILED" /\ channel' = None /\ selectionKey' = None
          /\ Close(claimed) /\ UNCHANGED << wire, pendingSends, interest >>
<1>1. /\ claimed # None
      /\ \/ pendingInitialData /\ \E n \in 0..Size : Accepted(n)
         \/ WriteFails
         \/ Accepted(0)
      /\ claimed' = None /\ pendingInitialData' = FALSE
      /\ UNCHANGED << connectCont, connectTimeout, timers, job, snd, receiving, pendingOps,
                      cancel >>
  BY DEF Established
<1>2. claimed \in Channels
  BY <1>1, Sizes DEF TypeOK, None, Channels
<1>3. 0 \in 0..Size /\ 0..Size \subseteq Nat
  BY Sizes
<1>4. CASE WriteFails
  BY <1>1, <1>2, <1>4
<1>5. ASSUME NEW n \in 0..Size, pendingInitialData \/ n = 0, Accepted(n)
      PROVE  \E v \in Interests :
                    /\ wire' = [wire EXCEPT ![claimed] = Units(1, n)]
                    /\ pendingSends' = IF pendingInitialData /\ n < Size
                                       THEN Append(pendingSends, Rest(n + 1, Size, FALSE)) ELSE pendingSends
                    /\ interest' = [interest EXCEPT ![claimed] = v]
  <2>1. {"WRITE"} \in Interests /\ {} \in Interests
    BY DEF Interests
  <2>2. [i \in 1..n |-> i] = Units(1, n)
    BY <1>3, FirstUnits
  <2> QED
    BY <1>5, <2>1, <2>2, Zenon
<1>6. CASE \E n \in 0..Size : (pendingInitialData \/ n = 0) /\ Accepted(n)
  <2>1. PICK n \in 0..Size : (pendingInitialData \/ n = 0) /\ Accepted(n)
    BY <1>6
  <2>2. PICK v \in Interests :
                    /\ wire' = [wire EXCEPT ![claimed] = Units(1, n)]
                    /\ pendingSends' = IF pendingInitialData /\ n < Size
                                       THEN Append(pendingSends, Rest(n + 1, Size, FALSE)) ELSE pendingSends
                    /\ interest' = [interest EXCEPT ![claimed] = v]
    BY <1>5, <2>1
  <2>3. channel' = claimed /\ selectionKey' = claimed /\ state' = "READY" /\ UNCHANGED fd
    BY <2>1
  <2> HIDE DEF Accepted, WriteFails
  <2> QED
    BY <1>1, <1>2, <2>1, <2>2, <2>3, Zenon
<1> QED
  BY <1>1, <1>3, <1>4, <1>6

LEMMA EstablishedType ==
  ASSUME TypeOK, JobInv, Established
  PROVE  TypeOK'
<1>1. conn' \in ConnRecord /\ (conn'.at \notin {"next", "failed"} => conn'.addr \in Channels)
  <2>1. conn \in ConnRecord /\ (conn.at \notin {"next", "failed"} => conn.addr \in Channels)
    BY DEF TypeOK
  <2>2. IF conn.at = "waiting"
        THEN \/ ConnGoes("ok", conn.addr) \/ ConnGoes("error", conn.addr)
        ELSE conn' = conn
    BY ConnSteps
  <2> QED
    BY <2>1, <2>2 DEF ConnGoes
<1>2. /\ claimed \in Channels /\ claimed' = None /\ pendingInitialData' = FALSE
      /\ UNCHANGED << connectCont, connectTimeout, timers, job, snd, receiving, pendingOps,
                      cancel >>
  BY EstablishedSteps
<1>3. 0 \in 0..Addresses /\ claimed \in 0..Addresses
  BY <1>2, Sizes DEF Channels
<1>4. CASE /\ state' = "FAILED" /\ channel' = None /\ selectionKey' = None
           /\ Close(claimed) /\ UNCHANGED << wire, pendingSends, interest >>
  <2>1. fd' \in [Channels -> Fds]
    BY <1>4, FdEdit, KernelType DEF Close, Fds
  <2> QED
    BY <1>1, <1>2, <1>3, <1>4, <2>1 DEF TypeOK, Fds, None, receiving
<1>5. ASSUME NEW n \in 0..Size, NEW v \in Interests,
             channel' = claimed /\ selectionKey' = claimed /\ state' = "READY" /\ UNCHANGED fd,
             wire' = [wire EXCEPT ![claimed] = Units(1, n)],
             pendingSends' = IF pendingInitialData /\ n < Size
                             THEN Append(pendingSends, Rest(n + 1, Size, FALSE)) ELSE pendingSends,
             interest' = [interest EXCEPT ![claimed] = v]
      PROVE  TypeOK'
  <2>1. n \in Nat /\ n + 1 \in Nat /\ Size \in Nat /\ FALSE \in BOOLEAN
    BY Sizes
  <2>2. wire' \in [Channels -> Seq(Nat)]
    <3>1. Units(1, n) \in Seq(Nat)
      BY <2>1, UnitsType
    <3> QED
      BY <1>5, <3>1, WireEdit DEF TypeOK
  <2>3. pendingSends' \in Seq(PendingSend)
    BY <1>5, <2>1, RestType, AppendProperties DEF TypeOK
  <2>4. interest' \in [Channels -> Interests]
    BY <1>5, InterestEdit, KernelType
  <2> QED
    BY <1>1, <1>2, <1>3, <1>5, <2>2, <2>3, <2>4 DEF TypeOK, None, Interests, receiving
<1> QED
  BY <1>4, <1>5, EstablishedSteps

LEMMA KernelStepType ==
  ASSUME TypeOK, Handshake \/ Breaks \/ Arrives
  PROVE  TypeOK'
<1>1. CASE Handshake
  <2>1. fd' \in [Channels -> Fds]
    BY <1>1, FdEdit, KernelType DEF Handshake, Fds
  <2> QED
    BY <1>1, <2>1 DEF Handshake, TypeOK, Fds, fields, dialing, sending, receiving
<1>2. CASE Breaks
  <2>1. fd' \in [Channels -> Fds]
    BY <1>2, FdEdit, KernelType DEF Breaks, Fds
  <2> QED
    BY <1>2, <2>1 DEF Breaks, TypeOK, Fds, fields, dialing, sending, receiving
<1>3. CASE Arrives
  BY <1>3, Sizes DEF Arrives, TypeOK, fields, dialing, sending, kernel
<1> QED
  BY <1>1, <1>2, <1>3

----------------------------------------------------------------------------
(* What the sending actions do. *)

(* The direct write of the caller, or a refusal. *)
LEMMA sendSteps ==
  ASSUME TypeOK, send
  PROVE  /\ snd.at = "idle" /\ conn.at = "connected" /\ snd.sent < MaxSends
         /\ UNCHANGED << fields, dialing, receiving, kernel, pendingSends, pendingOps, cancel >>
         /\ \/ SndGoes("failed", snd.sent) /\ wire' = wire
            \/ /\ channel \in Channels /\ IsOpen(channel) /\ pendingSends # << >> /\ wire' = wire
               /\ SndGoes("adding", snd.sent) /\ snd'.from = First(snd.sent + 1)
            \/ /\ channel \in Channels /\ IsOpen(channel) /\ fd[channel] # "broken"
               /\ pendingSends = << >>
               /\ \E n \in 0..Size :
                    /\ wire' = [wire EXCEPT ![channel] = wire[channel] \o Units(First(snd.sent + 1), n)]
                    /\ \/ n = Size /\ SndGoes("idle", snd.sent + 1)
                       \/ /\ n < Size /\ SndGoes("adding", snd.sent)
                          /\ snd'.from = First(snd.sent + 1) + n
<1>0. snd \in SndRecord /\ snd.sent \in Nat /\ snd.sent + 1 \in Nat
  BY DEF TypeOK, SndRecord
<1>1. /\ snd.at = "idle" /\ conn.at = "connected" /\ snd.sent < MaxSends
      /\ UNCHANGED << fields, dialing, receiving, kernel, pendingSends, pendingOps, cancel >>
  BY DEF send
<1>2. First(snd.sent + 1) \in Nat
  BY <1>0, FirstFacts
<1> DEFINE Cannot == ~ Usable \/ queuedSendBytes + Size > MaxPending
                      \/ (pendingSends = << >> /\ fd[channel] = "broken")
<1>3. ASSUME ~ Cannot PROVE channel \in Channels /\ IsOpen(channel)
  <2>1. channel # None /\ IsOpen(channel)
    BY <1>3, Zenon DEF Usable
  <2> QED
    BY <2>1, Sizes DEF TypeOK, None, Channels
<1>4. CASE Cannot
  <2>1. snd' = [snd EXCEPT !.at = "failed"] /\ wire' = wire
    BY <1>4, Zenon DEF send
  <2> QED
    BY <1>0, <1>1, <2>1, SndAt
<1>5. CASE ~ Cannot /\ pendingSends # << >>
  <2>1. snd' = [snd EXCEPT !.at = "adding", !.from = First(snd.sent + 1)] /\ wire' = wire
    BY <1>5, Zenon DEF send
  <2>2. SndGoes("adding", snd.sent) /\ snd'.from = First(snd.sent + 1)
    BY <1>0, <1>2, <2>1, SndAdds
  <2> QED
    BY <1>1, <1>3, <1>5, <2>1, <2>2
<1>6. CASE ~ Cannot /\ pendingSends = << >>
  <2>1. \E n \in 0..Size : Direct(n)
    BY <1>6, Zenon DEF send
  <2>2. PICK n \in 0..Size : Direct(n)
    BY <2>1
  <2>3. wire' = [wire EXCEPT ![channel] = wire[channel] \o Units(First(snd.sent + 1), n)]
    BY <2>2 DEF Direct, Units
  <2>4. fd[channel] # "broken"
    BY <1>6, Zenon
  <2>5. CASE n = Size
    <3>1. snd' = [snd EXCEPT !.sent = snd.sent + 1]
      BY <2>2, <2>5 DEF Direct
    <3>2. SndGoes("idle", snd.sent + 1)
      BY <1>0, <1>1, <3>1, SndSent
    <3> HIDE DEF Cannot
    <3> QED
      BY <1>1, <1>3, <1>6, <2>3, <2>4, <2>5, <3>2, Zenon
  <2>6. CASE n # Size
    <3>1. snd' = [snd EXCEPT !.at = "adding", !.from = First(snd.sent + 1) + n]
      BY <2>2, <2>6 DEF Direct
    <3>2. n \in Nat /\ n < Size /\ First(snd.sent + 1) + n \in Nat
      BY <1>2, <2>6, Sizes
    <3>3. SndGoes("adding", snd.sent) /\ snd'.from = First(snd.sent + 1) + n
      BY <1>0, <3>1, <3>2, SndAdds
    <3> HIDE DEF Cannot
    <3> QED
      BY <1>1, <1>3, <1>6, <2>3, <2>4, <3>2, <3>3, Zenon
  <2> QED
    BY <2>5, <2>6
<1> QED
  BY <1>4, <1>5, <1>6

LEMMA SendWaitsSteps ==
  ASSUME TypeOK, SendWaits
  PROVE  /\ snd.at = "adding" /\ SndGoes("waiting", snd.sent)
         /\ pendingSends' = Append(pendingSends, Rest(snd.from, First(snd.sent + 2) - 1, TRUE))
         /\ pendingOps' \in Seq(SelectorOp)
         /\ UNCHANGED << fields, dialing, receiving, kernel, wire, cancel >>
<1>1. snd \in SndRecord
  BY DEF TypeOK
<1>2. SndGoes("waiting", snd.sent)
  BY <1>1, SndAt DEF SendWaits
<1>3. pendingOps' \in Seq(SelectorOp)
  BY PostType, Sizes, SMTT(30) DEF SendWaits, runOnSelector, TypeOK, None
<1> QED
  BY <1>2, <1>3 DEF SendWaits

LEMMA sendAsyncSteps ==
  ASSUME TypeOK, sendAsync
  PROVE  /\ snd.at = "idle" /\ conn.at = "connected" /\ snd.sent < MaxSends
         /\ SndGoes("idle", snd.sent + 1)
         /\ \/ pendingSends' = pendingSends
            \/ pendingSends' =
                 Append(pendingSends, Rest(First(snd.sent + 1), First(snd.sent + 2) - 1, FALSE))
         /\ pendingOps' \in Seq(SelectorOp)
         /\ UNCHANGED << fields, dialing, receiving, kernel, wire, cancel >>
<1>1. snd \in SndRecord /\ snd.sent \in Nat /\ snd.sent + 1 \in Nat
  BY DEF TypeOK, SndRecord
<1>2. snd.at = "idle" /\ snd' = [snd EXCEPT !.sent = snd.sent + 1]
  BY DEF sendAsync
<1>3. SndGoes("idle", snd.sent + 1)
  BY <1>1, <1>2, SndSent
<1>4. pendingOps' \in Seq(SelectorOp)
  <2>1. pendingOps' = pendingOps \/ pendingOps' = Append(pendingOps, << "WRITE", 0 >>)
    BY Zenon DEF sendAsync, runOnSelector, None
  <2>2. "WRITE" \in {"register", "timeout", "READ", "WRITE"} /\ 0 \in 0..Addresses
    BY Sizes
  <2> QED
    BY <2>1, <2>2, PostType DEF TypeOK
<1> QED
  BY <1>3, <1>4 DEF sendAsync

LEMMA SendsFailSteps ==
  ASSUME TypeOK, SendsFail
  PROVE  snd' = snd \/ SndGoes("failed", snd.sent)
<1>1. snd' = snd \/ snd' = [snd EXCEPT !.at = "failed"]
  BY Zenon DEF SendsFail
<1>2. snd \in SndRecord
  BY DEF TypeOK
<1> QED
  BY <1>1, <1>2, SndAt

(* What onWritable writes. *)
Wrote(c) ==
  \/ UNCHANGED sending
  \/ /\ fd[c] = "broken" /\ pendingSends' = << >> /\ wire' = wire
     /\ snd' = snd \/ SndGoes("failed", snd.sent)
  \/ /\ pendingSends # << >> /\ fd[c] = "connected"
     /\ \E n \in 1..Size, h \in PendingSend :
          /\ h = Head(pendingSends) /\ n <= h.to - h.from + 1
          /\ wire' = [wire EXCEPT ![c] = wire[c] \o Units(h.from, n)]
          /\ \/ /\ h.from + n > h.to /\ pendingSends' = Tail(pendingSends)
                /\ snd' = snd \/ (snd.at = "waiting" /\ SndGoes("idle", snd.sent + 1))
             \/ /\ h.from + n <= h.to /\ snd' = snd
                /\ pendingSends' = [pendingSends EXCEPT ![1] = Rest(h.from + n, h.to, h.waits)]

LEMMA onWritableSteps ==
  ASSUME TypeOK, onWritable
  PROVE  \E c \in Channels :
           /\ Selected(c, "WRITE") /\ Wrote(c)
           /\ interest' = interest \/ interest' = [interest EXCEPT ![c] = interest[c] \ {"WRITE"}]
           /\ UNCHANGED << fields, dialing, receiving, fd, pendingOps, cancel >>
<1>1. PICK c \in Channels :
        /\ Selected(c, "WRITE")
        /\ \/ UNCHANGED sending
           \/ pendingSends # << >> /\ fd[c] = "connected" /\ \E n \in 1..Size : WriteHead(c, n)
           \/ fd[c] = "broken" /\ SendsFail /\ pendingSends' = << >> /\ UNCHANGED wire
        /\ interest' = interest \/ interest' = [interest EXCEPT ![c] = interest[c] \ {"WRITE"}]
        /\ UNCHANGED << fields, dialing, receiving, fd, pendingOps, cancel >>
  BY Zenon DEF onWritable
<1>2. ASSUME pendingSends # << >>, fd[c] = "connected", NEW n \in 1..Size, WriteHead(c, n)
      PROVE  Wrote(c)
  <2>1. PICK h \in PendingSend : h = Head(pendingSends)
    BY <1>2, HeadTailProperties DEF TypeOK
  <2>2. /\ n <= h.to - h.from + 1
        /\ wire' = [wire EXCEPT ![c] = wire[c] \o Units(h.from, n)]
        /\ IF h.from + n > h.to
           THEN pendingSends' = Tail(pendingSends) /\ SendDone(h.waits)
           ELSE pendingSends' = [pendingSends EXCEPT ![1] = Rest(h.from + n, h.to, h.waits)] /\ snd' = snd
    BY <1>2, <2>1, Zenon DEF WriteHead, Units
  <2>3. h.from \in Nat /\ h.to \in Nat /\ n \in Nat /\ snd \in SndRecord /\ snd.sent \in Nat /\ snd.sent + 1 \in Nat
    BY Sizes DEF PendingSend, TypeOK, SndRecord
  <2>4. CASE h.from + n > h.to
    <3>1. snd' = snd \/ (snd.at = "waiting" /\ snd' = [snd EXCEPT !.at = "idle", !.sent = snd.sent + 1])
      BY <2>2, <2>4 DEF SendDone
    <3>2. snd' = snd \/ (snd.at = "waiting" /\ SndGoes("idle", snd.sent + 1))
      BY <2>3, <3>1, SndDone
    <3> QED
      BY <1>2, <2>1, <2>2, <2>4, <3>2, Zenon DEF Wrote
  <2>5. CASE ~ (h.from + n > h.to)
    <3>1. h.from + n <= h.to
      BY <2>3, <2>5
    <3> QED
      BY <1>2, <2>1, <2>2, <2>5, <3>1, Zenon DEF Wrote
  <2> QED
    BY <2>4, <2>5
<1>3. Wrote(c)
  <2>1. CASE UNCHANGED sending
    BY <2>1 DEF Wrote
  <2>2. CASE fd[c] = "broken" /\ SendsFail /\ pendingSends' = << >> /\ UNCHANGED wire
    BY <2>2, SendsFailSteps DEF Wrote
  <2> QED
    BY <1>1, <1>2, <2>1, <2>2
<1> QED
  BY <1>1, <1>3

LEMMA SendingType ==
  ASSUME TypeOK, send \/ SendWaits \/ sendAsync \/ CancelWaiters
  PROVE  TypeOK'
<1>0. /\ snd.sent \in Nat /\ snd.from \in Nat /\ snd.sent + 1 \in Nat /\ snd.sent + 2 = (snd.sent + 1) + 1
      /\ First(snd.sent + 1) \in Nat /\ First(snd.sent + 2) - 1 \in Nat
  <2>1. snd.sent \in Nat /\ snd.from \in Nat
    BY DEF TypeOK, SndRecord
  <2>2. snd.sent + 1 \in Nat /\ snd.sent + 2 \in Nat
    BY <2>1
  <2>3. First(snd.sent + 1) \in Nat /\ First(snd.sent + 2) \in Nat /\ First(snd.sent + 2) >= 1
    BY <2>2, FirstFacts
  <2> QED
    BY <2>1, <2>3
<1>1. CASE send
  <2>1. /\ UNCHANGED << fields, dialing, receiving, kernel, pendingSends, pendingOps, cancel >>
        /\ snd.sent < MaxSends
    BY <1>1, sendSteps
  <2>2. /\ snd' \in SndRecord /\ snd'.sent <= MaxSends
        /\ snd'.at \in {"adding", "waiting"} => snd'.sent < MaxSends
    <3>1. SndGoes("failed", snd.sent) \/ SndGoes("adding", snd.sent) \/ SndGoes("idle", snd.sent + 1)
      BY <1>1, sendSteps
    <3> QED
      BY <1>0, <2>1, <3>1, Sizes DEF SndGoes
  <2>3. wire' \in [Channels -> Seq(Nat)]
    <3>1. CASE wire' = wire
      BY <3>1 DEF TypeOK
    <3>2. ASSUME NEW n \in 0..Size, channel \in Channels,
                 wire' = [wire EXCEPT ![channel] = wire[channel] \o Units(First(snd.sent + 1), n)]
          PROVE  wire' \in [Channels -> Seq(Nat)]
      <4>1. Units(First(snd.sent + 1), n) \in Seq(Nat)
        BY <1>0, UnitsType, Sizes
      <4>2. wire[channel] \in Seq(Nat)
        BY <3>2 DEF TypeOK
      <4>3. wire[channel] \o Units(First(snd.sent + 1), n) \in Seq(Nat)
        BY <4>1, <4>2, ConcatProperties
      <4> QED
        BY <3>2, <4>3, WireEdit DEF TypeOK
    <3> QED
      BY <1>1, <3>1, <3>2, sendSteps
  <2> QED
    BY <2>1, <2>2, <2>3 DEF TypeOK, fields, dialing, receiving, kernel
<1>2. CASE SendWaits
  <2>1. /\ SndGoes("waiting", snd.sent) /\ snd.at = "adding"
        /\ pendingSends' = Append(pendingSends, Rest(snd.from, First(snd.sent + 2) - 1, TRUE))
        /\ pendingOps' \in Seq(SelectorOp)
        /\ UNCHANGED << fields, dialing, receiving, kernel, wire, cancel >>
    BY <1>2, SendWaitsSteps
  <2>2. pendingSends' \in Seq(PendingSend)
    BY <1>0, <2>1, RestType, AppendProperties DEF TypeOK
  <2> QED
    BY <2>1, <2>2 DEF SndGoes, TypeOK, fields, dialing, receiving, kernel
<1>3. CASE sendAsync
  <2>1. /\ SndGoes("idle", snd.sent + 1) /\ snd.sent < MaxSends
        /\ pendingOps' \in Seq(SelectorOp)
        /\ UNCHANGED << fields, dialing, receiving, kernel, wire, cancel >>
    BY <1>3, sendAsyncSteps
  <2>2. pendingSends' \in Seq(PendingSend)
    <3>1. Rest(First(snd.sent + 1), First(snd.sent + 2) - 1, FALSE) \in PendingSend
      BY <1>0, RestType
    <3> QED
      <4> DEFINE e == Rest(First(snd.sent + 1), First(snd.sent + 2) - 1, FALSE)
      <4>1. e \in PendingSend
        BY <3>1
      <4>2. pendingSends' = pendingSends \/ pendingSends' = Append(pendingSends, e)
        BY <1>3, sendAsyncSteps
      <4> HIDE DEF e
      <4> QED
        <5>1. pendingSends \in Seq(PendingSend)
          BY DEF TypeOK
        <5>2. Append(pendingSends, e) \in Seq(PendingSend)
          BY <4>1, <5>1, AppendProperties
        <5> QED
          BY <4>2, <5>1, <5>2
  <2> QED
    BY <1>0, <2>1, <2>2, Sizes, SMTT(30) DEF SndGoes, TypeOK, fields, dialing, receiving, kernel
<1>4. CASE CancelWaiters
  <2>1. snd' = snd \/ SndGoes("failed", snd.sent)
    BY <1>4, SendsFailSteps DEF CancelWaiters
  <2>2. pendingReceive' = FALSE /\ (rcv' = "failed" \/ rcv' = rcv) /\ pendingSends' = << >> /\ cancel' = 3
    BY <1>4, Zenon DEF CancelWaiters
  <2>3. UNCHANGED << fields, dialing, kernel, wire, inbox, got, pendingOps >>
    BY <1>4 DEF CancelWaiters
  <2>4. pendingSends' \in Seq(PendingSend)
    BY <2>2
  <2>5. rcv' \in {"idle", "setting", "waiting", "failed"}
    BY <2>2 DEF TypeOK
  <2>6. /\ snd' \in SndRecord /\ snd'.sent <= MaxSends
        /\ snd'.at \in {"adding", "waiting"} => snd'.sent < MaxSends
    BY <2>1 DEF SndGoes, TypeOK
  <2> QED
    <3>1. pendingReceive' \in BOOLEAN
      BY <2>2, Zenon
    <3>2. cancel' \in 0..4
      BY <2>2
    <3> QED
      BY <2>3, <2>4, <2>5, <2>6, <3>1, <3>2 DEF TypeOK, fields, dialing, kernel
<1> QED
  BY <1>1, <1>2, <1>3, <1>4

LEMMA onWritableType ==
  ASSUME TypeOK, onWritable
  PROVE  TypeOK'
<1>1. PICK c \in Channels :
           /\ Selected(c, "WRITE") /\ Wrote(c)
           /\ interest' = interest \/ interest' = [interest EXCEPT ![c] = interest[c] \ {"WRITE"}]
           /\ UNCHANGED << fields, dialing, receiving, fd, pendingOps, cancel >>
  BY onWritableSteps
<1>2. interest' \in [Channels -> Interests]
  <2>1. interest[c] \ {"WRITE"} \in Interests
    BY KernelType, Zenon DEF Interests
  <2> QED
    BY <1>1, <2>1, InterestEdit, KernelType
<1> DEFINE Goal == /\ wire' \in [Channels -> Seq(Nat)] /\ pendingSends' \in Seq(PendingSend)
                   /\ snd' \in SndRecord /\ snd'.sent <= MaxSends
                   /\ snd'.at \in {"adding", "waiting"} => snd'.sent < MaxSends
<1>3. ASSUME UNCHANGED sending PROVE Goal
  BY <1>3 DEF sending, TypeOK
<1>4. ASSUME pendingSends' = << >>, wire' = wire, snd' = snd \/ SndGoes("failed", snd.sent) PROVE Goal
  <2>1. pendingSends' \in Seq(PendingSend)
    BY <1>4
  <2> QED
    BY <1>4, <2>1 DEF TypeOK, SndGoes
<1>5. ASSUME pendingSends # << >>, NEW n \in 1..Size, NEW h \in PendingSend,
             h = Head(pendingSends),
             wire' = [wire EXCEPT ![c] = wire[c] \o Units(h.from, n)],
             \/ /\ h.from + n > h.to /\ pendingSends' = Tail(pendingSends)
                /\ snd' = snd \/ (snd.at = "waiting" /\ SndGoes("idle", snd.sent + 1))
             \/ /\ h.from + n <= h.to /\ snd' = snd
                /\ pendingSends' = [pendingSends EXCEPT ![1] = Rest(h.from + n, h.to, h.waits)]
      PROVE  Goal
  <2>1. h.from \in Nat /\ h.to \in Nat /\ h.waits \in BOOLEAN /\ n \in Nat /\ h.from + n \in Nat
    BY Sizes DEF PendingSend
  <2>2. wire' \in [Channels -> Seq(Nat)]
    <3>1. wire[c] \o Units(h.from, n) \in Seq(Nat)
      BY <2>1, UnitsType, ConcatProperties DEF TypeOK
    <3> QED
      BY <1>5, <3>1, WireEdit DEF TypeOK
  <2>3. pendingSends' \in Seq(PendingSend)
    <3>1. CASE pendingSends' = Tail(pendingSends)
      BY <1>5, <3>1, HeadTailProperties DEF TypeOK
    <3>2. CASE pendingSends' = [pendingSends EXCEPT ![1] = Rest(h.from + n, h.to, h.waits)]
      <4>1. Rest(h.from + n, h.to, h.waits) \in PendingSend
        BY <2>1, RestType
      <4>2. 1 \in 1..Len(pendingSends)
        BY <1>5, EmptySeq, LenProperties DEF TypeOK
      <4> QED
        BY <3>2, <4>1, <4>2, ExceptSeq DEF TypeOK
    <3> QED
      BY <1>5, <3>1, <3>2
  <2>4. /\ snd' \in SndRecord /\ snd'.sent <= MaxSends
        /\ snd'.at \in {"adding", "waiting"} => snd'.sent < MaxSends
    <3>1. snd.sent \in Nat
      BY DEF TypeOK, SndRecord
    <3> QED
      BY <1>5, <3>1, Sizes DEF TypeOK, SndGoes
  <2> QED
    BY <2>2, <2>3, <2>4
<1>6. Goal
  BY <1>1, <1>3, <1>4, <1>5 DEF Wrote
<1> HIDE DEF Goal
<1> QED
  BY <1>1, <1>2, <1>6 DEF Goal, TypeOK, Interests, fields, dialing, receiving

LEMMA ReceivingType ==
  ASSUME TypeOK, receive \/ ReceiveWaits \/ CancelReceive \/ onReadable
  PROVE  TypeOK'
<1>1. CASE receive
  <2>1. UNCHANGED << fields, dialing, sending, kernel, pendingReceive, pendingOps, cancel >>
    BY <1>1 DEF receive
  <2>2. /\ rcv' \in {"idle", "setting", "waiting", "failed"}
        /\ \/ UNCHANGED << inbox, got >>
           \/ inbox > 0 /\ inbox' = inbox - 1 /\ got' = got + 1
    BY <1>1 DEF receive, TypeOK
  <2>3. inbox' \in Nat /\ got' \in Nat /\ inbox' + got' <= MaxReceived
    BY <2>2 DEF TypeOK
  <2> QED
    BY <2>1, <2>2, <2>3 DEF TypeOK, fields, dialing, sending, kernel
<1>2. CASE ReceiveWaits
  <2>1. pendingOps' \in Seq(SelectorOp)
    BY <1>2, PostType, Sizes DEF ReceiveWaits, runOnSelector, TypeOK, None
  <2> QED
    BY <1>2, <2>1 DEF ReceiveWaits, TypeOK, fields, dialing, sending, kernel
<1>3. CASE CancelReceive
  BY <1>3 DEF CancelReceive, TypeOK, fields, dialing, sending, kernel
<1>4. CASE onReadable
  <2>1. PICK c \in Channels :
          /\ UNCHANGED << fields, dialing, sending, fd, pendingOps, cancel >>
          /\ interest' = interest \/ interest' = [interest EXCEPT ![c] = interest[c] \ {"READ"}]
          /\ \/ UNCHANGED receiving
             \/ /\ inbox > 0 /\ inbox' = inbox - 1 /\ got' = got + 1
                /\ pendingReceive' = FALSE /\ rcv' = "idle"
             \/ pendingReceive' = FALSE /\ rcv' = "failed" /\ UNCHANGED << inbox, got >>
    BY <1>4, Zenon DEF onReadable
  <2>2. interest' \in [Channels -> Interests]
    <3>1. interest[c] \ {"READ"} \in Interests
      BY KernelType, Zenon DEF Interests
    <3> QED
      BY <2>1, <3>1, InterestEdit, KernelType
  <2>3. inbox' \in Nat /\ got' \in Nat /\ inbox' + got' <= MaxReceived
    <3>1. \/ inbox' = inbox /\ got' = got
          \/ inbox > 0 /\ inbox' = inbox - 1 /\ got' = got + 1
      BY <2>1, Zenon DEF receiving
    <3>2. inbox \in Nat /\ got \in Nat /\ inbox + got <= MaxReceived
      BY DEF TypeOK
    <3> QED
      BY <3>1, <3>2, Sizes
  <2>4. pendingReceive' \in BOOLEAN /\ rcv' \in {"idle", "setting", "waiting", "failed"}
    BY <2>1, Zenon DEF TypeOK, receiving
  <2> QED
    BY <2>1, <2>2, <2>3, <2>4 DEF TypeOK, Interests, fields, dialing, sending
<1> QED
  BY <1>1, <1>2, <1>3, <1>4

LEMMA CancelType ==
  ASSUME TypeOK, ContInv, CancelDial \/ CancelTimer \/ CancelChannel
  PROVE  TypeOK'
<1>0. 0 \in 0..Addresses
  BY Sizes
<1>1. CASE CancelDial
  <2>1. /\ UNCHANGED << channel, selectionKey, connectTimeout, timers, claimed, job,
                        pendingInitialData, sending, receiving, kernel, pendingOps >>
        /\ cancel' = 1 /\ state' = "CANCELLED"
    BY <1>1 DEF CancelDial
  <2>3. /\ conn' \in ConnRecord /\ (conn'.at \notin {"next", "failed"} => conn'.addr \in Channels)
        /\ connectCont' \in 0..Addresses
    <3>1. Answer("error") \/ (connectCont' = connectCont /\ conn' = conn)
      BY <1>1, Zenon DEF CancelDial
    <3> QED
      BY <3>1, AnswerType DEF TypeOK
  <2>4. state' \in {"SETUP", "READY", "FAILED", "CANCELLED"} /\ cancel' \in 0..4
    BY <2>1
  <2> QED
    BY <2>1, <2>3, <2>4 DEF TypeOK, sending, receiving, kernel
<1>3. CASE CancelTimer
  <2>1. /\ UNCHANGED << fields, connectCont, claimed, conn, job, pendingInitialData, sending,
                        receiving, kernel, pendingOps >>
        /\ cancel' = 2 /\ CancelTimeout
    BY <1>3 DEF CancelTimer
  <2>2. connectTimeout' \in 0..Addresses /\ timers' \subseteq Channels
    BY <1>0, <2>1 DEF CancelTimeout, None, TypeOK
  <2>3. cancel' \in 0..4
    BY <2>1
  <2> QED
    BY <2>1, <2>2, <2>3 DEF TypeOK, fields, sending, receiving, kernel
<1>2. CASE CancelChannel
  <2>1. fd' \in [Channels -> Fds]
    BY <1>2, FdEdit, KernelType DEF CancelChannel, Close, Fds
  <2> QED
    BY <1>0, <1>2, <2>1 DEF CancelChannel, TypeOK, Fds, None, dialing, sending, receiving
<1> QED
  BY <1>1, <1>2, <1>3

LEMMA TypeStep == TypeOK /\ DialInv /\ [Next]_vars => TypeOK'
<1> SUFFICES ASSUME TypeOK, DialInv, [Next]_vars PROVE TypeOK'
  OBVIOUS
<1>1. ContInv /\ JobInv
  BY DEF DialInv
<1>2. CASE UNCHANGED vars
  BY <1>2 DEF TypeOK, vars, fields, dialing, sending, receiving, kernel
<1> QED
  BY <1>1, <1>2, DialType, RunOpType, onConnectableType, EstablishedType, KernelStepType,
     SendingType, onWritableType, ReceivingType, CancelType DEF Next

----------------------------------------------------------------------------
(* The dial. *)

LEMMA InitDial == Init => DialInv
  BY DEF Init, DialInv, FreshInv, JobInv, ContInv, ClaimInv, ChannelInv, ReadyInv, IsOpen, None,
         Settled, Channels

DialVars == << state, channel, selectionKey, connectCont, claimed, conn, job, fd, cancel >>

LEMMA DialKept == ASSUME DialInv, UNCHANGED DialVars PROVE DialInv'
  BY DEF DialVars, DialInv, FreshInv, JobInv, ContInv, ClaimInv, ChannelInv, ReadyInv, IsOpen,
         Settled, Behind, Live

(* A handler that takes the continuation tells the coroutine it has failed, *)
(* whatever it closes.                                                      *)
LEMMA AnswerDial ==
  ASSUME TypeOK, DialInv, Answer("error"), NEW c,
         fd' = fd \/ fd' = [fd EXCEPT ![c] = "closed"],
         UNCHANGED << channel, selectionKey, claimed, job >>,
         (state' = state /\ cancel' = cancel) \/ (state' = "CANCELLED" /\ cancel' = 1)
  PROVE  DialInv'
<1>1. connectCont # None /\ connectCont' = None /\ ConnGoes("error", conn.addr)
  BY ConnSteps DEF Answer
<1>2. conn.at = "waiting" /\ claimed = None /\ channel = None /\ selectionKey = None
  BY <1>1 DEF DialInv, ContInv, ChannelInv
<1>3. \A d \in Channels : fd'[d] = fd[d] \/ fd'[d] = "closed"
  BY FdEdit, KernelType DEF Fds
<1>4. \A d \in Channels : IsOpen(d)' => d <= conn'.addr
  BY <1>1, <1>3 DEF IsOpen, DialInv, FreshInv, ConnGoes
<1>5. state' = "READY" => cancel' > 0
  BY <1>2 DEF DialInv, ReadyInv
<1> QED
  BY <1>1, <1>2, <1>4, <1>5 DEF DialInv, FreshInv, JobInv, ContInv, ClaimInv, ChannelInv, ReadyInv,
     Settled, ConnGoes

LEMMA DialStep == TypeOK /\ DialInv /\ [Next]_vars => DialInv'
<1> SUFFICES ASSUME TypeOK, DialInv, [Next]_vars PROVE DialInv'
  OBVIOUS
<1> USE DEF DialInv
<1>0. /\ conn \in ConnRecord /\ conn.addr \in 1..Addresses + 1 /\ fd \in [Channels -> Fds]
      /\ channel \in 0..Addresses /\ claimed \in 0..Addresses
      /\ channel # 0 => channel \in Channels
      /\ claimed # 0 => claimed \in Channels
      /\ Addresses \in Nat
  BY KernelType, Sizes DEF TypeOK, ConnRecord, Channels
<1>1. CASE connectToAddress
  <2>1. /\ UNCHANGED << state, channel, selectionKey, connectCont, claimed, job, cancel >>
        /\ conn.at = "next" /\ conn.addr <= Addresses
    BY <1>1 DEF connectToAddress, fields
  <2>2. ConnGoes("next", conn.addr + 1) \/ ConnGoes("suspending", conn.addr)
    BY <1>1, ConnSteps
  <2>3. \A d \in Channels : d # conn.addr => fd'[d] = fd[d]
    BY <1>0, <1>1, FdEdit, ZenonT(30) DEF connectToAddress, Close, Fds
  <2>4. /\ channel # 0 => channel < conn.addr /\ Live(channel)'
        /\ claimed # 0 => claimed < conn.addr /\ Live(claimed)'
    BY <1>0, <2>1, <2>3 DEF ChannelInv, ClaimInv, Behind, Live, None
  <2>5. FreshInv'
    BY <1>0, <2>2, <2>3 DEF FreshInv, IsOpen, ConnGoes, Channels
  <2>6. JobInv' /\ ContInv'
    BY <2>1, <2>2 DEF JobInv, ContInv, ConnGoes
  <2>7. ClaimInv'
    BY <1>0, <2>1, <2>2, <2>4 DEF ClaimInv, Behind, ConnGoes, None
  <2>8. ChannelInv' /\ ReadyInv'
    BY <1>0, <2>1, <2>2, <2>4 DEF ChannelInv, ReadyInv, Behind, ConnGoes, None, Settled
  <2> QED
    BY <2>5, <2>6, <2>7, <2>8
<1>2. CASE ConnectFails
  <2>1. /\ UNCHANGED << channel, selectionKey, connectCont, claimed, job, cancel, fd >>
        /\ conn.at = "next" /\ state' = "FAILED"
    BY <1>2 DEF ConnectFails, kernel
  <2>2. ConnGoes("failed", conn.addr)
    BY <1>2, ConnSteps
  <2> QED
    BY <1>0, <2>1, <2>2 DEF FreshInv, JobInv, ContInv, ClaimInv, ChannelInv, ReadyInv, ConnGoes,
       IsOpen, Live, Behind, Settled, None
<1>3. CASE Suspend
  <2>1. /\ UNCHANGED << state, channel, selectionKey, claimed, job, cancel >>
        /\ conn.at = "suspending"
    BY <1>3 DEF Suspend, fields
  <2>2. CASE job
    <3>1. ConnGoes("waiting", conn.addr) /\ connectCont' = conn.addr /\ fd' = fd
      BY <1>3, <2>2, ConnSteps DEF Suspend
    <3>2. claimed = None /\ channel = None
      BY <2>1, <2>2 DEF ClaimInv, ChannelInv, Settled
    <3> QED
      BY <1>0, <2>1, <2>2, <3>1, <3>2 DEF FreshInv, JobInv, ContInv, ClaimInv, ChannelInv,
         ReadyInv, ConnGoes, IsOpen, Settled, None
  <2>3. CASE ~ job
    <3>1. ConnGoes("next", conn.addr + 1) /\ connectCont' = None /\ Close(conn.addr)
      BY <1>3, <2>3, ConnSteps DEF Suspend
    <3>2. \A d \in Channels : fd'[d] = IF d = conn.addr THEN "closed" ELSE fd[d]
      BY <1>0, <3>1, FdEdit DEF Close, Fds
    <3>3. /\ channel # 0 => channel < conn.addr /\ Live(channel)'
          /\ claimed # 0 => claimed < conn.addr /\ Live(claimed)'
      BY <1>0, <2>1, <3>2 DEF ChannelInv, ClaimInv, Behind, Live, None
    <3>4. FreshInv'
      BY <1>0, <3>1, <3>2 DEF FreshInv, IsOpen, ConnGoes, Channels
    <3> QED
      BY <1>0, <2>1, <2>3, <3>1, <3>3, <3>4 DEF JobInv, ContInv, ClaimInv, ChannelInv,
         ReadyInv, ConnGoes, Behind, Settled, None
  <2> QED
    BY <2>2, <2>3
<1>4. CASE Resume
  <2>1. /\ UNCHANGED << state, channel, selectionKey, connectCont, claimed, job, cancel, fd >>
        /\ conn.at \in {"ok", "error"}
    BY <1>4 DEF Resume, fields, kernel
  <2>2. IF conn.at = "ok" THEN ConnGoes("connected", conn.addr) ELSE ConnGoes("next", conn.addr + 1)
    BY <1>4, ConnSteps
  <2>3. connectCont = None
    BY <2>1 DEF ContInv
  <2>4. FreshInv'
    BY <1>0, <2>1, <2>2 DEF FreshInv, IsOpen, ConnGoes, Channels
  <2>5. JobInv' /\ ContInv' /\ ReadyInv'
    BY <2>1, <2>2, <2>3 DEF JobInv, ContInv, ReadyInv, ConnGoes, Settled
  <2>6. ClaimInv' /\ ChannelInv'
    BY <1>0, <2>1, <2>2 DEF ClaimInv, ChannelInv, JobInv, Behind, Live, ConnGoes, Settled, None
  <2> QED
    BY <2>4, <2>5, <2>6
<1>5. CASE CancelJob
  <2>1. UNCHANGED << state, channel, selectionKey, claimed, cancel >> /\ job' = FALSE /\ job
        /\ conn.at \notin {"connected", "failed"}
    BY <1>5 DEF CancelJob, fields
  <2>2. IF conn.at \in {"waiting", "ok"} THEN ConnGoes("error", conn.addr) ELSE conn' = conn
    BY <1>5, ConnSteps
  <2>3. conn'.at \notin {"waiting", "ok", "connected"} /\ conn'.addr = conn.addr
        /\ (conn'.at \in {"next", "suspending"} => conn' = conn)
    BY <2>1, <2>2 DEF ConnGoes
  <2>4. connectCont' = None
    BY <1>5, Zenon DEF CancelJob
  <2>5. CASE connectCont # None
    <3>1. fd' = [fd EXCEPT ![connectCont] = "closed"] /\ claimed = None /\ channel = None
      BY <1>5, <2>5 DEF CancelJob, Close, ContInv
    <3>2. \A d \in Channels : fd'[d] = fd[d] \/ fd'[d] = "closed"
      BY <1>0, <3>1, FdEdit DEF Fds
    <3>3. FreshInv'
      BY <2>3, <3>2 DEF FreshInv, IsOpen
    <3> QED
      BY <2>1, <2>3, <2>4, <3>1, <3>3 DEF JobInv, ContInv, ClaimInv, ChannelInv, ReadyInv, Settled
  <2>6. CASE connectCont = None
    <3>1. fd' = fd
      BY <1>5, <2>6 DEF CancelJob
    <3>2. FreshInv'
      BY <2>3, <3>1 DEF FreshInv, IsOpen
    <3>3. ClaimInv' /\ ChannelInv'
      BY <1>0, <2>1, <2>3, <3>1 DEF ClaimInv, ChannelInv, Behind, Live, Settled, None
    <3> QED
      BY <2>1, <2>3, <2>4, <3>2, <3>3 DEF JobInv, ContInv, ReadyInv, Settled
  <2> QED
    BY <2>5, <2>6
<1>6. CASE RunOp
  <2>1. UNCHANGED << state, channel, selectionKey, claimed, job, cancel >>
    BY <1>6 DEF RunOp, fields
  <2>2. PICK op :
        \/ RunTimeout(op[2])
        \/ RunRegister(op[2])
        \/ AddInterest(op[1])
    BY <1>6 DEF RunOp
  <2>3. \/ UNCHANGED << connectCont, conn, fd >>
        \/ Answer("error") /\ fd' = [fd EXCEPT ![op[2]] = "closed"]
        \/ Answer("error") /\ fd' = fd
    BY <2>2, Zenon DEF RunTimeout, RunRegister, AddInterest, Close
  <2> QED
    BY <2>1, <2>3, AnswerDial, DialKept DEF DialVars
<1>7. CASE onConnectable
  <2>1. PICK c \in Channels :
          /\ Selected(c, "CONNECT") /\ connectCont # None
          /\ \/ fd[c] \in {"connected", "broken"} /\ claimed' = c /\ connectCont' = None /\ UNCHANGED << conn, fd >>
             \/ Answer("error") /\ Close(c) /\ UNCHANGED claimed
          /\ UNCHANGED << state, channel, selectionKey, job, cancel >>
    BY <1>7, Zenon DEF onConnectable, fields
  <2>2. CASE Answer("error") /\ Close(c) /\ UNCHANGED claimed
    BY <2>1, <2>2, AnswerDial DEF Close
  <2>3. CASE fd[c] \in {"connected", "broken"} /\ claimed' = c /\ connectCont' = None /\ UNCHANGED << conn, fd >>
    <3>1. c <= conn.addr /\ c # None
      BY <2>1, <1>0 DEF FreshInv, Selected, Channels, None
    <3>2. conn.at = "waiting" /\ channel = None
      BY <2>1 DEF ContInv
    <3> QED
      BY <1>0, <2>1, <2>3, <3>1, <3>2 DEF FreshInv, JobInv, ContInv, ClaimInv, ChannelInv, ReadyInv,
         IsOpen, Live, Behind, Settled
  <2> QED
    BY <2>1, <2>2, <2>3
<1>8. CASE Established
  <2>1. claimed \in Channels /\ claimed' = None /\ UNCHANGED << connectCont, job, cancel >>
    BY <1>8, EstablishedSteps
  <2>2. claimed # None
    BY <2>1, <1>0 DEF None, Channels
  <2>3. channel = None /\ Live(claimed) /\ Behind(claimed) /\ (job => conn.at = "waiting")
        /\ connectCont = None
    BY <2>2 DEF ClaimInv, ContInv
  <2>4. CASE state' = "FAILED" /\ channel' = None /\ selectionKey' = None /\ Close(claimed)
    <3>1. /\ conn'.addr = conn.addr /\ conn'.at \notin {"waiting", "ok", "connected"}
          /\ (conn'.at \in {"next", "suspending"} => conn' = conn)
      BY <1>8, <2>3, <2>4, ConnSteps DEF ConnGoes, JobInv
    <3>2. \A d \in Channels : fd'[d] = fd[d] \/ fd'[d] = "closed"
      BY <1>0, <2>4, FdEdit DEF Fds, Close
    <3>3. FreshInv'
      BY <3>1, <3>2 DEF FreshInv, IsOpen
    <3> QED
      BY <2>1, <2>3, <2>4, <3>1, <3>3 DEF JobInv, ContInv, ClaimInv, ChannelInv, ReadyInv, Settled
  <2>5. CASE channel' = claimed /\ selectionKey' = claimed /\ state' = "READY" /\ UNCHANGED fd
    <3>1. IF conn.at = "waiting" THEN ConnGoes("ok", conn.addr) ELSE conn' = conn
      BY <1>8, <2>5, ConnSteps
    <3>2. FreshInv'
      BY <2>5, <3>1 DEF FreshInv, IsOpen, ConnGoes
    <3>3. JobInv'
      BY <2>1, <3>1 DEF JobInv, ConnGoes
    <3>4. ContInv' /\ ClaimInv' /\ ReadyInv'
      BY <2>1, <2>2, <2>3, <2>5 DEF ContInv, ClaimInv, ReadyInv
    <3>5. ChannelInv'
      BY <2>1, <2>3, <2>5, <3>1 DEF ChannelInv, Live, Behind, ConnGoes, Settled
    <3> QED
      BY <3>2, <3>3, <3>4, <3>5
  <2> QED
    BY <1>8, <2>4, <2>5, EstablishedSteps
<1>9. CASE Handshake \/ Breaks
  <2>1. UNCHANGED << state, channel, selectionKey, connectCont, claimed, conn, job, cancel >>
    BY <1>9 DEF Handshake, Breaks, fields, dialing
  <2>2. \A d \in Channels : fd'[d] = fd[d]
          \/ (fd[d] = "connecting" /\ fd'[d] \in {"connected", "refused"})
          \/ (fd[d] = "connected" /\ fd'[d] = "broken")
    BY <1>0, <1>9, FdEdit DEF Handshake, Breaks, Fds
  <2> QED
    BY <1>0, <2>1, <2>2 DEF FreshInv, JobInv, ContInv, ClaimInv, ChannelInv, ReadyInv,
       IsOpen, Live, Behind, Settled, None
<1>10. CASE CancelDial
  <2>1. /\ UNCHANGED << channel, selectionKey, claimed, job, fd >>
        /\ cancel' = 1 /\ state' = "CANCELLED"
    BY <1>10 DEF CancelDial, kernel
  <2>2. CASE connectCont # None
    <3>1. Answer("error")
      BY <1>10, <2>2 DEF CancelDial
    <3> QED
      BY <2>1, <3>1, AnswerDial
  <2>3. CASE connectCont = None
    <3>1. connectCont' = connectCont /\ conn' = conn
      BY <1>10, <2>3 DEF CancelDial
    <3> QED
      BY <2>1, <3>1 DEF FreshInv, JobInv, ContInv, ClaimInv, ChannelInv, ReadyInv,
         IsOpen, Live, Behind, Settled
  <2> QED
    BY <2>2, <2>3
<1>11. CASE CancelTimer \/ CancelWaiters
  <2>1. UNCHANGED << state, channel, selectionKey, connectCont, claimed, conn, job, fd >> /\ cancel' \in {2, 3}
    BY <1>11 DEF CancelTimer, CancelWaiters, fields, dialing, kernel
  <2> QED
    BY <2>1 DEF FreshInv, JobInv, ContInv, ClaimInv, ChannelInv, ReadyInv, IsOpen, Live, Behind, Settled
<1>12. CASE CancelChannel
  <2>1. /\ UNCHANGED << state, connectCont, claimed, conn, job >>
        /\ cancel' = 4 /\ channel' = None /\ selectionKey' = None
    BY <1>12 DEF CancelChannel, dialing
  <2>2. CASE channel = None
    <3>1. fd' = fd
      BY <1>12, <2>2 DEF CancelChannel
    <3> QED
      BY <2>1, <3>1 DEF FreshInv, JobInv, ContInv, ClaimInv, ChannelInv, ReadyInv, IsOpen, Live, Behind, Settled
  <2>3. CASE channel # None
    <3>1. claimed = None /\ connectCont = None /\ fd' = [fd EXCEPT ![channel] = "closed"]
      BY <1>12, <2>3 DEF CancelChannel, Close, ClaimInv, ContInv
    <3>2. \A d \in Channels : fd'[d] = fd[d] \/ fd'[d] = "closed"
      BY <1>0, <3>1, FdEdit DEF Fds
    <3>3. FreshInv'
      BY <2>1, <3>2 DEF FreshInv, IsOpen
    <3> QED
      BY <2>1, <3>1, <3>3 DEF JobInv, ContInv, ClaimInv, ChannelInv, ReadyInv, Settled
  <2> QED
    BY <2>2, <2>3
<1>13. CASE \/ send \/ SendWaits \/ sendAsync \/ receive \/ ReceiveWaits \/ CancelReceive
            \/ TimeoutFires \/ onWritable \/ onReadable \/ Arrives
  <2>1. UNCHANGED DialVars
    BY <1>13, Zenon DEF send, SendWaits, sendAsync, receive, ReceiveWaits, CancelReceive,
       TimeoutFires, onWritable, onReadable, Arrives, DialVars, fields, dialing, kernel
  <2> QED
    BY <2>1, DialKept
<1>14. CASE UNCHANGED vars
  <2>1. UNCHANGED DialVars
    BY <1>14 DEF DialVars, vars, fields, dialing, kernel
  <2> QED
    BY <2>1, DialKept
<1> QED
  BY <1>1, <1>2, <1>3, <1>4, <1>5, <1>6, <1>7, <1>8, <1>9, <1>10, <1>11, <1>12, <1>13, <1>14 DEF Next

LEMMA DialInvariant == Spec => [](TypeOK /\ DialInv)
<1>1. Init => TypeOK /\ DialInv
  BY InitType, InitDial
<1>2. TypeOK /\ DialInv /\ [Next]_vars => (TypeOK /\ DialInv)'
  BY TypeStep, DialStep
<1> QED
  BY <1>1, <1>2, PTL DEF Spec

(* Every variable keeps its sort. *)
THEOREM NioTypeOK == Spec => []TypeOK
  BY DialInvariant, PTL

(* The socket a caller is told is connected is: for every number of        *)
(* addresses and whatever late timeouts, cancellations and handlers do.    *)
THEOREM ReadyStaysOpen == Spec => []ReadyIsOpen
<1>1. TypeOK /\ DialInv => ReadyIsOpen
  BY DEF DialInv, ReadyInv, ChannelInv, ReadyIsOpen, Settled, Live, IsOpen
<1> QED
  BY <1>1, DialInvariant, PTL

----------------------------------------------------------------------------
(* Numbers, the wire and the queue. *)

LEMMA Remainder ==
  ASSUME NEW d \in Nat, d >= 1, NEW q \in Nat, NEW r \in Nat, r < d
  PROVE  (q * d + r) % d = r
<1> DEFINE x == q * d + r
<1> DEFINE s == x % d
<1> DEFINE p == x \div d
<1>1. x \in Nat
  OBVIOUS
<1>2. s \in 0..d - 1 /\ p \in Int /\ x = d * p + s
  BY <1>1
<1>3. q * d + r = p * d + s
  BY <1>2
<1> HIDE DEF x, s, p
<1>4. ASSUME p = q PROVE s = r
  BY <1>2, <1>3, <1>4
<1>5. ASSUME p > q PROVE s = r
  <2>1. PICK k \in Nat : k >= 1 /\ p = q + k
    <3>1. p - q \in Nat /\ p - q >= 1 /\ p = q + (p - q)
      BY <1>2, <1>5
    <3> QED
      BY <3>1
  <2>2. p * d = q * d + k * d
    BY <2>1
  <2>3. k * d >= d
    BY <2>1
  <2> QED
    BY <1>2, <1>3, <2>2, <2>3
<1>6. ASSUME p < q PROVE s = r
  <2>1. PICK k \in Nat : k >= 1 /\ q = p + k
    <3>1. q - p \in Nat /\ q - p >= 1 /\ q = p + (q - p)
      BY <1>2, <1>6
    <3> QED
      BY <3>1
  <2>2. q * d = p * d + k * d
    BY <1>2, <2>1
  <2>3. k * d >= d
    BY <2>1
  <2> QED
    BY <1>2, <1>3, <2>2, <2>3
<1>7. s = r
  BY <1>2, <1>4, <1>5, <1>6
<1> QED
  BY <1>7 DEF s, x

LEMMA Multiples ==
  ASSUME NEW m \in Nat
  PROVE  IsEnd(m * Size) /\ IsStart(m * Size + 1)
<1> USE Sizes
<1>1. (m * Size + 0) % Size = 0
  BY Remainder
<1>2. m * Size + 0 = m * Size
  OBVIOUS
<1>3. (m * Size + 1) % Size = 1 % Size
  <2>1. CASE Size = 1
    <3>1. ((m + 1) * Size + 0) % Size = 0 /\ (1 * Size + 0) % Size = 0
      BY Remainder
    <3>2. (m + 1) * Size + 0 = m * Size + 1 /\ 1 * Size + 0 = 1
      BY <2>1
    <3> QED
      BY <3>1, <3>2
  <2>2. CASE Size > 1
    <3>1. (m * Size + 1) % Size = 1 /\ (0 * Size + 1) % Size = 1
      BY <2>2, Remainder
    <3>2. 0 * Size + 1 = 1
      OBVIOUS
    <3> QED
      BY <3>1, <3>2
  <2> QED
    BY <2>1, <2>2
<1> QED
  BY <1>1, <1>2, <1>3 DEF IsEnd, IsStart

(* Writing a run of units that follows on keeps the wire in order. *)
LEMMA WireGrows ==
  ASSUME NEW w \in Seq(Nat), NEW a \in Nat, 1 <= a, NEW n \in Nat, n >= 1,
         Ordered(w), Begins(w),
         IF w = << >> THEN HasInitial => a = 1 ELSE Follows(w[Len(w)], a)
  PROVE  /\ w \o Units(a, n) \in Seq(Nat) /\ w \o Units(a, n) # << >>
         /\ Ordered(w \o Units(a, n)) /\ Begins(w \o Units(a, n))
         /\ (w \o Units(a, n))[Len(w \o Units(a, n))] = a + n - 1
<1> DEFINE u == Units(a, n)
<1>1. u \in Seq(Nat) /\ Len(u) = n /\ \A i \in 1..n : u[i] = a + i - 1
  BY UnitsType
<1> HIDE DEF u
<1> DEFINE v == w \o u
<1>2. /\ v \in Seq(Nat) /\ Len(v) = Len(w) + n
      /\ \A i \in 1..Len(w) + n : v[i] = IF i <= Len(w) THEN w[i] ELSE u[i - Len(w)]
  BY <1>1, ConcatProperties
<1>3. Len(w) \in Nat /\ (w = << >> <=> Len(w) = 0)
  BY EmptySeq, LenProperties
<1> HIDE DEF v
<1>4. \A i \in 1..Len(w) : v[i] = w[i]
  BY <1>2, <1>3
<1>5. \A i \in Len(w) + 1..Len(w) + n : v[i] = a + (i - Len(w)) - 1
  <2> SUFFICES ASSUME NEW i \in Len(w) + 1..Len(w) + n PROVE v[i] = a + (i - Len(w)) - 1
    OBVIOUS
  <2>1. i - Len(w) \in 1..n /\ i \in 1..Len(w) + n /\ ~(i <= Len(w))
    BY <1>3
  <2> QED
    BY <1>1, <1>2, <2>1
<1>6. Ordered(v)
  <2> SUFFICES ASSUME NEW i \in 1..Len(v) - 1 PROVE Follows(v[i], v[i + 1])
    BY DEF Ordered
  <2>1. CASE i < Len(w)
    <3>1. i \in 1..Len(w) - 1 /\ i \in 1..Len(w) /\ i + 1 \in 1..Len(w)
      BY <1>3, <2>1
    <3> QED
      BY <1>4, <3>1 DEF Ordered
  <2>2. CASE i = Len(w)
    <3>1. i \in 1..Len(w) /\ i + 1 \in Len(w) + 1..Len(w) + n /\ w # << >>
      BY <1>2, <1>3, <2>2
    <3>2. v[i] = w[Len(w)] /\ v[i + 1] = a
      BY <1>3, <1>4, <1>5, <2>2, <3>1
    <3> QED
      BY <3>1, <3>2
  <2>3. CASE i > Len(w)
    <3>1. i \in Len(w) + 1..Len(w) + n /\ i + 1 \in Len(w) + 1..Len(w) + n
      BY <1>2, <1>3, <2>3, SMTT(30)
    <3>2. v[i + 1] = v[i] + 1
      BY <1>3, <1>5, <3>1
    <3> QED
      BY <3>2 DEF Follows
  <2> QED
    BY <1>3, <2>1, <2>2, <2>3
<1>7. v[Len(v)] = a + n - 1
  <2>1. Len(v) \in Len(w) + 1..Len(w) + n
    BY <1>2, <1>3
  <2> QED
    BY <1>2, <1>3, <1>5, <2>1
<1>8. v # << >>
  BY <1>2, <1>3
<1>9. Begins(v)
  <2>1. CASE w = << >>
    <3>1. 1 \in Len(w) + 1..Len(w) + n /\ Len(w) = 0
      BY <1>3, <2>1
    <3>2. v[1] = a
      BY <1>5, <3>1
    <3> QED
      BY <2>1, <3>2 DEF Begins
  <2>2. CASE w # << >>
    <3>1. 1 \in 1..Len(w)
      BY <1>3, <2>2
    <3> QED
      BY <1>4, <2>2, <3>1 DEF Begins
  <2> QED
    BY <2>1, <2>2
<1> QED
  BY <1>2, <1>6, <1>7, <1>8, <1>9 DEF u, v

LEMMA NoUnits == ASSUME NEW w \in Seq(Nat), NEW a \in Nat PROVE w \o Units(a, 0) = w
<1>1. Units(a, 0) \in Seq(Nat) /\ Len(Units(a, 0)) = 0
  BY UnitsType
<1>2. Units(a, 0) = << >>
  BY <1>1, EmptySeq, LenProperties
<1> QED
  BY <1>2, ConcatEmptySeq

(* So does queueing a message that comes after all there is. *)
LEMMA QueueGrows ==
  ASSUME NEW w \in Seq(Nat), NEW q \in Seq(PendingSend), NEW r \in PendingSend,
         Queue(q), Joins(w, q), Whole(r),
         w # << >> \/ q # << >> \/ (HasInitial => r.from = 1),
         w # << >> \/ q # << >> => Follows(LastUnit(w, q), r.from)
  PROVE  /\ Append(q, r) \in Seq(PendingSend) /\ Append(q, r) # << >>
         /\ Queue(Append(q, r)) /\ Joins(w, Append(q, r)) /\ LastUnit(w, Append(q, r)) = r.to
<1> DEFINE p == Append(q, r)
<1>1. /\ p \in Seq(PendingSend) /\ Len(p) = Len(q) + 1 /\ p[Len(q) + 1] = r
      /\ \A i \in 1..Len(q) : p[i] = q[i]
  BY AppendProperties
<1>2. Len(q) \in Nat /\ (q = << >> <=> Len(q) = 0) /\ p # << >>
  BY <1>1, EmptySeq, LenProperties
<1> HIDE DEF p
<1>3. \A i \in 1..Len(p) : Whole(p[i])
  BY <1>1, <1>2 DEF Queue
<1>4. \A i \in 1..Len(p) - 1 : Follows(p[i].to, p[i + 1].from)
  <2> SUFFICES ASSUME NEW i \in 1..Len(p) - 1 PROVE Follows(p[i].to, p[i + 1].from)
    OBVIOUS
  <2>1. CASE i < Len(q)
    <3>1. i \in 1..Len(q) - 1 /\ i \in 1..Len(q) /\ i + 1 \in 1..Len(q)
      BY <1>2, <2>1
    <3> QED
      BY <1>1, <3>1 DEF Queue
  <2>2. CASE i = Len(q)
    <3>1. i \in 1..Len(q) /\ q # << >>
      BY <1>2, <2>2
    <3> QED
      BY <1>1, <2>2, <3>1 DEF LastUnit
  <2> QED
    BY <1>1, <1>2, <2>1, <2>2
<1>5. Joins(w, p)
  <2>1. CASE q = << >>
    <3>1. p[1] = r
      BY <1>1, <1>2, <2>1
    <3> QED
      BY <2>1, <3>1 DEF Joins, LastUnit
  <2>2. CASE q # << >>
    <3>1. p[1] = q[1]
      BY <1>1, <1>2, <2>2
    <3> QED
      BY <2>2, <3>1 DEF Joins
  <2> QED
    BY <2>1, <2>2
<1>6. LastUnit(w, p) = r.to
  BY <1>1, <1>2 DEF LastUnit
<1>7. Queue(p)
  BY <1>3, <1>4 DEF Queue
<1> QED
  BY <1>1, <1>2, <1>5, <1>6, <1>7 DEF p

(* And so does writing n units of the first message h of the queue: w and *)
(* q are the wire and the queue before it, v and p after it.              *)
HeadStep(w, q, h, n, v, p) ==
  /\ w \in Seq(Nat) /\ q \in Seq(PendingSend) /\ q # << >>
  /\ h \in PendingSend /\ h = Head(q) /\ n \in Nat /\ n >= 1 /\ n <= h.to - h.from + 1
  /\ Ordered(w) /\ Begins(w) /\ Queue(q) /\ Joins(w, q)
  /\ v = w \o Units(h.from, n)
  /\ \/ h.from + n > h.to /\ p = Tail(q)
     \/ h.from + n <= h.to /\ p = [q EXCEPT ![1] = Rest(h.from + n, h.to, h.waits)]

LEMMA HeadWritten ==
  ASSUME NEW w, NEW q, NEW h, NEW n, NEW v, NEW p, HeadStep(w, q, h, n, v, p)
  PROVE  /\ v \in Seq(Nat) /\ v # << >> /\ Ordered(v) /\ Begins(v)
         /\ Queue(p) /\ Joins(v, p) /\ LastUnit(v, p) = LastUnit(w, q)
<1> USE DEF HeadStep
<1>1. Len(q) \in Nat /\ Len(q) >= 1 /\ q[1] = h
  BY EmptySeq, HeadTailProperties
<1>2. h.from \in Nat /\ h.to \in Nat /\ h.waits \in BOOLEAN
  BY DEF PendingSend
<1>3. 1 \in 1..Len(q) /\ Whole(h)
  BY <1>1 DEF Queue
<1>4. IF w = << >> THEN HasInitial => h.from = 1 ELSE Follows(w[Len(w)], h.from)
  BY <1>1 DEF Joins
<1>5. /\ v \in Seq(Nat) /\ v # << >> /\ Ordered(v) /\ Begins(v)
      /\ v[Len(v)] = h.from + n - 1
  BY <1>2, <1>3, <1>4, WireGrows DEF Whole
<1>6. \A i \in 1..Len(q) : Whole(q[i])
  BY DEF Queue
<1>7. \A i \in 1..Len(q) - 1 : Follows(q[i].to, q[i + 1].from)
  BY DEF Queue
<1> DEFINE Goal == Queue(p) /\ Joins(v, p) /\ LastUnit(v, p) = LastUnit(w, q)
<1>8. ASSUME h.from + n > h.to, p = Tail(q) PROVE Goal
  <2>1. h.from + n - 1 = h.to
    <3>1. \A a, b \in Nat : n <= b - a + 1 /\ a + n > b => a + n - 1 = b
      OBVIOUS
    <3> QED
      BY <1>2, <1>8, <3>1
  <2>2. /\ p \in Seq(PendingSend) /\ Len(p) = Len(q) - 1
        /\ \A i \in 1..Len(p) : p[i] = q[i + 1]
    BY <1>8, HeadTailProperties
  <2>3. Len(p) \in Nat /\ (p = << >> <=> Len(p) = 0)
    BY <2>2, EmptySeq, LenProperties
  <2>4. Queue(p)
    <3>1. ASSUME NEW i \in 1..Len(p) PROVE Whole(p[i])
      <4>1. i + 1 \in 1..Len(q)
        BY <1>1, <2>2
      <4> QED
        BY <1>6, <2>2, <4>1
    <3>2. ASSUME NEW i \in 1..Len(p) - 1 PROVE Follows(p[i].to, p[i + 1].from)
      <4>1. i + 1 \in 1..Len(q) - 1 /\ i \in 1..Len(p) /\ i + 1 \in 1..Len(p)
        BY <1>1, <2>2
      <4>2. p[i] = q[i + 1] /\ p[i + 1] = q[(i + 1) + 1]
        BY <2>2, <4>1
      <4> QED
        BY <1>7, <4>1, <4>2
    <3> QED
      BY <3>1, <3>2 DEF Queue
  <2>5. CASE p = << >>
    <3>1. Len(q) = 1
      BY <1>1, <2>2, <2>3, <2>5
    <3> QED
      BY <1>1, <1>5, <2>1, <2>4, <2>5, <3>1 DEF Joins, LastUnit
  <2>6. CASE p # << >>
    <3>1. 1 \in 1..Len(p) /\ 1 \in 1..Len(q) - 1 /\ Len(p) \in 1..Len(p) /\ Len(p) + 1 = Len(q)
      BY <1>1, <2>2, <2>3, <2>6
    <3>2. p[1] = q[1 + 1] /\ p[Len(p)] = q[Len(q)]
      BY <2>2, <3>1
    <3>3. Follows(h.to, p[1].from)
      BY <1>1, <1>7, <3>1, <3>2
    <3> QED
      BY <1>5, <2>1, <2>4, <2>6, <3>2, <3>3 DEF Joins, LastUnit
  <2> QED
    BY <2>5, <2>6
<1>9. ASSUME h.from + n <= h.to, p = [q EXCEPT ![1] = Rest(h.from + n, h.to, h.waits)] PROVE Goal
  <2> DEFINE e == Rest(h.from + n, h.to, h.waits)
  <2>1. e \in PendingSend /\ e.from = h.from + n /\ e.to = h.to
    <3>1. h.from + n \in Nat
      BY <1>2
    <3> QED
      BY <1>2, <3>1, RestType, SMTT(30)
  <2>2. p = [q EXCEPT ![1] = e]
    BY <1>9
  <2> HIDE DEF e
  <2>3. /\ p \in Seq(PendingSend) /\ Len(p) = Len(q)
        /\ \A j \in 1..Len(q) : p[j] = IF j = 1 THEN e ELSE q[j]
    BY <1>3, <2>1, <2>2, ExceptSeq
  <2>4. p # << >> /\ p[1] = e
    BY <1>1, <1>3, <2>3, EmptySeq
  <2>5. Whole(e)
    BY <1>2, <1>3, <1>9, <2>1 DEF Whole
  <2>6. Queue(p)
    <3>1. \A i \in 1..Len(p) : Whole(p[i])
      BY <1>6, <2>3, <2>5
    <3>2. \A i \in 1..Len(q) : p[i].to = q[i].to
      BY <1>1, <2>1, <2>3
    <3>3. ASSUME NEW i \in 1..Len(p) - 1 PROVE Follows(p[i].to, p[i + 1].from)
      <4>1. i \in 1..Len(q) /\ i + 1 \in 1..Len(q) /\ i + 1 # 1 /\ i \in 1..Len(q) - 1
        BY <1>1, <2>3
      <4> QED
        BY <1>7, <2>3, <3>2, <4>1
    <3> QED
      BY <3>1, <3>3 DEF Queue
  <2>7. Follows(h.from + n - 1, e.from)
    BY <1>2, <2>1 DEF Follows
  <2>8. p[Len(p)].to = q[Len(q)].to
    BY <1>1, <2>1, <2>3
  <2> QED
    BY <1>5, <2>4, <2>6, <2>7, <2>8 DEF Joins, LastUnit
<1>10. Goal
  BY <1>8, <1>9
<1> QED
  BY <1>5, <1>10

----------------------------------------------------------------------------
(* The initial data. *)

LEMMA InitialStep == TypeOK /\ DialInv /\ InitialInv /\ [Next]_vars => InitialInv'
<1> SUFFICES ASSUME TypeOK, DialInv, InitialInv, [Next]_vars PROVE InitialInv'
  OBVIOUS
<1> USE DEF InitialInv
<1>1. CASE connectToAddress
  <2>1. CASE pendingInitialData' = (pendingInitialData \/ HasInitial)
    BY <2>1
  <2>2. CASE conn' = [conn EXCEPT !.addr = conn.addr + 1] /\ pendingInitialData' \in {pendingInitialData, FALSE}
    <3>1. conn.addr + 1 \in 1..Addresses + 1 /\ conn.at = "next" /\ conn \in ConnRecord
      BY <1>1, Sizes, SMTT(30) DEF connectToAddress, TypeOK, ConnRecord
    <3>2. conn'.at = "next"
      BY <2>2, <3>1, ConnAddr DEF ConnGoes
    <3>3. pendingInitialData' => pendingInitialData
      BY <2>2, Zenon
    <3> QED
      BY <3>2, <3>3
  <2> QED
    BY <1>1, <2>1, <2>2 DEF connectToAddress
<1>2. CASE ConnectFails
  BY <1>2, ConnSteps DEF ConnectFails, ConnGoes
<1>3. CASE Suspend
  BY <1>3, ConnSteps DEF Suspend, ConnGoes
<1>4. CASE Resume
  BY <1>4, ConnSteps DEF Resume, ConnGoes
<1>5. CASE CancelJob
  BY <1>5 DEF CancelJob
<1>6. CASE RunOp
  <2>1. job' = job /\ pendingInitialData' = pendingInitialData
    BY <1>6 DEF RunOp
  <2>2. Answer("error") \/ conn' = conn
    BY <1>6, Zenon DEF RunOp, RunTimeout, RunRegister, AddInterest
  <2> QED
    BY <2>1, <2>2, ConnSteps DEF ConnGoes
<1>7. CASE onConnectable
  <2>1. job' = job
    BY <1>7 DEF onConnectable
  <2>2. (Answer("error") /\ pendingInitialData' = FALSE)
        \/ (conn' = conn /\ pendingInitialData' = pendingInitialData)
    BY <1>7, Zenon DEF onConnectable
  <2> QED
    BY <2>1, <2>2, ConnSteps DEF ConnGoes
<1>8. CASE Established
  <2>1. pendingInitialData' = FALSE /\ job' = job /\ claimed \in Channels
    BY <1>8, EstablishedSteps
  <2>2. claimed # None
    BY <2>1, Sizes DEF Channels, None
  <2>3. job => conn.at = "waiting"
    BY <2>2 DEF DialInv, ClaimInv
  <2>4. job => conn'.at \in {"ok", "error"}
    BY <1>8, <2>3, ConnSteps DEF ConnGoes
  <2> QED
    BY <2>1, <2>4
<1>9. CASE CancelDial
  <2>1. job' = job /\ pendingInitialData' = pendingInitialData
    BY <1>9 DEF CancelDial
  <2>2. Answer("error") \/ conn' = conn
    BY <1>9, Zenon DEF CancelDial
  <2> QED
    BY <2>1, <2>2, ConnSteps DEF ConnGoes
<1>10. CASE \/ send \/ SendWaits \/ sendAsync \/ receive \/ ReceiveWaits \/ CancelReceive
            \/ TimeoutFires \/ onWritable \/ onReadable \/ Arrives \/ Handshake \/ Breaks
            \/ CancelTimer \/ CancelWaiters \/ CancelChannel \/ UNCHANGED vars
  <2>1. UNCHANGED << job, pendingInitialData, conn >>
    BY <1>10, Zenon DEF send, SendWaits, sendAsync, receive, ReceiveWaits, CancelReceive,
       TimeoutFires, onWritable, onReadable, Arrives, Handshake, Breaks, CancelTimer, CancelWaiters,
       CancelChannel, vars, dialing
  <2> QED
    BY <2>1
<1> QED
  BY <1>1, <1>2, <1>3, <1>4, <1>5, <1>6, <1>7, <1>8, <1>9, <1>10 DEF Next

----------------------------------------------------------------------------
(* The stream. *)

(* Steps that leave the wire, the queue and the caller alone. *)
LEMMA StreamKept ==
  ASSUME StreamInv, cancel' = cancel, channel' = channel, wire' = wire, snd' = snd,
         pendingSends' = pendingSends,
         \A c \in Channels : "WRITE" \in interest'[c] => "WRITE" \in interest[c] \/ c = channel,
         channel # None => (fd'[channel] = "connected" => fd[channel] = "connected"),
         conn.at = "connected" => conn'.at = "connected",
         channel # None /\ Settled' => Settled
  PROVE  StreamInv'
<1> SUFFICES ASSUME cancel = 0 PROVE StreamInv'
  BY DEF StreamInv
<1>1. \A c \in Channels : "WRITE" \in interest'[c] => c = channel'
  BY DEF StreamInv
<1>2. \A c \in Channels : c # channel' => wire'[c] = << >>
  BY DEF StreamInv
<1>3. conn'.at # "connected" => snd'.at \in {"idle", "failed"} /\ snd'.sent = 0
  BY DEF StreamInv
<1>4. channel' = None => pendingSends' = << >>
  BY DEF StreamInv
<1>5. ASSUME channel # None PROVE Ordered(wire'[channel']) /\ Begins(wire'[channel'])
  BY <1>5 DEF StreamInv
<1>6. ASSUME channel # None, fd'[channel'] = "connected" PROVE Chain(wire[channel])'
  <2>1. Chain(wire[channel])
    BY <1>6 DEF StreamInv
  <2> QED
    BY <1>6, <2>1 DEF Chain, CallerAfter
<1> QED
  BY <1>1, <1>2, <1>3, <1>4, <1>5, <1>6 DEF StreamInv

(* The dial, the selector and the receiver. *)
LEMMA QuietStream ==
  ASSUME TypeOK, DialInv, StreamInv,
         \/ connectToAddress \/ ConnectFails \/ Suspend \/ Resume \/ CancelJob \/ TimeoutFires
         \/ RunOp \/ onConnectable \/ Handshake \/ Breaks \/ Arrives
         \/ receive \/ ReceiveWaits \/ CancelReceive \/ onReadable
  PROVE  StreamInv'
<1>0. /\ conn \in ConnRecord /\ fd \in [Channels -> Fds] /\ interest \in [Channels -> Interests]
      /\ channel \in 0..Addresses /\ (channel # None => channel \in Channels)
  BY KernelType, Sizes DEF TypeOK, Channels, None
<1> DEFINE
      Same == cancel' = cancel /\ channel' = channel /\ wire' = wire /\ snd' = snd
              /\ pendingSends' = pendingSends
      WriteSame == \A c \in Channels : "WRITE" \in interest'[c] => "WRITE" \in interest[c] \/ c = channel
      FdSame == channel # None => (fd'[channel] = "connected" => fd[channel] = "connected")
      ConnSame == /\ conn.at = "connected" => conn'.at = "connected"
                  /\ channel # None /\ Settled' => Settled
<1>1. Same
  BY Zenon DEF connectToAddress, ConnectFails, Suspend, Resume, CancelJob, TimeoutFires, RunOp,
     onConnectable, Handshake, Breaks, Arrives, receive, ReceiveWaits, CancelReceive, onReadable,
     fields, sending
<1>2. ASSUME conn' = conn PROVE ConnSame
  BY <1>2 DEF Settled
<1>3. ASSUME Answer("error") PROVE ConnSame
  <2>1. connectCont # None /\ ConnGoes("error", conn.addr)
    BY <1>3, ConnSteps DEF Answer
  <2>2. conn.at = "waiting"
    BY <2>1 DEF DialInv, ContInv
  <2> QED
    BY <2>1, <2>2 DEF Settled, ConnGoes
<1>4. ConnSame
  <2>1. CASE connectToAddress
    <3>1. conn.at = "next" /\ conn'.at \in {"next", "suspending"}
      BY <2>1, ConnSteps DEF connectToAddress, ConnGoes
    <3> QED
      BY <3>1 DEF Settled
  <2>2. CASE ConnectFails
    <3>1. conn.at = "next" /\ conn'.at = "failed"
      BY <2>2, ConnSteps DEF ConnectFails, ConnGoes
    <3> QED
      BY <3>1 DEF Settled
  <2>3. CASE Suspend
    <3>1. conn.at = "suspending" /\ conn'.at \in {"waiting", "next"}
      BY <2>3, ConnSteps DEF Suspend, ConnGoes
    <3> QED
      BY <3>1 DEF Settled
  <2>4. CASE Resume
    <3>1. \/ conn.at = "ok" /\ conn'.at = "connected"
          \/ conn.at = "error" /\ conn'.at = "next"
      BY <2>4, ConnSteps DEF Resume, ConnGoes
    <3> QED
      BY <3>1 DEF Settled
  <2>5. CASE CancelJob
    <3>1. conn.at # "connected" /\ (conn' = conn \/ conn'.at = "error")
      BY <2>5, ConnSteps DEF CancelJob, ConnGoes
    <3> QED
      BY <3>1 DEF Settled
  <2>6. CASE RunOp
    <3>1. Answer("error") \/ conn' = conn
      BY <2>6, Zenon DEF RunOp, RunTimeout, RunRegister, AddInterest
    <3> QED
      BY <1>2, <1>3, <3>1
  <2>7. CASE onConnectable
    <3>1. Answer("error") \/ conn' = conn
      BY <2>7, Zenon DEF onConnectable
    <3> QED
      BY <1>2, <1>3, <3>1
  <2>8. CASE \/ TimeoutFires \/ Handshake \/ Breaks \/ Arrives \/ receive \/ ReceiveWaits
             \/ CancelReceive \/ onReadable
    <3>1. conn' = conn
      BY <2>8, Zenon DEF TimeoutFires, Handshake, Breaks, Arrives, receive, ReceiveWaits,
         CancelReceive, onReadable, dialing
    <3> QED
      BY <1>2, <3>1
  <2> QED
    BY <2>1, <2>2, <2>3, <2>4, <2>5, <2>6, <2>7, <2>8
<1>5. ASSUME fd' = fd PROVE FdSame
  BY <1>5
<1>6. ASSUME NEW c, fd' = [fd EXCEPT ![c] = "closed"] PROVE FdSame
  BY <1>0, <1>6, FdEdit DEF Fds
<1>7. FdSame
  <2>1. CASE connectToAddress
    <3>1. channel # None => channel # conn.addr
      BY <1>0, <2>1, Sizes DEF connectToAddress, DialInv, ChannelInv, Behind, TypeOK, ConnRecord
    <3>2. \A d \in Channels : d # conn.addr => fd'[d] = fd[d]
      BY <1>0, <2>1, FdEdit DEF connectToAddress, Close, Fds
    <3> QED
      BY <1>0, <3>1, <3>2
  <2>2. CASE Handshake \/ Breaks
    <3>1. \A d \in Channels : fd'[d] = fd[d] \/ fd[d] = "connecting" \/ fd'[d] = "broken"
      BY <1>0, <2>2, FdEdit DEF Handshake, Breaks, Fds
    <3>2. channel # None => fd[channel] # "connecting"
      BY DEF DialInv, ChannelInv, Live
    <3> QED
      BY <1>0, <3>1, <3>2
  <2>3. CASE Suspend
    <3>1. fd' = fd \/ fd' = [fd EXCEPT ![conn.addr] = "closed"]
      BY <2>3, Zenon DEF Suspend, Close
    <3> QED
      BY <1>5, <1>6, <3>1
  <2>4. CASE CancelJob
    <3>1. fd' = fd \/ fd' = [fd EXCEPT ![connectCont] = "closed"]
      BY <2>4, Zenon DEF CancelJob, Close
    <3> QED
      BY <1>5, <1>6, <3>1
  <2>5. CASE RunOp
    <3>1. \E c : fd' = fd \/ fd' = [fd EXCEPT ![c] = "closed"]
      BY <2>5, Zenon DEF RunOp, RunTimeout, RunRegister, AddInterest, Close
    <3> QED
      BY <1>5, <1>6, <3>1
  <2>6. CASE onConnectable
    <3>1. \E c : fd' = fd \/ fd' = [fd EXCEPT ![c] = "closed"]
      BY <2>6, Zenon DEF onConnectable, Close
    <3> QED
      BY <1>5, <1>6, <3>1
  <2>7. CASE \/ ConnectFails \/ Resume \/ TimeoutFires \/ Arrives \/ receive \/ ReceiveWaits
             \/ CancelReceive \/ onReadable
    <3>1. fd' = fd
      BY <2>7, Zenon DEF ConnectFails, Resume, TimeoutFires, Arrives, receive, ReceiveWaits,
         CancelReceive, onReadable, kernel
    <3> QED
      BY <1>5, <3>1
  <2> QED
    BY <2>1, <2>2, <2>3, <2>4, <2>5, <2>6, <2>7
<1>8. WriteSame
  <2>1. ASSUME interest' = interest PROVE WriteSame
    BY <2>1
  <2>2. CASE RunOp
    <3>1. PICK op : RunTimeout(op[2]) \/ RunRegister(op[2]) \/ AddInterest(op[1])
      BY <2>2 DEF RunOp
    <3>2. \/ interest' = interest
          \/ interest' = [interest EXCEPT ![op[2]] = {"CONNECT"}]
          \/ interest' = [interest EXCEPT ![selectionKey] = interest[selectionKey] \cup {op[1]}]
      BY <3>1, Zenon DEF RunTimeout, RunRegister, AddInterest
    <3>3. CASE interest' = [interest EXCEPT ![op[2]] = {"CONNECT"}]
      <4>1. {"CONNECT"} \in Interests /\ "WRITE" \notin {"CONNECT"}
        BY DEF Interests
      <4> QED
        BY <1>0, <3>3, <4>1, InterestEdit
    <3>4. CASE interest' = [interest EXCEPT ![selectionKey] = interest[selectionKey] \cup {op[1]}]
      <4>1. selectionKey = channel
        BY DEF DialInv, ChannelInv
      <4>2. \A d \in Channels : d # channel => interest'[d] = interest[d]
        BY <1>0, <3>4, <4>1
      <4> QED
        BY <4>2
    <3> QED
      BY <2>1, <3>2, <3>3, <3>4
  <2>3. CASE onReadable
    <3>1. PICK c \in Channels : interest' = interest \/ interest' = [interest EXCEPT ![c] = interest[c] \ {"READ"}]
      BY <2>3, Zenon DEF onReadable
    <3>2. interest[c] \ {"READ"} \in Interests
      BY <1>0, Zenon DEF Interests
    <3>3. \A d \in Channels : interest'[d] \subseteq interest[d]
      BY <1>0, <3>1, <3>2, InterestEdit
    <3> QED
      BY <3>3
  <2>4. CASE \/ connectToAddress \/ ConnectFails \/ Suspend \/ Resume \/ CancelJob \/ TimeoutFires
             \/ onConnectable \/ Handshake \/ Breaks \/ Arrives
             \/ receive \/ ReceiveWaits \/ CancelReceive
    <3>1. interest' = interest
      BY <2>4, Zenon DEF connectToAddress, ConnectFails, Suspend, Resume, CancelJob, TimeoutFires,
         onConnectable, Handshake, Breaks, Arrives, receive, ReceiveWaits, CancelReceive, kernel
    <3> QED
      BY <2>1, <3>1
  <2> QED
    BY <2>2, <2>3, <2>4
<1> QED
  BY <1>1, <1>4, <1>7, <1>8, StreamKept

(* The parts of StreamInv, for the channel in use. *)
LEMMA StreamFacts ==
  ASSUME TypeOK, DialInv, StreamInv, cancel = 0, conn.at = "connected"
  PROVE  /\ channel \in Channels /\ channel # None /\ wire[channel] \in Seq(Nat) /\ Live(channel)
         /\ Ordered(wire[channel]) /\ Begins(wire[channel])
         /\ fd[channel] = "connected" => Chain(wire[channel])
<1>1. channel # None
  BY DEF DialInv, ReadyInv, Settled
<1>2. channel \in Channels
  BY <1>1, Sizes DEF TypeOK, None, Channels
<1> QED
  BY <1>1, <1>2 DEF TypeOK, StreamInv, DialInv, ChannelInv

(* A step of the caller or of onWritable on that channel. *)
LEMMA StreamMoves ==
  ASSUME TypeOK, DialInv, StreamInv, cancel = 0, cancel' = cancel, channel \in Channels, channel # None,
         channel' = channel, conn' = conn, fd' = fd,
         conn.at # "connected" => snd' = snd \/ SndGoes("failed", snd.sent),
         \A c \in Channels : "WRITE" \in interest'[c] => "WRITE" \in interest[c],
         \A c \in Channels : c # channel => wire'[c] = wire[c],
         Ordered(wire'[channel]), Begins(wire'[channel]),
         fd[channel] = "connected" => Chain(wire[channel])'
  PROVE  StreamInv'
<1>1. conn'.at # "connected" => snd'.at \in {"idle", "failed"} /\ snd'.sent = 0
  BY DEF StreamInv, SndGoes
<1> QED
  BY <1>1 DEF StreamInv

(* Chain after a step that leaves w on the wire, q queued, and l last. *)
LEMMA ChainMade ==
  ASSUME NEW w, NEW q, NEW l, wire'[channel'] = w, pendingSends' = q,
         Queue(q), Joins(w, q), HasInitial /\ Settled' => w # << >> \/ q # << >>, LastUnit(w, q) = l,
         snd'.at = "idle" => IsEnd(l) /\ l <= (snd'.sent + 1) * Size,
         snd'.at = "adding" => Follows(l, snd'.from) /\ 1 <= snd'.from /\ snd'.from <= (snd'.sent + 2) * Size,
         snd'.at = "waiting" => IsEnd(l) /\ l <= (snd'.sent + 2) * Size
  PROVE  Chain(wire[channel])'
  BY DEF Chain, CallerAfter

LEMMA SendWaitsStream ==
  ASSUME TypeOK, DialInv, StreamInv, cancel = 0, SendWaits
  PROVE  StreamInv'
<1>1. /\ snd.at = "adding" /\ SndGoes("waiting", snd.sent)
      /\ pendingSends' = Append(pendingSends, Rest(snd.from, First(snd.sent + 2) - 1, TRUE))
      /\ UNCHANGED << channel, conn, fd, interest, wire, cancel >>
  BY SendWaitsSteps DEF fields, dialing, kernel
<1>2. conn.at = "connected"
  BY <1>1 DEF StreamInv
<1>3. /\ channel \in Channels /\ channel # None /\ wire[channel] \in Seq(Nat)
      /\ Ordered(wire[channel]) /\ Begins(wire[channel])
      /\ fd[channel] = "connected" => Chain(wire[channel])
  BY <1>2, StreamFacts
<1>4. ASSUME fd[channel] = "connected" PROVE Chain(wire[channel])'
  <2> DEFINE w == wire[channel]
             q == pendingSends
             l == LastUnit(w, q)
             to == First(snd.sent + 2) - 1
             r == Rest(snd.from, to, TRUE)
  <2>1. Queue(q) /\ Joins(w, q) /\ (HasInitial => w # << >> \/ q # << >>)
        /\ Follows(l, snd.from) /\ 1 <= snd.from /\ snd.from <= (snd.sent + 2) * Size
    BY <1>1, <1>2, <1>3, <1>4 DEF Chain, CallerAfter, Settled
  <2>2. snd.from \in Nat /\ snd.sent \in Nat /\ snd.sent + 1 \in Nat /\ snd.sent + 2 = (snd.sent + 1) + 1
        /\ snd.sent + 2 \in Nat
    BY DEF TypeOK, SndRecord
  <2>3. to = (snd.sent + 2) * Size /\ to \in Nat
    <3>1. First((snd.sent + 1) + 1) - 1 = ((snd.sent + 1) + 1) * Size
      BY <2>2, FirstFacts
    <3>2. (snd.sent + 2) * Size \in Nat
      BY <2>2, Sizes
    <3> QED
      BY <2>2, <3>1, <3>2
  <2>4. IsEnd(to)
    BY <2>2, <2>3, Multiples
  <2>5. r \in PendingSend /\ r.from = snd.from /\ r.to = to
    <3> HIDE DEF to
    <3>1. snd.from \in Nat /\ to \in Nat /\ TRUE \in BOOLEAN
      BY <2>2, <2>3
    <3> QED
      BY <3>1, RestType, Zenon
  <2>6. w \in Seq(Nat) /\ q \in Seq(PendingSend) /\ w' = w /\ pendingSends' = Append(q, r)
    BY <1>1, <1>3 DEF TypeOK
  <2>7. Whole(r)
    BY <2>1, <2>2, <2>3, <2>4, <2>5 DEF Whole
  <2> HIDE DEF w, q, l, r, to
  <2>8. /\ Append(q, r) # << >> /\ Queue(Append(q, r)) /\ Joins(w, Append(q, r))
        /\ LastUnit(w, Append(q, r)) = to
    <3>1. w # << >> \/ q # << >> \/ (HasInitial => r.from = 1)
      BY <2>1
    <3>2. w # << >> \/ q # << >> => Follows(LastUnit(w, q), r.from)
      BY <2>1, <2>5 DEF l
    <3> QED
      BY <2>1, <2>5, <2>6, <2>7, <3>1, <3>2, QueueGrows
  <2>9. snd'.at = "waiting" /\ IsEnd(to) /\ to <= (snd'.sent + 2) * Size
    <3>1. snd'.at = "waiting" /\ snd'.sent = snd.sent
      BY <1>1 DEF SndGoes
    <3> QED
      BY <2>3, <2>4, <3>1
  <2>10. wire'[channel'] = w
    BY <1>1 DEF w
  <2> QED
    BY <2>6, <2>8, <2>9, <2>10, ChainMade
<1> QED
  BY <1>1, <1>2, <1>3, <1>4, StreamMoves

LEMMA LastUnitType ==
  ASSUME NEW w \in Seq(Nat), NEW q \in Seq(PendingSend)
  PROVE  LastUnit(w, q) \in Nat
<1>1. q # << >> => q[Len(q)] \in PendingSend
  BY EmptySeq, LenProperties, ElementOfSeq
<1>2. w # << >> => w[Len(w)] \in Nat
  BY EmptySeq, LenProperties, ElementOfSeq
<1> QED
  BY <1>1, <1>2 DEF LastUnit, PendingSend

(* The numbers of the next message. *)
LEMMA NextMessage ==
  ASSUME TypeOK
  PROVE  /\ snd.sent \in Nat /\ First(snd.sent + 1) \in Nat /\ First(snd.sent + 1) >= 1
         /\ First(snd.sent + 1) = (snd.sent + 1) * Size + 1
         /\ First(snd.sent + 2) - 1 = (snd.sent + 2) * Size
         /\ (snd.sent + 1) * Size \in Nat /\ (snd.sent + 2) * Size \in Nat
         /\ (snd.sent + 2) * Size = (snd.sent + 1) * Size + Size
         /\ ((snd.sent + 1) + 1) * Size = (snd.sent + 2) * Size
         /\ IsEnd((snd.sent + 1) * Size) /\ IsEnd((snd.sent + 2) * Size)
         /\ IsStart(First(snd.sent + 1))
<1>1. snd.sent \in Nat
  BY DEF TypeOK, SndRecord
<1> SUFFICES ASSUME NEW m \in Nat, m = snd.sent
             PROVE  /\ First(m + 1) \in Nat /\ First(m + 1) >= 1
                    /\ First(m + 1) = (m + 1) * Size + 1
                    /\ First(m + 2) - 1 = (m + 2) * Size
                    /\ (m + 1) * Size \in Nat /\ (m + 2) * Size \in Nat
                    /\ (m + 2) * Size = (m + 1) * Size + Size
                    /\ ((m + 1) + 1) * Size = (m + 2) * Size
                    /\ IsEnd((m + 1) * Size) /\ IsEnd((m + 2) * Size)
                    /\ IsStart(First(m + 1))
  BY <1>1
<1>2. m + 1 \in Nat /\ m + 2 \in Nat /\ m + 2 = (m + 1) + 1
  OBVIOUS
<1>3. First(m + 1) \in Nat /\ First(m + 1) >= 1 /\ First(m + 1) = (m + 1) * Size + 1
      /\ First((m + 1) + 1) - 1 = ((m + 1) + 1) * Size
  BY <1>2, FirstFacts
<1>4. (m + 1) * Size \in Nat /\ (m + 2) * Size \in Nat /\ (m + 2) * Size = (m + 1) * Size + Size
  BY <1>2, Sizes
<1>5. IsEnd((m + 1) * Size) /\ IsEnd((m + 2) * Size) /\ IsStart((m + 1) * Size + 1)
  BY <1>2, Multiples
<1> QED
  BY <1>2, <1>3, <1>4, <1>5

LEMMA sendAsyncStream ==
  ASSUME TypeOK, DialInv, StreamInv, cancel = 0, sendAsync
  PROVE  StreamInv'
<1>1. /\ snd.at = "idle" /\ conn.at = "connected" /\ snd.sent < MaxSends
      /\ SndGoes("idle", snd.sent + 1)
      /\ \/ pendingSends' = pendingSends
         \/ pendingSends' =
              Append(pendingSends, Rest(First(snd.sent + 1), First(snd.sent + 2) - 1, FALSE))
      /\ UNCHANGED << channel, conn, fd, interest, wire, cancel >>
  BY sendAsyncSteps DEF fields, dialing, kernel
<1>2. /\ channel \in Channels /\ channel # None /\ wire[channel] \in Seq(Nat)
      /\ Ordered(wire[channel]) /\ Begins(wire[channel])
      /\ fd[channel] = "connected" => Chain(wire[channel])
  BY <1>1, StreamFacts
<1>3. ASSUME fd[channel] = "connected" PROVE Chain(wire[channel])'
  <2> DEFINE w == wire[channel]
             q == pendingSends
             l == LastUnit(w, q)
             x == (snd.sent + 1) * Size
             to == (snd.sent + 2) * Size
             r == Rest(First(snd.sent + 1), First(snd.sent + 2) - 1, FALSE)
  <2>1. Queue(q) /\ Joins(w, q) /\ (HasInitial => w # << >> \/ q # << >>)
        /\ IsEnd(l) /\ l <= x
    BY <1>1, <1>2, <1>3 DEF Chain, CallerAfter, Settled
  <2>2. /\ x \in Nat /\ to = x + Size /\ to \in Nat /\ IsEnd(to) /\ IsStart(x + 1)
        /\ First(snd.sent + 1) = x + 1 /\ First(snd.sent + 2) - 1 = to
        /\ ((snd.sent + 1) + 1) * Size = to
    BY NextMessage
  <2>3. r \in PendingSend /\ r.from = x + 1 /\ r.to = to
    <3>1. x + 1 \in Nat
      BY <2>2
    <3>2. r = Rest(x + 1, to, FALSE)
      BY <2>2
    <3> HIDE DEF r, x, to
    <3>3. x + 1 \in Nat /\ to \in Nat /\ FALSE \in BOOLEAN
      BY <2>2, <3>1
    <3> QED
      BY <3>2, <3>3, RestType
  <2>4. w \in Seq(Nat) /\ q \in Seq(PendingSend)
    BY <1>2 DEF TypeOK
  <2>5. wire'[channel'] = w /\ (pendingSends' = q \/ pendingSends' = Append(q, r))
    BY <1>1
  <2>6. snd'.at = "idle" /\ (snd'.sent + 1) * Size = to
    BY <1>1, <2>2 DEF SndGoes
  <2>7. l \in Nat
    BY <2>4, LastUnitType
  <2>8. Size \in Nat /\ Size >= 1
    BY Sizes
  <2> HIDE DEF w, q, l, x, to, r
  <2>9. LastUnit(w, q) = l
    BY DEF l
  <2>10. CASE pendingSends' = q
    <3>1. IsEnd(l) /\ l <= to
      BY <2>1, <2>2, <2>7, <2>8
    <3> QED
      BY <2>1, <2>5, <2>6, <2>9, <2>10, <3>1, ChainMade
  <2>11. CASE pendingSends' = Append(q, r)
    <3>1. Follows(l, x + 1)
      BY <2>1, <2>2, <2>7 DEF Follows
    <3>2. Whole(r)
      BY <2>2, <2>3, <2>8 DEF Whole
    <3>3. w # << >> \/ q # << >> \/ (HasInitial => r.from = 1)
      BY <2>1
    <3>4. w # << >> \/ q # << >> => Follows(LastUnit(w, q), r.from)
      BY <2>3, <2>9, <3>1
    <3>5. /\ Append(q, r) # << >> /\ Queue(Append(q, r)) /\ Joins(w, Append(q, r))
          /\ LastUnit(w, Append(q, r)) = to
      BY <2>1, <2>3, <2>4, <3>2, <3>3, <3>4, QueueGrows
    <3>6. IsEnd(to) /\ to <= (snd'.sent + 1) * Size
      BY <2>2, <2>6
    <3> QED
      BY <2>5, <2>6, <2>11, <3>5, <3>6, ChainMade
  <2> QED
    BY <2>5, <2>10, <2>11
<1> QED
  BY <1>1, <1>2, <1>3, StreamMoves

LEMMA sendStream ==
  ASSUME TypeOK, DialInv, StreamInv, cancel = 0, send
  PROVE  StreamInv'
<1>1. /\ snd.at = "idle" /\ conn.at = "connected"
      /\ UNCHANGED << channel, conn, fd, interest, pendingSends, cancel >>
  BY sendSteps DEF fields, dialing, kernel
<1>2. /\ channel \in Channels /\ channel # None /\ wire[channel] \in Seq(Nat) /\ Live(channel)
      /\ Ordered(wire[channel]) /\ Begins(wire[channel])
      /\ fd[channel] = "connected" => Chain(wire[channel])
  BY <1>1, StreamFacts
<1> DEFINE w == wire[channel]
           q == pendingSends
           l == LastUnit(w, q)
           x == (snd.sent + 1) * Size
           to == (snd.sent + 2) * Size
<1>3. ASSUME fd[channel] = "connected"
      PROVE  Queue(q) /\ Joins(w, q) /\ (HasInitial => w # << >> \/ q # << >>) /\ IsEnd(l) /\ l <= x
  BY <1>1, <1>2, <1>3 DEF Chain, CallerAfter, Settled
<1>4. /\ x \in Nat /\ to = x + Size /\ to \in Nat /\ IsEnd(to) /\ IsStart(x + 1)
      /\ First(snd.sent + 1) = x + 1 /\ ((snd.sent + 1) + 1) * Size = to
  BY NextMessage
<1>5. w \in Seq(Nat) /\ q \in Seq(PendingSend) /\ l \in Nat /\ Size \in Nat /\ Size >= 1
  BY <1>2, LastUnitType, Sizes DEF TypeOK
<1>6. snd.sent \in Nat /\ wire \in [Channels -> Seq(Nat)]
  BY DEF TypeOK, SndRecord
<1>7. CASE SndGoes("failed", snd.sent) /\ wire' = wire
  <2>1. ASSUME fd[channel] = "connected" PROVE Chain(wire[channel])'
    <3>1. snd'.at = "failed" /\ wire'[channel'] = w /\ pendingSends' = q
      BY <1>1, <1>7 DEF SndGoes
    <3> HIDE DEF w, q
    <3> QED
      BY <1>3, <2>1, <3>1, ChainMade
  <2> QED
    BY <1>1, <1>2, <1>7, <2>1, StreamMoves
<1>8. CASE /\ wire' = wire /\ SndGoes("adding", snd.sent) /\ snd'.from = First(snd.sent + 1)
  <2>1. ASSUME fd[channel] = "connected" PROVE Chain(wire[channel])'
    <3>1. /\ snd'.at = "adding" /\ snd'.from = x + 1 /\ (snd'.sent + 2) * Size = to
          /\ wire'[channel'] = w /\ pendingSends' = q
      BY <1>1, <1>4, <1>8 DEF SndGoes
    <3>2. LastUnit(w, q) = l
      OBVIOUS
    <3>3. Queue(q) /\ Joins(w, q) /\ (HasInitial => w # << >> \/ q # << >>) /\ IsEnd(l) /\ l <= x
      BY <1>3, <2>1
    <3> HIDE DEF w, q, l, x, to
    <3>4. Follows(l, x + 1) /\ 1 <= x + 1 /\ x + 1 <= to
      BY <1>4, <1>5, <3>3 DEF Follows
    <3> QED
      BY <3>1, <3>2, <3>3, <3>4, ChainMade
  <2> QED
    BY <1>1, <1>2, <1>8, <2>1, StreamMoves
<1>9. ASSUME fd[channel] # "broken", pendingSends = << >>, NEW n \in 0..Size,
             wire' = [wire EXCEPT ![channel] = wire[channel] \o Units(First(snd.sent + 1), n)],
             \/ n = Size /\ SndGoes("idle", snd.sent + 1)
             \/ n < Size /\ SndGoes("adding", snd.sent) /\ snd'.from = First(snd.sent + 1) + n
      PROVE  StreamInv'
  <2>1. fd[channel] = "connected"
    BY <1>2, <1>9 DEF Live
  <2>2. Queue(q) /\ Joins(w, q) /\ (HasInitial => w # << >>) /\ IsEnd(l) /\ l <= x /\ q = << >>
    BY <1>3, <1>9, <2>1
  <2>3. l = IF w # << >> THEN w[Len(w)] ELSE 0
    BY <2>2 DEF LastUnit
  <2>4. PICK v : v = w \o Units(x + 1, n)
    OBVIOUS
  <2>5. n \in Nat /\ n <= Size
    BY <1>5
  <2>6. wire' = [wire EXCEPT ![channel] = v]
    BY <1>4, <1>9, <2>4
  <2> HIDE DEF w, q, l, x, to
  <2>7. Follows(l, x + 1) /\ 1 <= x + 1 /\ x + 1 \in Nat
    BY <1>4, <1>5, <2>2 DEF Follows
  <2>8. /\ v \in Seq(Nat) /\ Ordered(v) /\ Begins(v) /\ (HasInitial => v # << >>)
        /\ n >= 1 => LastUnit(v, q) = x + n
        /\ n = 0 => LastUnit(v, q) = l
    <3>1. CASE n = 0
      <4>1. v = w
        BY <1>5, <2>4, <2>7, <3>1, NoUnits
      <4> QED
        BY <1>2, <1>5, <2>2, <3>1, <4>1 DEF l, w
    <3>2. CASE n >= 1
      <4>1. IF w = << >> THEN HasInitial => x + 1 = 1 ELSE Follows(w[Len(w)], x + 1)
        BY <2>2, <2>3, <2>7
      <4>2. Ordered(w) /\ Begins(w)
        BY <1>2 DEF w
      <4>3. v \in Seq(Nat) /\ v # << >> /\ Ordered(v) /\ Begins(v) /\ v[Len(v)] = (x + 1) + n - 1
        BY <1>5, <2>4, <2>5, <2>7, <3>2, <4>1, <4>2, WireGrows
      <4>4. (x + 1) + n - 1 = x + n
        BY <1>4, <2>5
      <4> QED
        BY <2>2, <3>2, <4>3, <4>4 DEF LastUnit
    <3> QED
      BY <2>5, <3>1, <3>2
  <2>9. wire'[channel] = v /\ \A c \in Channels : c # channel => wire'[c] = wire[c]
    BY <1>2, <1>6, <2>6, <2>8, WireEdit
  <2>10. wire'[channel'] = v /\ pendingSends' = q /\ Joins(v, q)
    BY <1>1, <2>2, <2>9 DEF q, Joins
  <2>11. Chain(wire[channel])'
    <3>1. CASE n = Size /\ SndGoes("idle", snd.sent + 1)
      <4>1. snd'.at = "idle" /\ (snd'.sent + 1) * Size = to
        BY <1>4, <3>1 DEF SndGoes
      <4>2. LastUnit(v, q) = to /\ IsEnd(to) /\ to <= to
        BY <1>4, <1>5, <2>8, <3>1
      <4> QED
        BY <2>2, <2>8, <2>10, <4>1, <4>2, ChainMade
    <3>2. CASE n < Size /\ SndGoes("adding", snd.sent) /\ snd'.from = First(snd.sent + 1) + n
      <4>1. snd'.at = "adding" /\ (snd'.sent + 2) * Size = to /\ snd'.from = x + 1 + n
        BY <1>4, <3>2 DEF SndGoes, to
      <4>2. 1 <= x + 1 + n /\ x + 1 + n <= to
        BY <1>4, <1>5, <2>5, <3>2
      <4>3. Follows(LastUnit(v, q), x + 1 + n)
        <5>1. CASE n = 0
          <6>1. x + 1 + n = x + 1
            BY <1>4, <5>1
          <6> QED
            BY <2>7, <2>8, <5>1, <6>1
        <5>2. CASE n >= 1
          <6>1. x + 1 + n = (x + n) + 1
            BY <1>4, <2>5
          <6> QED
            BY <2>8, <5>2, <6>1 DEF Follows
        <5> QED
          BY <2>5, <5>1, <5>2
      <4> QED
        BY <2>2, <2>8, <2>10, <4>1, <4>2, <4>3, ChainMade
    <3> QED
      BY <1>9, <3>1, <3>2
  <2> QED
    BY <1>1, <1>2, <2>8, <2>9, <2>11, StreamMoves
<1> HIDE DEF w, q, l, x, to
<1> QED
  BY <1>7, <1>8, <1>9, sendSteps

LEMMA onWritableStream ==
  ASSUME TypeOK, DialInv, StreamInv, cancel = 0, onWritable
  PROVE  StreamInv'
<1>1. PICK c \in Channels :
           /\ Selected(c, "WRITE") /\ Wrote(c)
           /\ interest' = interest \/ interest' = [interest EXCEPT ![c] = interest[c] \ {"WRITE"}]
           /\ UNCHANGED << fields, dialing, receiving, fd, pendingOps, cancel >>
  BY onWritableSteps
<1>2. UNCHANGED << channel, conn, fd, cancel >>
  BY <1>1 DEF fields, dialing
<1>3. channel = c /\ channel \in Channels /\ channel # None
  BY <1>1, Sizes DEF Selected, StreamInv, Channels, None
<1>4. \A d \in Channels : "WRITE" \in interest'[d] => "WRITE" \in interest[d]
  <2>1. interest[c] \ {"WRITE"} \in Interests
    BY KernelType, Zenon DEF Interests
  <2>2. \A d \in Channels : interest'[d] \subseteq interest[d]
    BY <1>1, <2>1, InterestEdit, KernelType
  <2> QED
    BY <2>2
<1>5. /\ wire \in [Channels -> Seq(Nat)] /\ wire[c] \in Seq(Nat) /\ Ordered(wire[c]) /\ Begins(wire[c])
      /\ fd[c] = "connected" => Chain(wire[c])
  BY <1>3 DEF StreamInv, TypeOK
<1>6. CASE UNCHANGED sending
  <2>1. wire' = wire /\ snd' = snd /\ pendingSends' = pendingSends
    BY <1>6 DEF sending
  <2>2. Settled' => Settled
    BY <1>2 DEF Settled
  <2> QED
    BY <1>2, <1>4, <2>1, <2>2, StreamKept
<1>7. CASE /\ fd[c] = "broken" /\ wire' = wire
           /\ snd' = snd \/ SndGoes("failed", snd.sent)
  BY <1>2, <1>3, <1>4, <1>5, <1>7, StreamMoves
<1>8. ASSUME pendingSends # << >>, fd[c] = "connected", NEW n \in 1..Size, NEW h \in PendingSend,
             h = Head(pendingSends), n <= h.to - h.from + 1,
             wire' = [wire EXCEPT ![c] = wire[c] \o Units(h.from, n)],
             \/ /\ h.from + n > h.to /\ pendingSends' = Tail(pendingSends)
                /\ snd' = snd \/ (snd.at = "waiting" /\ SndGoes("idle", snd.sent + 1))
             \/ /\ h.from + n <= h.to /\ snd' = snd
                /\ pendingSends' = [pendingSends EXCEPT ![1] = Rest(h.from + n, h.to, h.waits)]
      PROVE  StreamInv'
  <2>1. PICK w \in Seq(Nat) : w = wire[c]
    BY <1>5
  <2>2. PICK q \in Seq(PendingSend) : q = pendingSends
    BY DEF TypeOK
  <2>3. PICK v : v = w \o Units(h.from, n)
    OBVIOUS
  <2>4. PICK p : p = pendingSends'
    OBVIOUS
  <2>5. /\ Ordered(w) /\ Begins(w) /\ Queue(q) /\ Joins(w, q)
        /\ HasInitial /\ Settled => w # << >> \/ q # << >>
        /\ CallerAfter(LastUnit(w, q))
    BY <1>5, <1>8, <2>1, <2>2 DEF Chain
  <2>6. /\ v \in Seq(Nat) /\ v # << >> /\ Ordered(v) /\ Begins(v)
        /\ Queue(p) /\ Joins(v, p) /\ LastUnit(v, p) = LastUnit(w, q)
    <3>1. n \in Nat /\ n >= 1
      BY Sizes
    <3>2. \/ h.from + n > h.to /\ p = Tail(q)
          \/ h.from + n <= h.to /\ p = [q EXCEPT ![1] = Rest(h.from + n, h.to, h.waits)]
      BY <1>8, <2>2, <2>4
    <3>3. q # << >> /\ h = Head(q)
      BY <1>8, <2>2
    <3>4. n <= h.to - h.from + 1
      BY <1>8
    <3>5. Ordered(w) /\ Begins(w) /\ Queue(q) /\ Joins(w, q)
      BY <2>5
    <3>6. w \in Seq(Nat) /\ q \in Seq(PendingSend) /\ h \in PendingSend
      OBVIOUS
    <3>7. HeadStep(w, q, h, n, v, p)
      BY ONLY <2>3, <3>1, <3>2, <3>3, <3>4, <3>5, <3>6 DEF HeadStep
    <3> QED
      BY <3>7, HeadWritten
  <2>7. PICK l \in Nat : l = LastUnit(w, q)
    BY LastUnitType
  <2>8. wire'[c] = v /\ \A d \in Channels : d # c => wire'[d] = wire[d]
    BY <1>5, <1>8, <2>1, <2>3, <2>6, WireEdit
  <2>9. Chain(wire[channel])'
    <3>1. wire'[channel'] = v /\ pendingSends' = p /\ LastUnit(v, p) = l
      BY <1>2, <1>3, <2>4, <2>6, <2>7, <2>8
    <3>2. CASE snd' = snd
      BY <2>5, <2>6, <2>7, <3>1, <3>2, ChainMade DEF CallerAfter
    <3>3. CASE snd.at = "waiting" /\ SndGoes("idle", snd.sent + 1)
      <4>1. snd'.at = "idle" /\ (snd'.sent + 1) * Size = (snd.sent + 2) * Size
        BY <3>3, NextMessage DEF SndGoes
      <4>2. IsEnd(l) /\ l <= (snd.sent + 2) * Size
        BY <2>5, <2>7, <3>3 DEF CallerAfter
      <4> QED
        BY <2>6, <3>1, <4>1, <4>2, ChainMade
    <3> QED
      BY <1>8, <3>2, <3>3
  <2>10. conn.at # "connected" => snd' = snd
    BY <1>8 DEF StreamInv
  <2> QED
    BY <1>2, <1>3, <1>4, <2>6, <2>8, <2>9, <2>10, StreamMoves
<1> QED
  BY <1>1, <1>6, <1>7, <1>8 DEF Wrote

LEMMA EstablishedStream ==
  ASSUME TypeOK, DialInv, InitialInv, StreamInv, cancel = 0, Established
  PROVE  StreamInv'
<1>1. claimed \in Channels /\ UNCHANGED << cancel, snd >>
  BY EstablishedSteps
<1>2. claimed # None
  BY <1>1, Sizes DEF Channels, None
<1>3. channel = None /\ conn.at \notin {"ok", "connected"} /\ (conn.at = "waiting" => job)
  BY <1>2 DEF DialInv, ClaimInv, JobInv
<1>4. IF conn.at = "waiting"
      THEN ConnGoes("ok", conn.addr) \/ ConnGoes("error", conn.addr) ELSE conn' = conn
  BY ConnSteps
<1>5. conn'.at # "connected" /\ (Settled' => conn.at = "waiting")
  BY <1>3, <1>4 DEF ConnGoes, Settled
<1>6. /\ \A c \in Channels : "WRITE" \notin interest[c]
      /\ \A c \in Channels : wire[c] = << >>
      /\ snd.at \in {"idle", "failed"} /\ snd.sent = 0 /\ pendingSends = << >>
  BY <1>3, Sizes DEF StreamInv, Channels, None
<1>7. CASE /\ channel' = None /\ UNCHANGED << wire, pendingSends, interest >>
  BY <1>1, <1>5, <1>6, <1>7 DEF StreamInv
<1>8. ASSUME channel' = claimed, NEW n \in 0..Size, NEW i \in Interests,
             pendingInitialData \/ n = 0,
             wire' = [wire EXCEPT ![claimed] = Units(1, n)],
             pendingSends' = IF pendingInitialData /\ n < Size
                             THEN Append(pendingSends, Rest(n + 1, Size, FALSE)) ELSE pendingSends,
             interest' = [interest EXCEPT ![claimed] = i]
      PROVE  StreamInv'
  <2>1. n \in Nat /\ n <= Size /\ Size \in Nat /\ Size >= 1
    BY Sizes
  <2>2. PICK w : w = Units(1, n)
    OBVIOUS
  <2>3. PICK q : q = pendingSends'
    OBVIOUS
  <2>4. /\ w \in Seq(Nat) /\ Ordered(w) /\ Begins(w)
        /\ n = 0 => w = << >>
        /\ n >= 1 => w # << >> /\ w[Len(w)] = n
    <3>0. << >> \in Seq(Nat) /\ 1 \in Nat /\ Len(<< >>) = 0
      OBVIOUS
    <3>1. << >> \o w = w /\ w \in Seq(Nat)
      BY <2>1, <2>2, <3>0, UnitsType, ConcatEmptySeq
    <3>2. CASE n = 0
      <4>1. w = << >>
        BY <2>2, <3>0, <3>1, <3>2, NoUnits
      <4> QED
        BY <3>0, <3>2, <4>1 DEF Ordered, Begins
    <3>3. CASE n >= 1
      <4>1. Ordered(<< >>) /\ Begins(<< >>)
        BY <3>0 DEF Ordered, Begins
      <4>2. /\ << >> \o Units(1, n) # << >> /\ Ordered(<< >> \o Units(1, n)) /\ Begins(<< >> \o Units(1, n))
            /\ (<< >> \o Units(1, n))[Len(<< >> \o Units(1, n))] = 1 + n - 1
        <5>1. PICK e \in Seq(Nat) : e = << >>
          BY <3>0
        <5>2. IF e = << >> THEN HasInitial => 1 = 1 ELSE Follows(e[Len(e)], 1)
          BY <5>1
        <5>3. Ordered(e) /\ Begins(e) /\ 1 <= 1
          BY <4>1, <5>1
        <5>4. /\ e \o Units(1, n) # << >> /\ Ordered(e \o Units(1, n)) /\ Begins(e \o Units(1, n))
              /\ (e \o Units(1, n))[Len(e \o Units(1, n))] = 1 + n - 1
          BY <2>1, <3>0, <3>3, <5>2, <5>3, WireGrows
        <5> QED
          BY <5>1, <5>4
      <4>3. 1 + n - 1 = n
        BY <2>1
      <4> QED
        BY <2>2, <3>1, <3>3, <4>2, <4>3
    <3> QED
      BY <2>1, <3>2, <3>3
  <2>5. wire'[claimed] = w /\ \A c \in Channels : c # claimed => wire'[c] = << >>
    BY <1>1, <1>6, <1>8, <2>2, <2>4, WireEdit DEF TypeOK
  <2>6. \A c \in Channels : "WRITE" \in interest'[c] => c = claimed
    BY <1>6, <1>8, InterestEdit, KernelType
  <2>7. IsEnd(0) /\ IsEnd(Size)
    <3>1. IsEnd(0 * Size) /\ IsEnd(1 * Size)
      BY Multiples
    <3>2. 0 * Size = 0 /\ 1 * Size = Size
      BY <2>1
    <3> QED
      BY <3>1, <3>2
  <2>8. /\ Queue(q) /\ Joins(w, q) /\ (pendingInitialData => w # << >> \/ q # << >>)
        /\ IsEnd(LastUnit(w, q)) /\ LastUnit(w, q) <= Size
    <3>0. << >> \in Seq(PendingSend) /\ Len(<< >>) = 0
      OBVIOUS
    <3>1. CASE pendingInitialData /\ n < Size
      <4> DEFINE r == Rest(n + 1, Size, FALSE)
      <4>1. r \in PendingSend /\ r.from = n + 1 /\ r.to = Size
        <5>1. n + 1 \in Nat /\ FALSE \in BOOLEAN
          BY <2>1
        <5> QED
          BY <2>1, <5>1, RestType
      <4>2. q = Append(<< >>, r)
        BY <1>6, <1>8, <2>3, <3>1
      <4> HIDE DEF r
      <4>3. Queue(<< >>) /\ Joins(w, << >>)
        BY <3>0 DEF Queue, Joins
      <4>4. Whole(r)
        BY <2>1, <2>7, <3>1, <4>1 DEF Whole
      <4>5. w # << >> \/ (HasInitial => r.from = 1)
        BY <2>1, <2>4, <4>1
      <4>6. w # << >> => Follows(LastUnit(w, << >>), r.from)
        BY <2>1, <2>4, <4>1 DEF LastUnit, Follows
      <4>7. q # << >> /\ Queue(q) /\ Joins(w, q) /\ LastUnit(w, q) = r.to
        BY <2>4, <3>0, <4>1, <4>2, <4>3, <4>4, <4>5, <4>6, QueueGrows
      <4> QED
        BY <2>1, <2>7, <4>1, <4>7
    <3>2. CASE ~ (pendingInitialData /\ n < Size)
      <4>1. q = << >>
        BY <1>6, <1>8, <2>3, <3>2
      <4>2. Queue(q) /\ Joins(w, q)
        BY <3>0, <4>1 DEF Queue, Joins
      <4>3. CASE n = Size
        BY <2>1, <2>4, <2>7, <4>1, <4>2, <4>3 DEF LastUnit
      <4>4. CASE n # Size
        <5>1. ~ pendingInitialData /\ n = 0
          BY <1>8, <2>1, <3>2, <4>4
        <5> QED
          BY <2>1, <2>4, <2>7, <4>1, <4>2, <5>1 DEF LastUnit
      <4> QED
        BY <4>3, <4>4
    <3> QED
      BY <3>1, <3>2
  <2>9. Chain(wire[channel])'
    <3>1. HasInitial /\ Settled' => w # << >> \/ q # << >>
      BY <1>3, <1>5, <2>8 DEF InitialInv
    <3>2. snd'.at \in {"idle", "failed"} /\ (snd'.sent + 1) * Size = Size
      BY <1>1, <1>6, <2>1
    <3>3. wire'[channel'] = w /\ pendingSends' = q
      BY <1>8, <2>3, <2>5
    <3> QED
      BY <2>8, <3>1, <3>2, <3>3, ChainMade
  <2>10. snd'.at \in {"idle", "failed"} /\ snd'.sent = 0
    BY <1>1, <1>6
  <2> QED
    BY <1>2, <1>8, <2>4, <2>5, <2>6, <2>9, <2>10 DEF StreamInv
<1> QED
  BY <1>7, <1>8, EstablishedSteps

----------------------------------------------------------------------------
NioInv == TypeOK /\ DialInv /\ InitialInv /\ StreamInv

LEMMA StreamStep == NioInv /\ [Next]_vars => StreamInv'
<1> SUFFICES ASSUME NioInv, [Next]_vars PROVE StreamInv'
  OBVIOUS
<1>0. TypeOK /\ DialInv /\ InitialInv /\ StreamInv
  BY DEF NioInv
<1>1. CASE CancelDial \/ CancelTimer \/ CancelWaiters \/ CancelChannel
  <2>1. cancel' # 0
    BY <1>1 DEF CancelDial, CancelTimer, CancelWaiters, CancelChannel
  <2> QED
    BY <2>1 DEF StreamInv
<1>2. CASE send \/ SendWaits \/ sendAsync \/ onWritable \/ Established
  <2>1. CASE cancel = 0
    BY <1>0, <1>2, <2>1, sendStream, SendWaitsStream, sendAsyncStream, onWritableStream, EstablishedStream
  <2>2. CASE cancel # 0
    <3>1. cancel' = cancel
      BY <1>2, Zenon DEF send, SendWaits, sendAsync, onWritable, Established
    <3> QED
      BY <2>2, <3>1 DEF StreamInv
  <2> QED
    BY <2>1, <2>2
<1>3. CASE UNCHANGED vars
  <2>1. /\ cancel' = cancel /\ channel' = channel /\ wire' = wire /\ snd' = snd
        /\ pendingSends' = pendingSends /\ interest' = interest /\ fd' = fd /\ conn' = conn
    BY <1>3 DEF vars, fields, dialing, sending, kernel
  <2>2. Settled' => Settled
    BY <2>1 DEF Settled
  <2> QED
    BY <1>0, <2>1, <2>2, StreamKept
<1> QED
  BY <1>0, <1>1, <1>2, <1>3, QuietStream DEF Next

LEMMA NioInvariant == Spec => []NioInv
<1>1. Init => NioInv
  <2> SUFFICES ASSUME Init PROVE NioInv
    OBVIOUS
  <2>1. TypeOK /\ DialInv
    BY InitType, InitDial
  <2>2. InitialInv
    BY DEF Init, InitialInv
  <2>3. StreamInv
    BY DEF Init, StreamInv
  <2> QED
    BY <2>1, <2>2, <2>3 DEF NioInv
<1>2. NioInv /\ [Next]_vars => NioInv'
  BY TypeStep, DialStep, InitialStep, StreamStep DEF NioInv
<1> QED
  BY <1>1, <1>2, PTL DEF Spec

(* The units of every message reach the wire whole and in order, for every *)
(* message size, number of messages and way the kernel cuts the writes.    *)
THEOREM StreamStaysInOrder == Spec => []StreamInOrder
<1>1. NioInv => StreamInOrder
  <2> SUFFICES ASSUME NioInv, cancel = 0, NEW c \in Channels
               PROVE  /\ wire[c] # << >> /\ HasInitial => wire[c][1] = 1
                      /\ \A i \in 1..Len(wire[c]) - 1 :
                           LET a == wire[c][i]
                               b == wire[c][i + 1]
                           IN  b = a + 1 \/ (b > a /\ a % Size = 0 /\ b % Size = 1 % Size)
    BY DEF StreamInOrder
  <2>1. CASE c # channel
    BY <2>1 DEF NioInv, StreamInv
  <2>2. CASE c = channel
    <3>1. channel # None
      BY <2>2, Sizes DEF Channels, None
    <3>2. Ordered(wire[c]) /\ Begins(wire[c])
      BY <2>2, <3>1 DEF NioInv, StreamInv
    <3> QED
      BY <3>2 DEF Ordered, Begins, Follows, IsEnd, IsStart
  <2> QED
    BY <2>1, <2>2
<1> QED
  BY <1>1, NioInvariant, PTL

=============================================================================
