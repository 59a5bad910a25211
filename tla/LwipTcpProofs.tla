--------------------------- MODULE LwipTcpProofs ---------------------------
(***************************************************************************)
(* The safety of LwipTcp for every sequence space, window, buffer and      *)
(* stream length: both streams arrive in order, what is acknowledged was   *)
(* given to the tunnel, the receive window is conserved, the announced     *)
(* edge never moves back, and lwIP calls back exactly the connections that *)
(* the tunnel holds.                                                       *)
(*                                                                         *)
(* All follow from one inductive invariant, LwipInv: what the control      *)
(* block, the tunnel's object, the kernel and the two directions of the    *)
(* link say of each other.  A call into lwIP passes through many           *)
(* operators; Alive, Mid, Ready and After say what holds between them, so  *)
(* each operator has a lemma of its own and each action combines them.     *)
(***************************************************************************)
EXTENDS LwipTcp, TLAPS, FiniteSetTheorems, SequenceTheorems, WellFoundedInduction

-----------------------------------------------------------------------------
(* Arithmetic modulo SeqMod.                                               *)

LEMMA ModUnique ==
  ASSUME NEW M \in Nat \ {0}, NEW q \in Int, NEW r \in 0..(M - 1)
  PROVE  (M * q + r) % M = r
  OBVIOUS

LEMMA ModNear ==
  ASSUME NEW M \in Nat \ {0}, NEW a \in Int
  PROVE  /\ a \in 0..(M - 1) => a % M = a
         /\ a \in M..(2 * M - 1) => a % M = a - M
         /\ a \in (- M)..(- 1) => a % M = a + M
<1>1. a \in 0..(M - 1) => a % M = a
  BY ModUnique, a = M * 0 + a
<1>2. ASSUME a \in M..(2 * M - 1) PROVE a % M = a - M
  <2>1. PICK r : r = a - M
    OBVIOUS
  <2>2. r \in 0..(M - 1) /\ a = M * 1 + r
    BY <1>2, <2>1
  <2>3. (M * 1 + r) % M = r
    BY <2>2, ModUnique
  <2> QED
    BY <2>1, <2>2, <2>3
<1>3. ASSUME a \in (- M)..(- 1) PROVE a % M = a + M
  <2>1. PICK r : r = a + M
    OBVIOUS
  <2>2. r \in 0..(M - 1) /\ a = M * (- 1) + r
    BY <1>3, <2>1
  <2>3. (M * (- 1) + r) % M = r
    BY <2>2, ModUnique
  <2> QED
    BY <2>1, <2>2, <2>3
<1> QED
  BY <1>1, <1>2, <1>3

(* What the assumptions on the constants say, as linear facts. *)
Half == SeqMod \div 2

LEMMA Constants ==
  /\ SeqMod \in Nat \ {0} /\ Half \in Nat /\ SeqMod = 2 * Half
  /\ TCP_MSS \in Nat \ {0} /\ TCP_SND_BUF \in Nat \ {0} /\ TCP_WND \in Nat \ {0}
  /\ TCP_MAXRTX \in Nat \ {0} /\ WndUnit \in Nat \ {0} /\ MaxWndField \in Nat \ {0}
  /\ Half > TCP_SND_BUF + 2 /\ Half > TCP_WND + 2
  /\ Down \in Nat /\ Up \in Nat /\ Half > Down + 2 /\ Half > Up + 2
  /\ PeerBuf \in Nat \ {0}
  /\ LwipIss \in SeqNumbers /\ PeerIss \in SeqNumbers
<1>1. SeqMod \in Nat /\ SeqMod % 2 = 0 /\ TCP_SND_BUF \in Nat \ {0}
  BY TcpConstants
<1>2. Half \in Nat /\ SeqMod = 2 * Half
  BY <1>1 DEF Half
<1> QED
  BY <1>1, <1>2, TcpConstants, LwipTcpConstants DEF Half, SeqNumbers

LEMMA AddNear ==
  ASSUME NEW s \in SeqNumbers, NEW n \in (- 1)..(SeqMod - 1)
  PROVE  /\ SeqAdd(s, n) \in SeqNumbers
         /\ s + n >= 0 /\ s + n < SeqMod => SeqAdd(s, n) = s + n
         /\ s + n >= SeqMod => SeqAdd(s, n) = s + n - SeqMod
         /\ s + n < 0 => SeqAdd(s, n) = s + n + SeqMod
<1>1. PICK x : x = s + n
  OBVIOUS
<1>2. PICK M : M = SeqMod
  OBVIOUS
<1>3. M \in Nat \ {0} /\ M >= 2 /\ s \in 0..(M - 1) /\ n \in (- 1)..(M - 1) /\ x \in Int
  BY <1>1, <1>2, Constants DEF SeqNumbers
<1>4. SeqAdd(s, n) = x % M
  BY <1>1, <1>2 DEF SeqAdd
<1>5. /\ x \in 0..(M - 1) => x % M = x
      /\ x \in M..(2 * M - 1) => x % M = x - M
      /\ x \in (- M)..(- 1) => x % M = x + M
  BY <1>3, ModNear
<1>6. PICK y : y = x % M
  OBVIOUS
<1>7. /\ y \in 0..(M - 1)
      /\ s + n >= 0 /\ s + n < M => y = s + n
      /\ s + n >= M => y = s + n - M
      /\ s + n < 0 => y = s + n + M
  BY <1>1, <1>3, <1>5, <1>6
<1> QED
  BY <1>2, <1>4, <1>6, <1>7 DEF SeqNumbers

LEMMA DiffNear ==
  ASSUME NEW a \in SeqNumbers, NEW b \in SeqNumbers
  PROVE  /\ SeqDiff(a, b) \in SeqNumbers
         /\ a >= b => SeqDiff(a, b) = a - b
         /\ a < b => SeqDiff(a, b) = a - b + SeqMod
<1>1. PICK x : x = a - b
  OBVIOUS
<1>2. PICK M : M = SeqMod
  OBVIOUS
<1>3. M \in Nat \ {0} /\ a \in 0..(M - 1) /\ b \in 0..(M - 1) /\ x \in Int
  BY <1>1, <1>2, Constants DEF SeqNumbers
<1>4. SeqDiff(a, b) = x % M
  BY <1>1, <1>2 DEF SeqDiff
<1>5. /\ x \in 0..(M - 1) => x % M = x
      /\ x \in (- M)..(- 1) => x % M = x + M
  BY <1>3, ModNear
<1>6. PICK y : y = x % M
  OBVIOUS
<1>7. /\ y \in 0..(M - 1)
      /\ a >= b => y = a - b
      /\ a < b => y = a - b + M
  BY <1>1, <1>3, <1>5, <1>6
<1> QED
  BY <1>2, <1>4, <1>6, <1>7 DEF SeqNumbers

(* Positions: how far a sequence number is after a base. *)
LEMMA AddPosition ==
  ASSUME NEW base \in SeqNumbers, NEW s \in SeqNumbers, NEW n \in Nat,
         SeqDiff(s, base) + n < SeqMod
  PROVE  SeqAdd(s, n) \in SeqNumbers /\ SeqDiff(SeqAdd(s, n), base) = SeqDiff(s, base) + n
<1>1. n \in (- 1)..(SeqMod - 1)
  BY DiffNear, Constants DEF SeqNumbers
<1>2. PICK t : t = SeqAdd(s, n)
  OBVIOUS
<1>3. t \in SeqNumbers
  BY <1>1, <1>2, AddNear
<1>4. PICK M : M = SeqMod
  OBVIOUS
<1>5. PICK d : d = SeqDiff(s, base)
  OBVIOUS
<1>6. PICK e : e = SeqDiff(t, base)
  OBVIOUS
<1>7. M \in Nat /\ s \in 0..(M - 1) /\ base \in 0..(M - 1) /\ t \in 0..(M - 1) /\ d + n < M
  BY <1>3, <1>4, <1>5, Constants DEF SeqNumbers
<1>8. /\ d \in 0..(M - 1) /\ e \in 0..(M - 1)
      /\ s >= base => d = s - base
      /\ s < base => d = s - base + M
      /\ t >= base => e = t - base
      /\ t < base => e = t - base + M
  BY <1>3, <1>4, <1>5, <1>6, DiffNear DEF SeqNumbers
<1>9. /\ s + n < M => t = s + n
      /\ s + n >= M => t = s + n - M
  BY <1>1, <1>2, <1>4, <1>7, AddNear
<1>10. e = d + n
  BY <1>7, <1>8, <1>9
<1> QED
  BY <1>2, <1>3, <1>5, <1>6, <1>10

LEMMA BasePosition ==
  ASSUME NEW base \in SeqNumbers
  PROVE  /\ SeqDiff(base, base) = 0
         /\ \A n \in SeqNumbers : SeqAdd(base, n) \in SeqNumbers /\ SeqDiff(SeqAdd(base, n), base) = n
<1>1. SeqDiff(base, base) = 0
  BY DiffNear DEF SeqNumbers
<1>2. ASSUME NEW n \in SeqNumbers
      PROVE  SeqAdd(base, n) \in SeqNumbers /\ SeqDiff(SeqAdd(base, n), base) = n
  <2>1. n \in Nat /\ SeqDiff(base, base) + n < SeqMod
    BY <1>1, <1>2, Constants DEF SeqNumbers
  <2> QED
    BY <1>1, <2>1, AddPosition
<1> QED
  BY <1>1, <1>2

LEMMA DiffPosition ==
  ASSUME NEW base \in SeqNumbers, NEW a \in SeqNumbers, NEW b \in SeqNumbers
  PROVE  /\ SeqDiff(a, base) >= SeqDiff(b, base)
              => SeqDiff(a, b) = SeqDiff(a, base) - SeqDiff(b, base)
         /\ SeqDiff(a, base) < SeqDiff(b, base)
              => SeqDiff(a, b) = SeqDiff(a, base) - SeqDiff(b, base) + SeqMod
<1>1. PICK M : M = SeqMod
  OBVIOUS
<1>2. PICK x : x = SeqDiff(a, base)
  OBVIOUS
<1>3. PICK y : y = SeqDiff(b, base)
  OBVIOUS
<1>4. PICK z : z = SeqDiff(a, b)
  OBVIOUS
<1>5. M \in Nat /\ a \in 0..(M - 1) /\ b \in 0..(M - 1) /\ base \in 0..(M - 1)
  BY <1>1, Constants DEF SeqNumbers
<1>6. /\ a >= base => x = a - base
      /\ a < base => x = a - base + M
  BY <1>1, <1>2, DiffNear
<1>7. /\ b >= base => y = b - base
      /\ b < base => y = b - base + M
  BY <1>1, <1>3, DiffNear
<1>8. /\ a >= b => z = a - b
      /\ a < b => z = a - b + M
  BY <1>1, <1>4, DiffNear
<1>9. (x >= y => z = x - y) /\ (x < y => z = x - y + M)
  BY <1>5, <1>6, <1>7, <1>8
<1> QED
  BY <1>1, <1>2, <1>3, <1>4, <1>9

LEMMA SamePosition ==
  ASSUME NEW base \in SeqNumbers, NEW a \in SeqNumbers, NEW b \in SeqNumbers,
         SeqDiff(a, base) = SeqDiff(b, base)
  PROVE  a = b
<1>1. PICK M : M = SeqMod
  OBVIOUS
<1>2. PICK x : x = SeqDiff(a, base)
  OBVIOUS
<1>3. x = SeqDiff(b, base)
  BY <1>2
<1>4. M \in Nat /\ a \in 0..(M - 1) /\ b \in 0..(M - 1) /\ base \in 0..(M - 1)
  BY <1>1, Constants DEF SeqNumbers
<1>5. /\ a >= base => x = a - base
      /\ a < base => x = a - base + M
  BY <1>1, <1>2, DiffNear
<1>6. /\ b >= base => x = b - base
      /\ b < base => x = b - base + M
  BY <1>1, <1>3, DiffNear
<1> QED
  BY <1>4, <1>5, <1>6

(* Serial-number comparison is comparison of positions less than Half apart. *)
LEMMA BeforePosition ==
  ASSUME NEW base \in SeqNumbers, NEW a \in SeqNumbers, NEW b \in SeqNumbers,
         SeqDiff(a, base) - SeqDiff(b, base) < Half,
         SeqDiff(b, base) - SeqDiff(a, base) <= Half
  PROVE  TCP_SEQ_LT(a, b) <=> SeqDiff(a, base) < SeqDiff(b, base)
<1>1. SeqDiff(a, base) \in SeqNumbers /\ SeqDiff(b, base) \in SeqNumbers
  BY DiffNear
<1>2. TCP_SEQ_LT(a, b) <=> SeqDiff(a, b) >= Half
  BY DEF TCP_SEQ_LT, Half
<1> QED
  BY <1>1, <1>2, DiffPosition, Constants DEF SeqNumbers

-----------------------------------------------------------------------------
(* The inductive invariant.  Positions of the client's stream are counted  *)
(* from PeerIss as those of the tunnel's are from LwipIss (PosOf).         *)

UpPos(seq) == SeqDiff(seq, PeerIss)

SegType ==
    [seq : SeqNumbers, data : Seq(Nat), syn : BOOLEAN, fin : BOOLEAN,
     rst : BOOLEAN, isAck : BOOLEAN, ack : SeqNumbers, wnd : Nat]

(* The bytes of a segment are the ones its sequence number says, of n. *)
Carries(seg, base, n) ==
    \A i \in 1..Len(seg.data) :
        seg.data[i] = SeqDiff(seg.seq, base) + i - 1 /\ seg.data[i] \in 1..n

(* mss_local, for the window of every peer's SYN. *)
Mss ==
    LET half == Smaller(TCP_MSS, PeerBuf \div 2)
    IN  IF half = 0 THEN TCP_MSS ELSE half

DownSeg(seg, w) == seg \in SegType /\ Len(seg.data) <= Mss /\ Carries(seg, LwipIss, w)

(* The right edge a segment announces. *)
EdgeOf(seg) == UpPos(seg.ack) + seg.wnd

UpSeg(seg) ==
    /\ seg \in SegType /\ seg.wnd <= PeerBuf /\ Carries(seg, PeerIss, Up)
    /\ seg.syn \/ seg.isAck
    /\ seg.syn => /\ ~ seg.fin /\ ~ seg.rst /\ ~ seg.isAck
                  /\ seg.seq = PeerIss /\ seg.wnd = PeerBuf /\ seg.data = << >>
    /\ seg.fin => UpPos(seg.seq) + Len(seg.data) = Up + 1
    /\ ~ seg.rst => UpPos(seg.seq) + TCP_TCPLEN(seg) <= Up + 2

Fields == DOMAIN tcp_alloc

Ctl(p) ==
    /\ DOMAIN p = Fields /\ p.state \in States
    /\ p.cb \in BOOLEAN /\ p.rxclosed \in BOOLEAN /\ p.closepend \in BOOLEAN
    /\ p.inInput \in BOOLEAN /\ p.tfClosed \in BOOLEAN
    /\ p.cb => p.state \in {"ESTABLISHED", "CLOSE_WAIT"} /\ ~ p.rxclosed /\ ~ p.closepend

(* What was received and the window announced for more. *)
RcvOK(p) ==
    /\ p.rcv_nxt \in SeqNumbers /\ p.right_edge \in SeqNumbers
    /\ UpPos(p.rcv_nxt) \in 1..(Up + 2)
    /\ p.rcv_wnd \in 0..TCP_WND /\ p.rcv_ann_wnd \in 0..p.rcv_wnd
    /\ UpPos(p.right_edge) \in (1 + TCP_WND)..(UpPos(p.rcv_nxt) + p.rcv_ann_wnd)

(* Segments of the queues: none ends after what was written. *)
EndPos(seg) == PosOf(seg.seq) + Len(seg.data)

QueueSet(w) == {x \in SegType : DownSeg(x, w) /\ EndPos(x) <= w + 1}

(* The last unsent segment, when it has room, ends where the next byte     *)
(* written begins, and no other segment ends after its start.              *)
Spare(p, w) ==
    p.oversize > 0 =>
      /\ p.unsent # << >>
      /\ LET last == p.unsent[Len(p.unsent)]
         IN  /\ EndPos(last) = w + 1 /\ Len(last.data) + p.oversize <= Mss
             /\ \A i \in 1..(Len(p.unsent) - 1) : EndPos(p.unsent[i]) <= PosOf(last.seq)
             /\ \A i \in 1..Len(p.unacked) : EndPos(p.unacked[i]) <= PosOf(last.seq)

DownSegs(list, w) == list \in Seq(SegType) /\ \A i \in 1..Len(list) : DownSeg(list[i], w)

SndOK(p, w) ==
    /\ p.snd_nxt \in SeqNumbers /\ p.snd_lbb \in SeqNumbers /\ p.lastack \in SeqNumbers
    /\ p.oversize \in Nat /\ p.snd_wnd \in Nat /\ p.snd_wnd_max = PeerBuf
    /\ p.unsent \in Seq(QueueSet(w)) /\ p.unacked \in Seq(QueueSet(w))
    /\ Spare(p, w)

(* What was given to the network: e and k bound the edges and the          *)
(* acknowledgements.  A header rounds its window down, so an edge may be   *)
(* behind an earlier one, by less than a unit; a SYN counts in bytes, cut  *)
(* to its field, and may be further behind.                                *)
Announces(list, e) ==
    /\ \A i \in 1..Len(list) : ~ list[i].rst =>
          /\ UpPos(list[i].ack) \in 1..(Up + 2)
          /\ ~ list[i].syn => EdgeOf(list[i]) + WndUnit > e
    /\ \A i \in 1..Len(list), j \in 1..Len(list) :
          i < j /\ ~ list[i].rst /\ ~ list[j].rst /\ ~ list[j].syn =>
             EdgeOf(list[i]) < EdgeOf(list[j]) + WndUnit

(* What a segment tells of the window a control block announces. *)
Tells(p, seg) ==
    /\ seg.ack = p.rcv_nxt /\ seg.wnd <= p.rcv_ann_wnd
    /\ ~ seg.syn => p.rcv_ann_wnd < seg.wnd + WndUnit

Below(list, k, e) ==
    \A i \in 1..Len(list) : ~ list[i].rst => UpPos(list[i].ack) <= k /\ EdgeOf(list[i]) <= e

OutOK(p, w, e) ==
    /\ DownSegs(p.out, w) /\ Announces(p.out, e)
    /\ Below(p.out, UpPos(p.rcv_nxt), UpPos(p.right_edge))
    /\ e <= UpPos(p.right_edge)

Alive(p, w, e) == RcvOK(p) /\ SndOK(p, w) /\ OutOK(p, w, e)

(* How far the tunnel has been given the client's stream. *)
Given(a) == 1 + Len(a.got) + a.fins

AppOK(a) ==
    /\ DOMAIN a = DOMAIN AppInit
    /\ a.opened \in BOOLEAN /\ a.closed \in BOOLEAN
    /\ a.wrote \in 0..Down /\ a.owed \in Nat /\ a.got \in Seq(Nat)
    /\ a.fins \in 0..1 /\ a.errs \in 0..1
    /\ Len(a.got) <= Up /\ \A i \in 1..Len(a.got) : a.got[i] = i
    /\ a.fins = 1 => Len(a.got) = Up
    /\ a.closed => a.opened
    /\ a.errs > 0 => a.closed
    /\ ~ a.opened => a.wrote = 0 /\ a.owed = 0 /\ a.got = << >> /\ a.fins = 0

(* The control block and the tunnel's object. *)
Held(p, a) ==
    /\ p.cb => UpPos(p.rcv_nxt) = Given(a) /\ p.rcv_wnd + a.owed = TCP_WND
    /\ p.state \in {"SYN_RCVD", "ESTABLISHED", "CLOSE_WAIT"} => PosOf(p.snd_lbb) = a.wrote + 1

SynRcvd(p, a) ==
    /\ p.state \notin {"CLOSED", "SYN_RCVD"} => a.opened
    /\ p.state = "SYN_RCVD" =>
         /\ ~ p.rxclosed /\ ~ p.closepend /\ ~ a.opened
         /\ p.lastack = LwipIss /\ UpPos(p.rcv_nxt) = 1
         /\ p.rcv_wnd = TCP_WND /\ p.rcv_ann_wnd = TCP_WND

PcbInv ==
    /\ Ctl(pcb) /\ AppOK(app)
    /\ ~ pcb.inInput /\ ~ pcb.tfClosed /\ pcb.out = << >>
    /\ pcb.state # "CLOSED" => Alive(pcb, app.wrote, UpPos(pcb.right_edge))
    /\ pcb.cb <=> app.opened /\ ~ app.closed
    /\ Held(pcb, app) /\ SynRcvd(pcb, app)

PeerInv ==
    /\ DOMAIN peer = {"st", "una", "nxt", "rcv", "edge", "top", "got", "unread", "fin"}
    /\ peer.st \in {"closed", "syn", "open", "reset"}
    /\ peer.rcv \in Nat /\ peer.got \in Seq(Nat) /\ peer.fin \in BOOLEAN
    /\ peer.edge \in Nat /\ peer.top \in Nat /\ peer.edge + WndUnit > peer.top
    /\ peer.unread \in 0..PeerBuf
    /\ peer.una \in 0..(Up + 2) /\ peer.nxt \in peer.una..(Up + 2)
    /\ Len(peer.got) <= app.wrote /\ \A i \in 1..Len(peer.got) : peer.got[i] = i
    /\ peer.st = "closed" => up = << >> /\ down = << >> /\ pcb.state = "CLOSED"
    /\ peer.st \in {"closed", "syn"} =>
         peer.rcv = 0 /\ peer.got = << >> /\ ~ peer.fin /\ peer.unread = 0
    /\ peer.st = "open" =>
         peer.rcv = 1 + Len(peer.got) + (IF peer.fin THEN 1 ELSE 0) /\ peer.una >= 1

UpInv ==
    /\ up \in Seq(SegType) /\ \A i \in 1..Len(up) : UpSeg(up[i])
    /\ \A i \in 1..Len(up) :
         up[i].isAck /\ ~ up[i].rst /\ up[i].ack # LwipIss =>
           peer.st \in {"open", "reset"} /\ \A j \in i..Len(up) : ~ up[j].syn
    /\ app.opened =>
         peer.st \in {"open", "reset"} /\ \A i \in 1..Len(up) : ~ up[i].syn

DownInv ==
    /\ DownSegs(down, app.wrote) /\ Announces(down, 0)
    /\ pcb.state # "CLOSED" => Below(down, Up + 2, UpPos(pcb.right_edge))
    /\ peer.st = "open" => Announces(down, peer.top)
    /\ peer.st = "open" /\ pcb.state # "CLOSED" => peer.top <= UpPos(pcb.right_edge)
    /\ ~ app.opened => Below(down, 1, 1 + TCP_WND) /\ peer.top <= 1 + TCP_WND
    /\ ~ app.closed => peer.una <= Given(app)
    /\ ~ app.closed =>
         \A i \in 1..Len(down) : ~ down[i].rst => UpPos(down[i].ack) <= Given(app)

LwipInv == PcbInv /\ PeerInv /\ UpInv /\ DownInv


-----------------------------------------------------------------------------
(* Sequences of segments.                                                  *)

LEMMA Joined ==
  ASSUME NEW T, NEW s \in Seq(T), NEW t \in Seq(T)
  PROVE  /\ s \o t \in Seq(T) /\ Len(s \o t) = Len(s) + Len(t)
         /\ Len(s) \in Nat /\ Len(t) \in Nat
         /\ \A i \in 1..(Len(s) + Len(t)) :
              \/ i \in 1..Len(s) /\ (s \o t)[i] = s[i]
              \/ i - Len(s) \in 1..Len(t) /\ (s \o t)[i] = t[i - Len(s)]
<1>1. s \o t \in Seq(T) /\ Len(s \o t) = Len(s) + Len(t) /\ Len(s) \in Nat /\ Len(t) \in Nat
  OBVIOUS
<1>2. ASSUME NEW i \in 1..(Len(s) + Len(t))
      PROVE  \/ i \in 1..Len(s) /\ (s \o t)[i] = s[i]
             \/ i - Len(s) \in 1..Len(t) /\ (s \o t)[i] = t[i - Len(s)]
  BY <1>1
<1> QED
  BY <1>1, <1>2

LEMMA JoinDownSegs ==
  ASSUME NEW w, NEW s, NEW t, DownSegs(s, w), DownSegs(t, w)
  PROVE  DownSegs(s \o t, w)
<1>1. s \in Seq(SegType) /\ t \in Seq(SegType)
  BY DEF DownSegs
<1>2. PICK u : u = s \o t
  OBVIOUS
<1>3. /\ u \in Seq(SegType) /\ Len(u) = Len(s) + Len(t)
      /\ \A i \in 1..(Len(s) + Len(t)) :
              \/ i \in 1..Len(s) /\ u[i] = s[i]
              \/ i - Len(s) \in 1..Len(t) /\ u[i] = t[i - Len(s)]
  BY <1>1, <1>2, Joined
<1>4. ASSUME NEW i \in 1..Len(u) PROVE DownSeg(u[i], w)
  <2>1. CASE i \in 1..Len(s) /\ u[i] = s[i]
    BY <2>1 DEF DownSegs
  <2>2. CASE i - Len(s) \in 1..Len(t) /\ u[i] = t[i - Len(s)]
    BY <2>2 DEF DownSegs
  <2> QED
    BY <1>3, <2>1, <2>2
<1> QED
  BY <1>2, <1>3, <1>4 DEF DownSegs

(* What is announced after a list, at or above its edges. *)
LEMMA JoinAnnounces ==
  ASSUME NEW s \in Seq(SegType), NEW t \in Seq(SegType), NEW d \in Int, NEW e \in Int, NEW k,
         Announces(s, d), Below(s, k, e), Announces(t, e), d <= e
  PROVE  Announces(s \o t, d)
<1>2. PICK u : u = s \o t
  OBVIOUS
<1>3. /\ u \in Seq(SegType) /\ Len(u) = Len(s) + Len(t) /\ Len(s) \in Nat /\ Len(t) \in Nat
      /\ \A i \in 1..(Len(s) + Len(t)) :
              \/ i \in 1..Len(s) /\ u[i] = s[i]
              \/ i - Len(s) \in 1..Len(t) /\ u[i] = t[i - Len(s)]
  BY <1>2, Joined
<1>4. \A x \in SegType : EdgeOf(x) \in Int
  <2> SUFFICES ASSUME NEW x \in SegType PROVE EdgeOf(x) \in Int
    OBVIOUS
  <2>1. x.ack \in SeqNumbers /\ x.wnd \in Nat
    BY DEF SegType
  <2>2. SeqDiff(x.ack, PeerIss) \in SeqNumbers
    BY <2>1, DiffNear, Constants
  <2>3. SeqDiff(x.ack, PeerIss) \in Int
    BY <2>2 DEF SeqNumbers
  <2> QED
    BY <2>1, <2>3 DEF EdgeOf, UpPos
<1>5. \A i \in 1..Len(s) : EdgeOf(s[i]) \in Int
  BY <1>4
<1>6. \A i \in 1..Len(t) : EdgeOf(t[i]) \in Int
  BY <1>4
<1>7. ASSUME NEW i \in 1..Len(u), ~ u[i].rst
      PROVE  UpPos(u[i].ack) \in 1..(Up + 2) /\ (~ u[i].syn => EdgeOf(u[i]) + WndUnit > d)
  <2>1. CASE i \in 1..Len(s) /\ u[i] = s[i]
    BY <1>7, <2>1 DEF Announces
  <2>2. CASE i - Len(s) \in 1..Len(t) /\ u[i] = t[i - Len(s)]
    <3>1. PICK j : j = i - Len(s)
      OBVIOUS
    <3>2. /\ UpPos(t[j].ack) \in 1..(Up + 2) /\ (~ t[j].syn => EdgeOf(t[j]) + WndUnit > e)
          /\ EdgeOf(t[j]) \in Int
      BY <1>6, <1>7, <2>2, <3>1 DEF Announces
    <3> QED
      BY <2>2, <3>1, <3>2, Constants
  <2> QED
    BY <1>3, <2>1, <2>2
<1>8. ASSUME NEW i \in 1..Len(u), NEW j \in 1..Len(u), i < j, ~ u[i].rst, ~ u[j].rst, ~ u[j].syn
      PROVE  EdgeOf(u[i]) < EdgeOf(u[j]) + WndUnit
  <2>1. CASE j \in 1..Len(s) /\ u[j] = s[j]
    <3>1. i \in 1..Len(s) /\ u[i] = s[i]
      BY <1>3, <1>8, <2>1
    <3> QED
      BY <1>8, <2>1, <3>1 DEF Announces
  <2>2. CASE i \in 1..Len(s) /\ u[i] = s[i] /\ j - Len(s) \in 1..Len(t) /\ u[j] = t[j - Len(s)]
    <3>1. EdgeOf(u[i]) <= e
      BY <1>8, <2>2 DEF Below
    <3>2. EdgeOf(u[j]) + WndUnit > e
      BY <1>8, <2>2 DEF Announces
    <3> QED
      BY <1>5, <1>6, <2>2, <3>1, <3>2, Constants, SMTT(30)
  <2>3. CASE i - Len(s) \in 1..Len(t) /\ u[i] = t[i - Len(s)] /\ j - Len(s) \in 1..Len(t) /\ u[j] = t[j - Len(s)]
    <3>1. PICK m : m = i - Len(s)
      OBVIOUS
    <3>2. PICK l : l = j - Len(s)
      OBVIOUS
    <3>3. m \in 1..Len(t) /\ l \in 1..Len(t) /\ m < l /\ u[i] = t[m] /\ u[j] = t[l]
      BY <1>8, <2>3, <3>1, <3>2
    <3> QED
      BY <1>8, <3>3 DEF Announces
  <2> QED
    BY <1>3, <1>8, <2>1, <2>2, <2>3
<1> QED
  BY <1>2, <1>7, <1>8 DEF Announces

LEMMA JoinBelow ==
  ASSUME NEW s \in Seq(SegType), NEW t \in Seq(SegType), NEW k, NEW e,
         Below(s, k, e), Below(t, k, e)
  PROVE  Below(s \o t, k, e)
<1>2. PICK u : u = s \o t
  OBVIOUS
<1>3. /\ u \in Seq(SegType) /\ Len(u) = Len(s) + Len(t)
      /\ \A i \in 1..(Len(s) + Len(t)) :
              \/ i \in 1..Len(s) /\ u[i] = s[i]
              \/ i - Len(s) \in 1..Len(t) /\ u[i] = t[i - Len(s)]
  BY <1>2, Joined
<1> QED
  BY <1>2, <1>3 DEF Below


LEMMA Positions ==
  ASSUME NEW s \in SeqNumbers
  PROVE  /\ UpPos(s) \in SeqNumbers /\ UpPos(s) \in Nat
         /\ PosOf(s) \in SeqNumbers /\ PosOf(s) \in Nat
<1>1. UpPos(s) \in SeqNumbers /\ PosOf(s) \in SeqNumbers
  BY DiffNear, Constants DEF UpPos, PosOf
<1> QED
  BY <1>1, Constants DEF SeqNumbers

LEMMA Small ==
  /\ 0 \in SeqNumbers /\ 1 \in SeqNumbers
  /\ \A n \in 0..(Up + 2) : n \in SeqNumbers
  /\ \A n \in 0..(Down + 2) : n \in SeqNumbers
  BY Constants DEF SeqNumbers

LEMMA AnySeq ==
  ASSUME NEW a \in Int, NEW n \in Int
  PROVE  SeqAdd(a, n) \in SeqNumbers
  BY Constants DEF SeqAdd, SeqNumbers

-----------------------------------------------------------------------------
(* Segments.                                                               *)

LEMMA SegmentFields ==
  ASSUME NEW x \in SegType
  PROVE  /\ x.seq \in SeqNumbers /\ x.data \in Seq(Nat) /\ Len(x.data) \in Nat
         /\ x.syn \in BOOLEAN /\ x.fin \in BOOLEAN /\ x.rst \in BOOLEAN /\ x.isAck \in BOOLEAN
         /\ x.ack \in SeqNumbers /\ x.wnd \in Nat
         /\ TCP_TCPLEN(x) \in Nat
         /\ TCP_TCPLEN(x) = IF x.syn \/ x.fin THEN Len(x.data) + 1 ELSE Len(x.data)
         /\ DOMAIN x = {"seq", "data", "syn", "fin", "rst", "isAck", "ack", "wnd"}
<1>1. /\ x.seq \in SeqNumbers /\ x.data \in Seq(Nat)
      /\ x.syn \in BOOLEAN /\ x.fin \in BOOLEAN /\ x.rst \in BOOLEAN /\ x.isAck \in BOOLEAN
      /\ x.ack \in SeqNumbers /\ x.wnd \in Nat
      /\ DOMAIN x = {"seq", "data", "syn", "fin", "rst", "isAck", "ack", "wnd"}
  BY DEF SegType
<1>2. Len(x.data) \in Nat
  BY <1>1
<1> QED
  BY <1>1, <1>2 DEF TCP_TCPLEN

LEMMA SegEndType ==
  ASSUME NEW x \in SegType
  PROVE  SegEnd(x) \in SeqNumbers
<1>1. x.seq \in Int /\ TCP_TCPLEN(x) \in Int
  BY SegmentFields DEF SeqNumbers
<1> QED
  BY <1>1, AnySeq DEF SegEnd

LEMMA SegmentIs ==
  ASSUME NEW s \in SeqNumbers, NEW d \in Seq(Nat), NEW syn \in BOOLEAN, NEW fin \in BOOLEAN,
         NEW x, x = Segment(s, d, syn, fin)
  PROVE  /\ x \in SegType /\ x.seq = s /\ x.data = d /\ x.syn = syn /\ x.fin = fin
         /\ x.rst = FALSE /\ x.isAck = FALSE /\ x.ack = 0 /\ x.wnd = 0
  BY Small DEF Segment, SegType

LEMMA EmptySegmentIs ==
  ASSUME NEW s \in SeqNumbers, NEW x, x = Segment(s, << >>, FALSE, FALSE)
  PROVE  /\ x \in SegType /\ x.seq = s /\ x.data = << >> /\ x.syn = FALSE /\ x.fin = FALSE
         /\ x.rst = FALSE /\ x.isAck = FALSE /\ x.ack = 0 /\ x.wnd = 0
<1>1. PICK d : d = << >>
  OBVIOUS
<1>2. d \in Seq(Nat)
  BY <1>1
<1>3. x = Segment(s, d, FALSE, FALSE)
  BY <1>1
<1> QED
  BY <1>1, <1>2, <1>3, Small DEF Segment, SegType

(* The header's window is the one announced, short of less than a unit. *)
LEMMA ScaleIs ==
  ASSUME NEW b \in Nat
  PROVE  /\ RCV_WND_SCALE(b) \in Nat /\ RCV_WND_SCALE(b) <= b
         /\ b < RCV_WND_SCALE(b) + WndUnit
<1>1. PICK m : m = WndUnit
  OBVIOUS
<1>2. m \in Nat \ {0}
  BY <1>1, Constants
<1>3. b % m \in 0..(m - 1) /\ b % m <= b
  BY <1>2
<1> QED
  BY <1>1, <1>2, <1>3 DEF RCV_WND_SCALE

LEMMA WndFieldIs ==
  ASSUME NEW p, NEW x, p.rcv_ann_wnd \in Nat, NEW c, c = WndField(p, x)
  PROVE  /\ c \in Nat /\ c <= p.rcv_ann_wnd
         /\ ~ x.syn => p.rcv_ann_wnd < c + WndUnit
<1>1. CASE x.syn
  BY <1>1, Constants DEF WndField, Smaller
<1>2. CASE ~ x.syn
  <2>1. c = RCV_WND_SCALE(p.rcv_ann_wnd)
    BY <1>2 DEF WndField
  <2> QED
    BY <2>1, ScaleIs
<1> QED
  BY <1>1, <1>2

LEMMA AnnounceIs ==
  ASSUME NEW p, NEW x \in SegType, p.rcv_nxt \in SeqNumbers, p.rcv_ann_wnd \in Nat,
         NEW y, y = Announce(p, x)
  PROVE  /\ y \in SegType /\ y.seq = x.seq /\ y.data = x.data /\ y.syn = x.syn /\ y.fin = x.fin
         /\ y.rst = x.rst /\ y.isAck /\ Tells(p, y)
<1>1. PICK a : a = p.rcv_nxt
  OBVIOUS
<1>2. PICK b : b = WndField(p, x)
  OBVIOUS
<1>3. y = [x EXCEPT !.isAck = TRUE, !.ack = a, !.wnd = b]
  BY <1>1, <1>2 DEF Announce
<1>4. b \in Nat /\ b <= p.rcv_ann_wnd /\ (~ x.syn => p.rcv_ann_wnd < b + WndUnit)
  BY <1>2, WndFieldIs
<1>5. /\ y \in SegType /\ y.seq = x.seq /\ y.data = x.data /\ y.syn = x.syn /\ y.fin = x.fin
      /\ y.rst = x.rst /\ y.isAck /\ y.ack = a /\ y.wnd = b
  BY <1>1, <1>3, <1>4 DEF SegType
<1>6. Tells(p, y)
  BY <1>1, <1>4, <1>5 DEF Tells
<1> QED
  BY <1>5, <1>6

LEMMA RstIs ==
  ASSUME NEW s \in SeqNumbers, NEW a \in SeqNumbers, NEW x, x = RstSegment(s, a)
  PROVE  /\ x \in SegType /\ x.seq = s /\ x.data = << >> /\ ~ x.syn /\ ~ x.fin
         /\ x.rst /\ x.isAck /\ x.ack = a /\ x.wnd = 0
<1>1. PICK y : y = Segment(s, << >>, FALSE, FALSE)
  OBVIOUS
<1>2. /\ y \in SegType /\ y.seq = s /\ y.data = << >> /\ y.syn = FALSE /\ y.fin = FALSE /\ y.wnd = 0
  BY <1>1, EmptySegmentIs
<1>3. x = [y EXCEPT !.rst = TRUE, !.isAck = TRUE, !.ack = a]
  BY <1>1 DEF RstSegment
<1> QED
  BY <1>2, <1>3 DEF SegType

(* A segment without data carries whatever is asked of it. *)
LEMMA EmptyDownSeg ==
  ASSUME NEW x \in SegType, x.data = << >>, NEW w
  PROVE  DownSeg(x, w)
<1>1. Len(x.data) = 0
  OBVIOUS
<1>2. Mss \in Nat
  BY Constants DEF Mss, Smaller
<1> QED
  BY <1>1, <1>2 DEF DownSeg, Carries

LEMMA SameDownSeg ==
  ASSUME NEW x \in SegType, NEW y \in SegType, NEW w, DownSeg(x, w),
         y.seq = x.seq, y.data = x.data
  PROVE  DownSeg(y, w)
  BY DEF DownSeg, Carries

LEMMA OneSeg ==
  ASSUME NEW w, NEW x, DownSeg(x, w)
  PROVE  DownSegs(<< x >>, w)
<1>1. x \in SegType
  BY DEF DownSeg
<1>2. PICK l : l = << x >>
  OBVIOUS
<1>3. l \in Seq(SegType) /\ Len(l) = 1 /\ l[1] = x
  BY <1>1, <1>2
<1>4. \A i \in 1..Len(l) : i = 1
  BY <1>3
<1> QED
  BY <1>2, <1>3, <1>4 DEF DownSegs

LEMMA AppendJoins ==
  ASSUME NEW T, NEW s \in Seq(T), NEW x \in T
  PROVE  Append(s, x) = s \o << x >>
  OBVIOUS


-----------------------------------------------------------------------------
(* Packets given to the network.                                           *)

LEMMA EdgeStep ==
  ASSUME NEW p, RcvOK(p), NEW r, r = SeqAdd(p.rcv_nxt, p.rcv_ann_wnd)
  PROVE  /\ r \in SeqNumbers /\ UpPos(r) = UpPos(p.rcv_nxt) + p.rcv_ann_wnd
         /\ UpPos(p.right_edge) <= UpPos(r) /\ UpPos(r) \in Nat /\ UpPos(p.right_edge) \in Nat
         /\ UpPos(p.rcv_nxt) \in 1..(Up + 2) /\ p.rcv_ann_wnd \in 0..TCP_WND
<1>1. /\ p.rcv_nxt \in SeqNumbers /\ UpPos(p.rcv_nxt) \in 1..(Up + 2) /\ p.rcv_ann_wnd \in 0..TCP_WND
      /\ UpPos(p.right_edge) \in (1 + TCP_WND)..(UpPos(p.rcv_nxt) + p.rcv_ann_wnd)
      /\ p.right_edge \in SeqNumbers
  BY Constants DEF RcvOK
<1>2. p.rcv_ann_wnd \in Nat /\ SeqDiff(p.rcv_nxt, PeerIss) + p.rcv_ann_wnd < SeqMod
  BY <1>1, Constants DEF UpPos
<1>3. r \in SeqNumbers /\ UpPos(r) = UpPos(p.rcv_nxt) + p.rcv_ann_wnd
  BY <1>1, <1>2, AddPosition, Constants DEF UpPos
<1> QED
  BY <1>1, <1>3, Positions

LEMMA EmitOut ==
  ASSUME NEW out, NEW segs, NEW w, NEW e \in Int, NEW u \in 1..(Up + 2), NEW r \in Int, NEW r2 \in Int,
         DownSegs(out, w), Announces(out, e), Below(out, u, r), e <= r, r <= r2,
         DownSegs(segs, w),
         \A i \in 1..Len(segs) : ~ segs[i].rst =>
            UpPos(segs[i].ack) = u /\ EdgeOf(segs[i]) <= r2
            /\ (~ segs[i].syn => r2 < EdgeOf(segs[i]) + WndUnit)
  PROVE  DownSegs(out \o segs, w) /\ Announces(out \o segs, e) /\ Below(out \o segs, u, r2)
<1>1. out \in Seq(SegType) /\ segs \in Seq(SegType)
  BY DEF DownSegs
<1>0. \A i \in 1..Len(segs) : EdgeOf(segs[i]) \in Int
  <2> SUFFICES ASSUME NEW i \in 1..Len(segs) PROVE EdgeOf(segs[i]) \in Int
    OBVIOUS
  <2>1. segs[i] \in SegType
    BY <1>1
  <2> QED
    BY <2>1, SegmentFields, Positions DEF EdgeOf
<1>2. Announces(segs, r)
  <2>1. ASSUME NEW i \in 1..Len(segs), ~ segs[i].rst
        PROVE  UpPos(segs[i].ack) \in 1..(Up + 2) /\ (~ segs[i].syn => EdgeOf(segs[i]) + WndUnit > r)
    BY <1>0, <2>1, Constants
  <2>2. ASSUME NEW i \in 1..Len(segs), NEW j \in 1..Len(segs), ~ segs[i].rst, ~ segs[j].rst, ~ segs[j].syn
        PROVE  EdgeOf(segs[i]) < EdgeOf(segs[j]) + WndUnit
    BY <1>0, <2>2, Constants
  <2> QED
    BY <2>1, <2>2 DEF Announces
<1>3. Below(segs, u, r2)
  BY Constants DEF Below
<1>4. Below(out, u, r2)
  <2> SUFFICES ASSUME NEW i \in 1..Len(out), ~ out[i].rst
               PROVE  UpPos(out[i].ack) <= u /\ EdgeOf(out[i]) <= r2
    BY DEF Below
  <2>1. out[i] \in SegType
    BY <1>1
  <2>2. EdgeOf(out[i]) \in Int
    BY <2>1, SegmentFields, Positions DEF EdgeOf
  <2>3. UpPos(out[i].ack) <= u /\ EdgeOf(out[i]) <= r
    BY DEF Below
  <2> QED
    BY <2>2, <2>3
<1> QED
  BY <1>1, <1>2, <1>3, <1>4, JoinDownSegs, JoinAnnounces, JoinBelow

LEMMA Emit ==
  ASSUME NEW p, NEW q, NEW w, NEW e \in Int, NEW segs, RcvOK(p), OutOK(p, w, e),
         q.rcv_nxt = p.rcv_nxt, q.rcv_wnd = p.rcv_wnd, q.rcv_ann_wnd = p.rcv_ann_wnd,
         q.right_edge = SeqAdd(p.rcv_nxt, p.rcv_ann_wnd), q.out = p.out \o segs,
         DownSegs(segs, w),
         \A i \in 1..Len(segs) : Tells(p, segs[i])
  PROVE  RcvOK(q) /\ OutOK(q, w, e)
<1>1. PICK r : r = SeqAdd(p.rcv_nxt, p.rcv_ann_wnd)
  OBVIOUS
<1>2. PICK u : u = UpPos(p.rcv_nxt)
  OBVIOUS
<1>3. PICK x : x = UpPos(p.right_edge)
  OBVIOUS
<1>4. PICK y : y = UpPos(r)
  OBVIOUS
<1>5. r \in SeqNumbers /\ y = u + p.rcv_ann_wnd /\ x <= y /\ y \in Nat /\ x \in Nat
      /\ u \in 1..(Up + 2) /\ p.rcv_ann_wnd \in 0..TCP_WND
  BY <1>1, <1>2, <1>3, <1>4, EdgeStep
<1>6. ASSUME NEW i \in 1..Len(segs)
      PROVE  /\ UpPos(segs[i].ack) = u /\ EdgeOf(segs[i]) <= y
             /\ ~ segs[i].syn => y < EdgeOf(segs[i]) + WndUnit
  <2>1. segs[i] \in SegType
    BY DEF DownSegs
  <2>2. PICK z : z = segs[i].wnd
    OBVIOUS
  <2>3. z \in Nat
    BY <2>1, <2>2, SegmentFields
  <2>4. z <= p.rcv_ann_wnd /\ (~ segs[i].syn => p.rcv_ann_wnd < z + WndUnit) /\ UpPos(segs[i].ack) = u
    BY <1>2, <2>2 DEF Tells
  <2>5. EdgeOf(segs[i]) = u + z
    BY <2>2, <2>4 DEF EdgeOf
  <2> QED
    BY <1>5, <2>3, <2>4, <2>5, Constants, SMTT(30)
<1>7. DownSegs(p.out, w) /\ Announces(p.out, e) /\ Below(p.out, u, x) /\ e <= x
  BY <1>2, <1>3 DEF OutOK
<1>8. PICK o : o = p.out
  OBVIOUS
<1>9. DownSegs(o \o segs, w) /\ Announces(o \o segs, e) /\ Below(o \o segs, u, y)
  <2>1. DownSegs(o, w) /\ Announces(o, e) /\ Below(o, u, x) /\ e <= x
    BY <1>7, <1>8
  <2>2. \A i \in 1..Len(segs) : ~ segs[i].rst =>
          UpPos(segs[i].ack) = u /\ EdgeOf(segs[i]) <= y
          /\ (~ segs[i].syn => y < EdgeOf(segs[i]) + WndUnit)
    BY <1>6
  <2>3. x \in Int /\ y \in Int /\ x <= y /\ u \in 1..(Up + 2)
    BY <1>5
  <2> QED
    BY <2>1, <2>2, <2>3, EmitOut
<1>10. e <= y
  BY <1>5, <1>7
<1>11. OutOK(q, w, e)
  BY <1>1, <1>2, <1>4, <1>8, <1>9, <1>10 DEF OutOK
<1>12. p.rcv_nxt \in SeqNumbers /\ p.rcv_wnd \in 0..TCP_WND /\ p.rcv_ann_wnd \in 0..p.rcv_wnd /\ x >= 1 + TCP_WND
  BY <1>3, Constants DEF RcvOK
<1>13. RcvOK(q)
  BY <1>1, <1>2, <1>4, <1>5, <1>12, Constants DEF RcvOK
<1> QED
  BY <1>11, <1>13

LEMMA EmitRst ==
  ASSUME NEW p, NEW q, NEW w, NEW e \in Int, NEW x \in SegType, RcvOK(p), OutOK(p, w, e),
         q.rcv_nxt = p.rcv_nxt, q.right_edge = p.right_edge, q.out = Append(p.out, x),
         x.rst, x.data = << >>
  PROVE  OutOK(q, w, e)
<1>1. PICK u : u = UpPos(p.rcv_nxt)
  OBVIOUS
<1>2. PICK r : r = UpPos(p.right_edge)
  OBVIOUS
<1>3. u \in 1..(Up + 2) /\ r \in Int
  BY <1>1, <1>2, EdgeStep, Constants DEF RcvOK
<1>4. DownSegs(p.out, w) /\ Announces(p.out, e) /\ Below(p.out, u, r) /\ e <= r
  BY <1>1, <1>2 DEF OutOK
<1>5. PICK segs : segs = << x >>
  OBVIOUS
<1>6. DownSegs(segs, w) /\ Len(segs) = 1 /\ segs[1] = x
  BY <1>5, EmptyDownSeg, OneSeg
<1>7. \A i \in 1..Len(segs) : segs[i].rst
  BY <1>6
<1>8. PICK o : o = p.out
  OBVIOUS
<1>9. DownSegs(o \o segs, w) /\ Announces(o \o segs, e) /\ Below(o \o segs, u, r)
  <2>1. DownSegs(o, w) /\ Announces(o, e) /\ Below(o, u, r) /\ e <= r
    BY <1>4, <1>8
  <2>2. \A i \in 1..Len(segs) : ~ segs[i].rst =>
          UpPos(segs[i].ack) = u /\ EdgeOf(segs[i]) <= r
          /\ (~ segs[i].syn => r < EdgeOf(segs[i]) + WndUnit)
    BY <1>7
  <2>3. r <= r
    BY <1>3
  <2> QED
    BY <1>3, <1>6, <2>1, <2>2, <2>3, EmitOut
<1>10. q.out = o \o segs
  <2>1. o \in Seq(SegType)
    BY <1>4, <1>8 DEF DownSegs
  <2> QED
    BY <1>5, <1>8, <2>1, AppendJoins
<1> QED
  BY <1>1, <1>2, <1>4, <1>9, <1>10 DEF OutOK


-----------------------------------------------------------------------------
(* What the operators of tcp_out.c keep of a control block.                *)

Kept0(p, q) ==
    /\ DOMAIN q = Fields /\ q.state = p.state /\ q.cb = p.cb
    /\ q.rxclosed = p.rxclosed /\ q.closepend = p.closepend
    /\ q.inInput = p.inInput /\ q.tfClosed = p.tfClosed
    /\ q.rcv_nxt = p.rcv_nxt /\ q.rcv_wnd = p.rcv_wnd
    /\ q.lastack = p.lastack /\ q.snd_wnd = p.snd_wnd /\ q.snd_wnd_max = p.snd_wnd_max

Kept(p, q) ==
    Kept0(p, q) /\ q.snd_lbb = p.snd_lbb /\ q.rcv_ann_wnd = p.rcv_ann_wnd

(* The queues and what they are checked with. *)
SameQueues(p, q) ==
    q.unsent = p.unsent /\ q.unacked = p.unacked /\ q.oversize = p.oversize

LEMMA FieldSet ==
  Fields = {"state", "rxclosed", "closepend", "cb", "ackNow", "infr", "inInput", "tfClosed",
            "rcv_nxt", "rcv_wnd", "rcv_ann_wnd", "right_edge", "snd_nxt", "lastack", "snd_lbb",
            "snd_buf", "snd_wnd", "snd_wnd_max", "snd_wl1", "snd_wl2", "unsent", "unacked",
            "oversize", "rtime", "nrtx", "dupacks", "persist", "persist_probe", "out"}
  BY DEF Fields, tcp_alloc

LEMMA KeptTwice ==
  ASSUME NEW p, NEW q, NEW r
  PROVE  /\ Kept0(p, q) /\ Kept0(q, r) => Kept0(p, r)
         /\ Kept(p, q) /\ Kept(q, r) => Kept(p, r)
  BY DEF Kept0, Kept

LEMMA KeptSelf ==
  ASSUME NEW p, DOMAIN p = Fields
  PROVE  Kept(p, p)
  BY DEF Kept0, Kept

(* The queues are as good as before. *)
LEMMA SameSnd ==
  ASSUME NEW p, NEW q, NEW w, SndOK(p, w), Kept(p, q), SameQueues(p, q), q.snd_nxt \in SeqNumbers
  PROVE  SndOK(q, w)
  BY DEF SndOK, Kept, Kept0, SameQueues, Spare

LEMMA SameRcv ==
  ASSUME NEW p, NEW q, RcvOK(p), Kept(p, q), q.right_edge = p.right_edge
  PROVE  RcvOK(q)
  BY DEF RcvOK, Kept, Kept0

LEMMA SameOut ==
  ASSUME NEW p, NEW q, NEW w, NEW e, OutOK(p, w, e), q.rcv_nxt = p.rcv_nxt,
         q.right_edge = p.right_edge, q.out = p.out
  PROVE  OutOK(q, w, e)
  BY DEF OutOK

LEMMA AliveSame ==
  ASSUME NEW p, NEW q, NEW w, NEW e, Alive(p, w, e), Kept(p, q), SameQueues(p, q),
         q.snd_nxt = p.snd_nxt, q.right_edge = p.right_edge, q.out = p.out
  PROVE  Alive(q, w, e)
<1>1. q.snd_nxt \in SeqNumbers
  BY DEF Alive, SndOK
<1>2. SndOK(q, w)
  BY <1>1, SameSnd DEF Alive
<1>3. RcvOK(q)
  BY SameRcv DEF Alive
<1>4. q.rcv_nxt = p.rcv_nxt
  BY DEF Kept, Kept0
<1>5. OutOK(q, w, e)
  BY <1>4, SameOut DEF Alive
<1> QED
  BY <1>2, <1>3, <1>5 DEF Alive

LEMMA EmptyAckOK ==
  ASSUME NEW p, NEW q, NEW w, NEW e \in Int, DOMAIN p = Fields, Alive(p, w, e),
         q = tcp_send_empty_ack(p)
  PROVE  Alive(q, w, e) /\ Kept(p, q)
<1>1. PICK x : x = Segment(p.snd_nxt, << >>, FALSE, FALSE)
  OBVIOUS
<1>2. PICK y : y = Announce(p, x)
  OBVIOUS
<1>3. PICK o : o = Append(p.out, y)
  OBVIOUS
<1>4. PICK r : r = SeqAdd(p.rcv_nxt, p.rcv_ann_wnd)
  OBVIOUS
<1>5. q = [[p EXCEPT !.right_edge = r] EXCEPT !.out = o, !.ackNow = FALSE]
  <2>1. PICK p1 : p1 = [p EXCEPT !.right_edge = r]
    OBVIOUS
  <2>2. p1.out = p.out
    BY <2>1, FieldSet
  <2>3. q = [p1 EXCEPT !.out = Append(@, y), !.ackNow = FALSE]
    BY <1>1, <1>2, <1>4, <2>1 DEF tcp_send_empty_ack, Announced
  <2> QED
    BY <1>3, <2>1, <2>2, <2>3
<1>6. Kept(p, q) /\ SameQueues(p, q) /\ q.snd_nxt = p.snd_nxt /\ q.right_edge = r /\ q.out = o
  BY <1>5, FieldSet DEF Kept, Kept0, SameQueues
<1>7. /\ p.snd_nxt \in SeqNumbers /\ p.rcv_nxt \in SeqNumbers /\ p.rcv_ann_wnd \in Nat
      /\ RcvOK(p) /\ SndOK(p, w) /\ OutOK(p, w, e)
  BY Constants DEF Alive, SndOK, RcvOK
<1>8. x \in SegType /\ x.data = << >>
  BY <1>1, <1>7, EmptySegmentIs
<1>9. y \in SegType /\ y.data = << >> /\ Tells(p, y)
  BY <1>2, <1>7, <1>8, AnnounceIs
<1>10. PICK segs : segs = << y >>
  OBVIOUS
<1>11. DownSegs(segs, w) /\ Len(segs) = 1 /\ segs[1] = y
  BY <1>9, <1>10, EmptyDownSeg, OneSeg
<1>12. \A i \in 1..Len(segs) : Tells(p, segs[i])
  BY <1>9, <1>11
<1>13. q.out = p.out \o segs
  <2>1. p.out \in Seq(SegType)
    BY <1>7 DEF OutOK, DownSegs
  <2> QED
    BY <1>3, <1>6, <1>9, <1>10, <2>1, AppendJoins
<1>14. RcvOK(q) /\ OutOK(q, w, e)
  <2>1. /\ q.rcv_nxt = p.rcv_nxt /\ q.rcv_wnd = p.rcv_wnd /\ q.rcv_ann_wnd = p.rcv_ann_wnd
        /\ q.right_edge = SeqAdd(p.rcv_nxt, p.rcv_ann_wnd)
    BY <1>4, <1>6 DEF Kept, Kept0
  <2> QED
    BY <1>7, <1>11, <1>12, <1>13, <2>1, Emit
<1>15. SndOK(q, w)
  BY <1>6, <1>7, SameSnd
<1> QED
  BY <1>6, <1>14, <1>15 DEF Alive

LEMMA RstOK ==
  ASSUME NEW p, NEW q, NEW w, NEW e \in Int, NEW s \in SeqNumbers, NEW a \in SeqNumbers,
         DOMAIN p = Fields, Alive(p, w, e), q = tcp_rst(p, s, a)
  PROVE  Alive(q, w, e) /\ Kept(p, q)
<1>1. PICK x : x = RstSegment(s, a)
  OBVIOUS
<1>2. x \in SegType /\ x.rst /\ x.data = << >>
  BY <1>1, RstIs
<1>3. PICK o : o = Append(p.out, x)
  OBVIOUS
<1>4. q = [p EXCEPT !.out = o]
  BY <1>1, <1>3 DEF tcp_rst
<1>5. /\ Kept(p, q) /\ SameQueues(p, q) /\ q.snd_nxt = p.snd_nxt
      /\ q.right_edge = p.right_edge /\ q.out = o
  BY <1>4, FieldSet DEF Kept, Kept0, SameQueues
<1>6. RcvOK(p) /\ SndOK(p, w) /\ OutOK(p, w, e) /\ p.snd_nxt \in SeqNumbers
  BY DEF Alive, SndOK
<1>7. q.rcv_nxt = p.rcv_nxt
  BY <1>5 DEF Kept, Kept0
<1>8. OutOK(q, w, e)
  BY <1>2, <1>3, <1>5, <1>6, <1>7, EmitRst
<1>9. RcvOK(q)
  BY <1>5, <1>6, SameRcv
<1>10. SndOK(q, w)
  BY <1>5, <1>6, SameSnd
<1> QED
  BY <1>5, <1>8, <1>9, <1>10 DEF Alive


-----------------------------------------------------------------------------
(* Induction along the natural numbers, by the least counterexample.       *)

LEMMA LeastOf ==
  ASSUME NEW T \in SUBSET Nat, T # {}
  PROVE  \E m \in T : \A k \in T : m <= k
<1>1. PICK m \in T : \A k \in T : ~ (<< k, m >> \in OpToRel(<, Nat))
  <2>1. IsWellFoundedOn(OpToRel(<, Nat), Nat)
    BY NatLessThanWellFounded
  <2> QED
    BY <2>1, WFMin, Zenon
<1>2. \A k \in T : m <= k
  <2> SUFFICES ASSUME NEW k \in T PROVE m <= k
    OBVIOUS
  <2>1. k \in Nat /\ m \in Nat
    OBVIOUS
  <2>2. << k, m >> \in OpToRel(<, Nat) <=> k < m
    BY DEF OpToRel
  <2>3. ~ (k < m)
    BY <1>1, <2>2, Zenon
  <2> QED
    BY <2>1, <2>3
<1> QED
  BY <1>2

LEMMA Upwards ==
  ASSUME NEW n \in Nat, NEW S, 0 \in S, \A k \in 1..n : k - 1 \in S => k \in S
  PROVE  n \in S
<1> SUFFICES ASSUME n \notin S PROVE FALSE
  OBVIOUS
<1> DEFINE T == {k \in 0..n : k \notin S}
<1>1. PICK m \in T : \A k \in T : m <= k
  <2>1. T \in SUBSET Nat /\ T # {}
    OBVIOUS
  <2> QED
    BY <2>1, LeastOf
<1> QED
  BY <1>1

LEMMA Piece ==
  ASSUME NEW T, NEW s \in Seq(T), NEW m \in Nat, NEW n \in Nat, 1 <= m, n <= Len(s)
  PROVE  /\ SubSeq(s, m, n) \in Seq(T)
         /\ Len(SubSeq(s, m, n)) = IF m <= n THEN n - m + 1 ELSE 0
         /\ \A i \in 1..Len(SubSeq(s, m, n)) :
              SubSeq(s, m, n)[i] = s[m + i - 1] /\ m + i - 1 \in 1..Len(s)
  OBVIOUS

LEMMA Narrowed ==
  ASSUME NEW S, NEW T, NEW s \in Seq(S), \A i \in 1..Len(s) : s[i] \in T
  PROVE  s \in Seq(T)
  OBVIOUS

(* A segment inserted in a list: nothing else is in it, and the last one   *)
(* stays the last when it does not come before the segment.                *)
KeepsLast(list, seg, r) ==
    /\ r[Len(r)] = list[Len(list)]
    /\ \A i \in 1..Len(list) :
         r[i] = seg \/ \E j \in 1..(Len(list) - 1) : r[i] = list[j]

LEMMA InsertedBoth ==
  ASSUME NEW T, NEW list \in Seq(T), NEW seg \in T, NEW r, r = InsertUnacked(list, seg)
  PROVE  /\ r \in Seq(T) /\ Len(r) = Len(list) + 1
         /\ list # << >> /\ ~ TCP_SEQ_LT(list[Len(list)].seq, seg.seq)
              => KeepsLast(list, seg, r)
<1> DEFINE before == {i \in DOMAIN list : TCP_SEQ_LT(list[i].seq, seg.seq)}
<1>1. PICK n : n = Len(list)
  OBVIOUS
<1>2. n \in Nat /\ DOMAIN list = 1..n
  BY <1>1
<1>3. PICK k : k = Cardinality(before)
  OBVIOUS
<1>4. IsFiniteSet(before) /\ k \in 0..n
  <2>1. IsFiniteSet(1..n) /\ Cardinality(1..n) = n
    BY <1>2, FS_Interval
  <2>2. before \subseteq 1..n
    BY <1>2
  <2>3. IsFiniteSet(before) /\ Cardinality(before) <= n
    BY <2>1, <2>2, FS_Subset
  <2>4. Cardinality(before) \in Nat
    BY <2>3, FS_CardinalityType
  <2> QED
    BY <1>2, <1>3, <2>3, <2>4
<1>5. ASSUME list # << >>, ~ TCP_SEQ_LT(list[n].seq, seg.seq) PROVE k < n
  <2>1. n > 0
    BY <1>1, <1>5
  <2>2. before \subseteq 1..(n - 1)
    BY <1>2, <1>5
  <2>3. IsFiniteSet(1..(n - 1)) /\ Cardinality(1..(n - 1)) = n - 1
    BY <1>2, <2>1, FS_Interval
  <2>4. Cardinality(before) <= n - 1
    BY <2>2, <2>3, FS_Subset
  <2> QED
    BY <1>2, <1>3, <1>4, <2>4
<1>6. r = SubSeq(list, 1, k) \o << seg >> \o SubSeq(list, k + 1, n)
  BY <1>1, <1>3 DEF InsertUnacked
<1> HIDE DEF before
<1>7. PICK a : a = SubSeq(list, 1, k)
  OBVIOUS
<1>8. PICK c : c = SubSeq(list, k + 1, n)
  OBVIOUS
<1>9. a \in Seq(T) /\ Len(a) = k /\ \A i \in 1..k : a[i] = list[i]
  BY <1>1, <1>2, <1>4, <1>7, Piece
<1>10. /\ c \in Seq(T) /\ Len(c) = n - k
       /\ \A i \in 1..Len(c) : c[i] = list[k + i]
  BY <1>1, <1>2, <1>4, <1>8, Piece
<1>11. PICK b : b = a \o << seg >>
  OBVIOUS
<1>12. /\ b \in Seq(T) /\ Len(b) = k + 1 /\ b[k + 1] = seg
       /\ \A i \in 1..k : b[i] = list[i]
  <2>1. << seg >> \in Seq(T) /\ Len(<< seg >>) = 1 /\ << seg >>[1] = seg
    OBVIOUS
  <2>2. b \in Seq(T) /\ Len(b) = k + 1
    BY <1>4, <1>9, <1>11, <2>1
  <2>3. b[k + 1] = seg
    BY <1>4, <1>9, <1>11, <2>1
  <2>4. \A i \in 1..k : b[i] = a[i]
    BY <1>4, <1>9, <1>11, <2>1
  <2> QED
    BY <1>9, <2>2, <2>3, <2>4, Zenon
<1>13. r = b \o c
  BY <1>6, <1>7, <1>8, <1>11
<1>14. r \in Seq(T) /\ Len(r) = n + 1
  <2>1. r \in Seq(T) /\ Len(r) = Len(b) + Len(c)
    BY <1>10, <1>12, <1>13, Joined, ZenonT(30)
  <2> QED
    BY <1>2, <1>4, <1>10, <1>12, <2>1
<1>15. ASSUME k < n PROVE r[n + 1] = list[n]
  <2>1. r[n + 1] = c[n - k]
    <3>1. n + 1 \in 1..(Len(b) + Len(c)) /\ ~ (n + 1 \in 1..Len(b)) /\ (n + 1) - Len(b) = n - k
      BY <1>2, <1>4, <1>10, <1>12, <1>15
    <3> QED
      BY <1>10, <1>12, <1>13, <3>1, Joined
  <2> QED
    BY <1>2, <1>4, <1>10, <1>15, <2>1
<1>16. ASSUME k < n, NEW i \in 1..n
       PROVE  r[i] = seg \/ \E j \in 1..(n - 1) : r[i] = list[j]
  <2>1. CASE i \in 1..k
    <3>1. r[i] = b[i]
      BY <1>4, <1>10, <1>12, <1>13, <2>1
    <3> QED
      BY <1>2, <1>4, <1>12, <1>16, <2>1, <3>1
  <2>2. CASE i = k + 1
    BY <1>4, <1>10, <1>12, <1>13, <2>2
  <2>3. CASE i > k + 1
    <3>1. i - (k + 1) \in 1..Len(c) /\ ~ (i \in 1..Len(b)) /\ i \in 1..(Len(b) + Len(c))
      BY <1>2, <1>4, <1>10, <1>12, <2>3
    <3>2. r[i] = c[i - (k + 1)]
      BY <1>10, <1>12, <1>13, <3>1, Joined, SMTT(30)
    <3>3. c[i - (k + 1)] = list[i - 1] /\ i - 1 \in 1..(n - 1)
      BY <1>2, <1>4, <1>10, <2>3, <3>1
    <3> QED
      BY <3>2, <3>3
  <2> QED
    BY <1>2, <1>4, <2>1, <2>2, <2>3
<1>17. ASSUME k < n
       PROVE  \A i \in 1..n : r[i] = seg \/ \E j \in 1..(n - 1) : r[i] = list[j]
  BY <1>16, <1>17
<1>18. ASSUME k < n PROVE KeepsLast(list, seg, r)
  BY <1>1, <1>14, <1>15, <1>17, <1>18 DEF KeepsLast
<1> QED
  BY <1>1, <1>5, <1>14, <1>18

LEMMA Inserted ==
  ASSUME NEW T, NEW list \in Seq(T), NEW seg \in T, NEW r, r = InsertUnacked(list, seg)
  PROVE  r \in Seq(T) /\ Len(r) = Len(list) + 1
  BY InsertedBoth

LEMMA InsertedLast ==
  ASSUME NEW T, NEW list \in Seq(T), NEW seg \in T, NEW r, r = InsertUnacked(list, seg),
         list # << >>, ~ TCP_SEQ_LT(list[Len(list)].seq, seg.seq)
  PROVE  KeepsLast(list, seg, r)
  BY InsertedBoth

(* The loop that inserts the segments it sends. *)
LEMMA InsertedAll ==
  ASSUME NEW T, NEW list \in Seq(T), NEW sent \in Seq(T), NEW n \in 0..Len(sent), NEW h,
         h = CHOOSE f : f = [i \in 0..n |->
                                IF i = 0 THEN list ELSE InsertUnacked(f[i - 1], sent[i])]
  PROVE  h[n] \in Seq(T)
<1> DEFINE R(m, f) == f = [i \in 0..m |->
                             IF i = 0 THEN list ELSE InsertUnacked(f[i - 1], sent[i])]
<1> DEFINE S == {m \in 0..n : \E f : R(m, f)}
<1>1. n \in Nat /\ \A k \in 1..n : sent[k] \in T
  OBVIOUS
<1>2. 0 \in S
  <2>1. PICK f : f = [i \in 0..0 |-> list]
    OBVIOUS
  <2>2. R(0, f)
    BY <2>1
  <2> QED
    BY <1>1, <2>2
<1>3. ASSUME NEW k \in 1..n, k - 1 \in S PROVE k \in S
  <2>1. PICK f : R(k - 1, f)
    BY <1>3
  <2>2. PICK v : v = InsertUnacked(f[k - 1], sent[k])
    OBVIOUS
  <2>3. PICK g : g = [j \in 0..k |-> IF j = k THEN v ELSE f[j]]
    OBVIOUS
  <2>4. k \in Nat /\ k > 0
    BY <1>1
  <2>5. g[k] = v /\ \A j \in 0..(k - 1) : g[j] = f[j]
    BY <2>3, <2>4
  <2>6. \A j \in 0..(k - 1) : f[j] = IF j = 0 THEN list ELSE InsertUnacked(f[j - 1], sent[j])
    BY <2>1
  <2>7. ASSUME NEW j \in 0..k
        PROVE  g[j] = IF j = 0 THEN list ELSE InsertUnacked(g[j - 1], sent[j])
    <3>1. CASE j = k
      <4>1. g[j - 1] = f[k - 1]
        BY <2>4, <2>5, <3>1
      <4> QED
        BY <2>2, <2>4, <2>5, <3>1, <4>1
    <3>2. CASE j # k
      <4>1. j \in 0..(k - 1) /\ (j = 0 \/ j - 1 \in 0..(k - 1))
        BY <2>4, <3>2
      <4>2. j = 0 \/ g[j - 1] = f[j - 1]
        BY <2>5, <4>1
      <4> QED
        BY <2>5, <2>6, <4>1, <4>2
    <3> QED
      BY <3>1, <3>2
  <2>8. R(k, g)
    <3>1. g = [j \in 0..k |-> g[j]]
      BY <2>3
    <3> QED
      BY <2>7, <3>1
  <2> QED
    BY <1>1, <2>8, SMTT(30)
<1>4. n \in S
  <2> HIDE DEF S
  <2> QED
    BY <1>1, <1>2, <1>3, Upwards
<1>5. \E f : R(n, f)
  BY <1>4
<1>6. R(n, h)
  <2>1. h = CHOOSE f : R(n, f)
    OBVIOUS
  <2> HIDE DEF R
  <2> QED
    BY <1>5, <2>1, Zenon
<1>7. \A i \in 0..n : h[i] = IF i = 0 THEN list ELSE InsertUnacked(h[i - 1], sent[i])
  BY <1>6
<1> DEFINE V == {m \in 0..n : h[m] \in Seq(T)}
<1>8. 0 \in V
  BY <1>1, <1>7
<1>9. ASSUME NEW k \in 1..n, k - 1 \in V PROVE k \in V
  <2>1. h[k] = InsertUnacked(h[k - 1], sent[k])
    BY <1>1, <1>7
  <2>2. h[k - 1] \in Seq(T) /\ sent[k] \in T
    BY <1>1, <1>9
  <2>3. h[k] \in Seq(T)
    BY <2>1, <2>2, Inserted
  <2> QED
    BY <1>1, <2>3
<1>10. n \in V
  <2> HIDE DEF V, R, S
  <2> QED
    BY <1>1, <1>8, <1>9, Upwards
<1> QED
  BY <1>10


-----------------------------------------------------------------------------
(* tcp_output.                                                             *)

LEMMA AnnounceOK ==
  ASSUME NEW p, NEW w, p.rcv_nxt \in SeqNumbers, p.rcv_ann_wnd \in Nat, NEW x, DownSeg(x, w)
  PROVE  /\ Announce(p, x) \in SegType /\ DownSeg(Announce(p, x), w)
         /\ Tells(p, Announce(p, x))
<1>1. PICK y : y = Announce(p, x)
  OBVIOUS
<1>2. x \in SegType
  BY DEF DownSeg
<1>3. y \in SegType /\ y.seq = x.seq /\ y.data = x.data /\ Tells(p, y)
  BY <1>1, <1>2, AnnounceIs
<1>4. DownSeg(y, w)
  BY <1>2, <1>3, SameDownSeg
<1> QED
  BY <1>1, <1>3, <1>4

(* The first n segments, announced: what is given to the network. *)
LEMMA AnnouncedSegs ==
  ASSUME NEW p, NEW w, NEW list, NEW n \in Nat, n <= Len(list), DownSegs(list, w),
         p.rcv_nxt \in SeqNumbers, p.rcv_ann_wnd \in Nat
  PROVE  LET segs == [i \in 1..n |-> Announce(p, list[i])]
         IN  /\ DownSegs(segs, w)
             /\ \A i \in 1..Len(segs) : Tells(p, segs[i])
<1>1. list \in Seq(SegType) /\ Len(list) \in Nat
  BY DEF DownSegs
<1>2. ASSUME NEW i \in 1..n
      PROVE  /\ Announce(p, list[i]) \in SegType /\ DownSeg(Announce(p, list[i]), w)
             /\ Tells(p, Announce(p, list[i]))
  <2>1. DownSeg(list[i], w)
    BY <1>1 DEF DownSegs
  <2> QED
    BY <2>1, AnnounceOK
<1>3. PICK segs : segs = [i \in 1..n |-> Announce(p, list[i])]
  OBVIOUS
<1>4. /\ DOMAIN segs = 1..n
      /\ \A i \in 1..n : segs[i] \in SegType /\ DownSeg(segs[i], w)
                         /\ Tells(p, segs[i])
  BY <1>2, <1>3, Zenon
<1>5. segs \in Seq(SegType) /\ Len(segs) = n
  <2>1. segs = [i \in 1..n |-> segs[i]]
    BY <1>3, <1>4
  <2> QED
    BY <1>4, <2>1
<1>6. DownSegs(segs, w)
  BY <1>4, <1>5 DEF DownSegs
<1> QED
  BY <1>3, <1>4, <1>5, <1>6, Zenon



(* The queues, kept in the shape SndOK asks for. *)
LEMMA QueueDown ==
  ASSUME NEW w, NEW list \in Seq(QueueSet(w))
  PROVE  /\ DownSegs(list, w) /\ list \in Seq(SegType) /\ Len(list) \in Nat
         /\ \A i \in 1..Len(list) : list[i] \in SegType /\ DownSeg(list[i], w)
                                    /\ EndPos(list[i]) <= w + 1 /\ list[i] \in QueueSet(w)
<1>1. \A i \in 1..Len(list) : list[i] \in QueueSet(w)
  OBVIOUS
<1>2. \A i \in 1..Len(list) : list[i] \in SegType /\ DownSeg(list[i], w) /\ EndPos(list[i]) <= w + 1
  BY <1>1 DEF QueueSet
<1>3. list \in Seq(SegType) /\ Len(list) \in Nat
  BY <1>2, Narrowed
<1> QED
  BY <1>1, <1>2, <1>3 DEF DownSegs

(* What Spare says, for the lists by name. *)
LEMMA SpareIs ==
  ASSUME NEW p, NEW w, p.oversize > 0, NEW us, us = p.unsent, NEW ua, ua = p.unacked,
         NEW last, last = us[Len(us)]
  PROVE  Spare(p, w) <=>
           /\ us # << >> /\ EndPos(last) = w + 1 /\ Len(last.data) + p.oversize <= Mss
           /\ \A i \in 1..(Len(us) - 1) : EndPos(us[i]) <= PosOf(last.seq)
           /\ \A i \in 1..Len(ua) : EndPos(ua[i]) <= PosOf(last.seq)
  BY Zenon DEF Spare

LEMMA SendSegmentsOK ==
  ASSUME NEW p, NEW q, NEW w, NEW e \in Int, NEW n \in 1..Len(p.unsent),
         DOMAIN p = Fields, Alive(p, w, e), q = SendSegments(p, n)
  PROVE  Alive(q, w, e) /\ Kept(p, q)
<1>1. PICK us : us = p.unsent
  OBVIOUS
<1>2. PICK ua : ua = p.unacked
  OBVIOUS
<1>3. PICK sent : sent = SubSeq(us, 1, n)
  OBVIOUS
<1>4. PICK h : h = CHOOSE f : f = [i \in 0..n |->
                     IF i = 0 THEN p.unacked
                     ELSE InsertUnacked(f[i - 1], SubSeq(p.unsent, 1, n)[i])]
  OBVIOUS
<1>5. PICK v : v = h[n]
  OBVIOUS
<1>6. PICK segs : segs = [i \in 1..n |-> Announce(p, SubSeq(p.unsent, 1, n)[i])]
  OBVIOUS
<1>7. PICK end : end = SegEnd(SubSeq(p.unsent, 1, n)[n])
  OBVIOUS
<1>8. PICK r : r = SeqAdd(p.rcv_nxt, p.rcv_ann_wnd)
  OBVIOUS
<1>9. PICK rest : rest = SubSeq(us, n + 1, Len(us))
  OBVIOUS
<1>10. PICK nxt : nxt = IF TCP_SEQ_LT(p.snd_nxt, end) THEN end ELSE p.snd_nxt
  OBVIOUS
<1>11. PICK over : over = IF n = Len(us) THEN 0 ELSE p.oversize
  OBVIOUS
<1>12. PICK o : o = p.out \o segs
  OBVIOUS
<1>13. q = [[p EXCEPT !.right_edge = r] EXCEPT
              !.unsent = rest, !.unacked = v, !.out = o, !.snd_nxt = nxt, !.oversize = over,
              !.ackNow = FALSE, !.rtime = TRUE, !.persist = FALSE]
  <2>1. PICK p1 : p1 = [p EXCEPT !.right_edge = r]
    OBVIOUS
  <2>2. p1.unsent = us /\ p1.out = p.out /\ p1.snd_nxt = p.snd_nxt /\ p1.oversize = p.oversize
    BY <1>1, <2>1, FieldSet
  <2>3. q = [p1 EXCEPT
               !.unsent = SubSeq(@, n + 1, Len(@)), !.unacked = v, !.out = @ \o segs,
               !.snd_nxt = IF TCP_SEQ_LT(@, end) THEN end ELSE @,
               !.oversize = IF n = Len(p.unsent) THEN 0 ELSE @,
               !.ackNow = FALSE, !.rtime = TRUE, !.persist = FALSE]
    <3>1. p1 = Announced(p)
      BY <1>8, <2>1 DEF Announced
    <3> QED
      BY <1>4, <1>5, <1>6, <1>7, <3>1, Zenon DEF SendSegments
  <2> QED
    BY <1>1, <1>9, <1>10, <1>11, <1>12, <2>1, <2>2, <2>3, Zenon
<1>14. /\ Kept(p, q) /\ q.unsent = rest /\ q.unacked = v /\ q.out = o /\ q.snd_nxt = nxt
       /\ q.oversize = over /\ q.right_edge = r
  BY <1>13, FieldSet, ZenonT(30) DEF Kept, Kept0
<1>15. /\ RcvOK(p) /\ OutOK(p, w, e) /\ us \in Seq(QueueSet(w)) /\ ua \in Seq(QueueSet(w))
       /\ Spare(p, w) /\ p.snd_wnd \in Nat
       /\ p.snd_nxt \in SeqNumbers /\ p.snd_lbb \in SeqNumbers /\ p.lastack \in SeqNumbers
       /\ p.oversize \in Nat /\ p.snd_wnd_max = PeerBuf
       /\ p.rcv_nxt \in SeqNumbers /\ p.rcv_ann_wnd \in Nat
  BY <1>1, <1>2, Constants DEF Alive, SndOK, RcvOK
<1>16. us \in Seq(SegType) /\ Len(us) \in Nat /\ n \in Nat /\ n <= Len(us) /\ 1 <= n
  BY <1>1, <1>15, QueueDown
<1>17. us \in Seq(QueueSet(w)) /\ ua \in Seq(QueueSet(w))
  BY <1>15
<1>18. sent \in Seq(QueueSet(w)) /\ Len(sent) = n /\ \A i \in 1..n : sent[i] = us[i]
  BY <1>3, <1>16, <1>17, Piece
<1>19. /\ rest \in Seq(QueueSet(w)) /\ Len(rest) = Len(us) - n
       /\ \A i \in 1..Len(rest) : rest[i] = us[n + i]
  BY <1>9, <1>16, <1>17, Piece
<1>20. v \in Seq(QueueSet(w))
  <2>1. n \in 0..Len(sent)
    BY <1>16, <1>18
  <2>2. sent = SubSeq(p.unsent, 1, n)
    BY <1>1, <1>3
  <2>3. p.unacked \in Seq(QueueSet(w)) /\ SubSeq(p.unsent, 1, n) \in Seq(QueueSet(w))
        /\ n \in 0..Len(SubSeq(p.unsent, 1, n))
    BY <1>2, <1>17, <1>18, <2>1, <2>2
  <2> QED
    BY <1>4, <1>5, <2>3, InsertedAll
<1>21. nxt \in SeqNumbers
  <2>1. sent[n] \in SegType
    BY <1>16, <1>18, QueueDown
  <2>2. end \in SeqNumbers
    BY <1>1, <1>3, <1>7, <2>1, SegEndType
  <2> QED
    BY <1>10, <1>15, <2>2
<1>22. Spare(q, w)
  <2> SUFFICES ASSUME q.oversize > 0 PROVE Spare(q, w)
    BY DEF Spare
  <2>1. n < Len(us) /\ p.oversize > 0 /\ q.oversize = p.oversize
    BY <1>11, <1>14, <1>16
  <2>2. PICK last : last = us[Len(us)]
    OBVIOUS
  <2>3. /\ EndPos(last) = w + 1 /\ Len(last.data) + p.oversize <= Mss
        /\ \A i \in 1..(Len(us) - 1) : EndPos(us[i]) <= PosOf(last.seq)
        /\ \A i \in 1..Len(ua) : EndPos(ua[i]) <= PosOf(last.seq)
    BY <1>1, <1>2, <1>15, <2>1, <2>2, SpareIs
  <2>4. rest # << >> /\ rest[Len(rest)] = last
    BY <1>16, <1>19, <2>1, <2>2, SMTT(30)
  <2>5. \A i \in 1..(Len(rest) - 1) : EndPos(rest[i]) <= PosOf(last.seq)
    <3> SUFFICES ASSUME NEW i \in 1..(Len(rest) - 1) PROVE EndPos(rest[i]) <= PosOf(last.seq)
      OBVIOUS
    <3>1. i \in 1..Len(rest) /\ n + i \in 1..(Len(us) - 1)
      BY <1>16, <1>19
    <3> QED
      BY <1>19, <2>3, <3>1
  <2>6. \A i \in 1..Len(v) : EndPos(v[i]) <= PosOf(last.seq)
    <3>1. PICK T : T = {x \in SegType : EndPos(x) <= PosOf(last.seq)}
      OBVIOUS
    <3>2. ua \in Seq(SegType) /\ sent \in Seq(SegType)
      BY <1>17, <1>18, QueueDown
    <3>3. ua \in Seq(T) /\ sent \in Seq(T)
      <4>1. \A i \in 1..Len(sent) : sent[i] \in T
        <5> SUFFICES ASSUME NEW i \in 1..Len(sent) PROVE sent[i] \in T
          OBVIOUS
        <5>1. sent[i] = us[i] /\ i \in 1..(Len(us) - 1) /\ sent[i] \in SegType
          BY <1>16, <1>18, <2>1, <3>2
        <5> QED
          BY <2>3, <3>1, <5>1
      <4>2. \A i \in 1..Len(ua) : ua[i] \in T
        BY <2>3, <3>1, <3>2
      <4> QED
        BY <3>2, <4>1, <4>2, Narrowed
    <3>5. n \in 0..Len(sent)
      BY <1>16, <1>18
    <3>6. v \in Seq(T)
      <4>1. sent = SubSeq(p.unsent, 1, n)
        BY <1>1, <1>3
      <4>2. p.unacked \in Seq(T) /\ SubSeq(p.unsent, 1, n) \in Seq(T)
            /\ n \in 0..Len(SubSeq(p.unsent, 1, n))
        BY <1>2, <3>3, <3>5, <4>1
      <4> QED
        BY <1>4, <1>5, <4>2, InsertedAll
    <3>7. \A i \in 1..Len(v) : v[i] \in T
      BY <3>6
    <3> QED
      BY <3>1, <3>7
  <2>7. rest = q.unsent /\ v = q.unacked
    BY <1>14
  <2> QED
    BY <2>1, <2>3, <2>4, <2>5, <2>6, <2>7, SpareIs, SMTT(30)
<1>23. SndOK(q, w)
  <2>1. rest \in Seq(QueueSet(w)) /\ v \in Seq(QueueSet(w))
    BY <1>19, <1>20
  <2>2. over \in Nat
    BY <1>11, <1>15
  <2> QED
    BY <1>14, <1>15, <1>21, <1>22, <2>1, <2>2 DEF SndOK, Kept, Kept0
<1>24. RcvOK(q) /\ OutOK(q, w, e)
  <2>1. DownSegs(sent, w)
    BY <1>18, QueueDown
  <2>2. /\ DownSegs(segs, w)
        /\ \A i \in 1..Len(segs) : Tells(p, segs[i])
    <3>1. sent = SubSeq(p.unsent, 1, n)
      BY <1>1, <1>3
    <3>2. n <= Len(SubSeq(p.unsent, 1, n)) /\ DownSegs(SubSeq(p.unsent, 1, n), w)
      BY <1>16, <1>18, <2>1, <3>1
    <3> QED
      <4>1. p.rcv_nxt \in SeqNumbers /\ p.rcv_ann_wnd \in Nat /\ n \in Nat
        BY <1>15, <1>16
      <4>2. PICK t : t = SubSeq(p.unsent, 1, n)
        OBVIOUS
      <4>3. n <= Len(t) /\ DownSegs(t, w)
        BY <3>2, <4>2
      <4>4. PICK s : s = [i \in 1..n |-> Announce(p, t[i])]
        OBVIOUS
      <4>5. /\ DownSegs(s, w)
            /\ \A i \in 1..Len(s) : Tells(p, s[i])
        BY <4>1, <4>3, <4>4, AnnouncedSegs
      <4>6. s = segs
        BY <1>6, <4>2, <4>4
      <4> QED
        BY <4>5, <4>6
  <2>3. /\ q.rcv_nxt = p.rcv_nxt /\ q.rcv_wnd = p.rcv_wnd /\ q.rcv_ann_wnd = p.rcv_ann_wnd
        /\ q.right_edge = SeqAdd(p.rcv_nxt, p.rcv_ann_wnd) /\ q.out = p.out \o segs
    BY <1>8, <1>12, <1>14 DEF Kept, Kept0
  <2> QED
    BY <1>15, <2>2, <2>3, Emit
<1> QED
  BY <1>14, <1>23, <1>24 DEF Alive

LEMMA PersistOK ==
  ASSUME NEW p, NEW q, NEW w, NEW e, DOMAIN p = Fields, Alive(p, w, e), q = StartPersist(p)
  PROVE  Alive(q, w, e) /\ Kept(p, q)
<1>1. \/ q = p
      \/ q = [p EXCEPT !.persist = TRUE, !.persist_probe = 0]
  BY DEF StartPersist
<1>2. CASE q = p
  BY <1>2, KeptSelf
<1>3. CASE q = [p EXCEPT !.persist = TRUE, !.persist_probe = 0]
  <2>1. /\ Kept(p, q) /\ SameQueues(p, q) /\ q.snd_nxt = p.snd_nxt
        /\ q.right_edge = p.right_edge /\ q.out = p.out
    BY <1>3, FieldSet DEF Kept, Kept0, SameQueues
  <2> QED
    BY <2>1, AliveSame
<1> QED
  BY <1>1, <1>2, <1>3

LEMMA OutputOK ==
  ASSUME NEW p, NEW q, NEW w, NEW e \in Int, DOMAIN p = Fields, Alive(p, w, e), q = tcp_output(p)
  PROVE  Alive(q, w, e) /\ Kept(p, q)
<1> DEFINE fits == {n \in 1..Len(p.unsent) : \A i \in 1..n : FitsWindow(p, p.unsent[i])}
<1>1. PICK k : k = Cardinality(fits)
  OBVIOUS
<1>2. PICK b : b = StartPersist(p)
  OBVIOUS
<1>3. \/ q = p
      \/ fits # {} /\ q = SendSegments(p, k)
      \/ q = tcp_send_empty_ack(b)
      \/ q = b
  BY <1>1, <1>2, Zenon DEF tcp_output
<1>4. Alive(b, w, e) /\ Kept(p, b) /\ DOMAIN b = Fields
  BY <1>2, PersistOK DEF Kept, Kept0
<1>5. CASE q = p
  BY <1>5, KeptSelf
<1>6. CASE fits # {} /\ q = SendSegments(p, k)
  <2>1. PICK m : m = Len(p.unsent)
    OBVIOUS
  <2>2. m \in Nat
    <3>1. p.unsent \in Seq(QueueSet(w))
      BY DEF Alive, SndOK
    <3> QED
      BY <2>1, <3>1, QueueDown
  <2>3. IsFiniteSet(1..m) /\ Cardinality(1..m) = m
    BY <2>2, FS_Interval
  <2>4. fits \subseteq 1..m
    BY <2>1
  <2>5. IsFiniteSet(fits) /\ Cardinality(fits) <= m
    BY <2>3, <2>4, FS_Subset
  <2>6. k \in Nat /\ k # 0
    BY <1>1, <1>6, <2>5, FS_CardinalityType, FS_EmptySet
  <2>7. k \in 1..Len(p.unsent)
    BY <1>1, <2>1, <2>2, <2>5, <2>6
  <2> QED
    BY <1>6, <2>7, SendSegmentsOK
<1>7. CASE q = tcp_send_empty_ack(b)
  <2>1. Alive(q, w, e) /\ Kept(b, q)
    BY <1>4, <1>7, EmptyAckOK
  <2> QED
    BY <1>4, <2>1, KeptTwice
<1>8. CASE q = b
  BY <1>4, <1>8
<1> QED
  BY <1>3, <1>5, <1>6, <1>7, <1>8

-----------------------------------------------------------------------------
(* The other operators of tcp_out.c.                                       *)

LEMMA QueueSeg ==
  ASSUME NEW x, NEW w
  PROVE  x \in QueueSet(w) <=> DownSeg(x, w) /\ EndPos(x) <= w + 1
  BY DEF QueueSet, DownSeg

(* A control block that differs in its queues. *)
LEMMA AliveQueues ==
  ASSUME NEW p, NEW q, NEW w, NEW e, Alive(p, w, e), Kept(p, q),
         q.snd_nxt = p.snd_nxt, q.right_edge = p.right_edge, q.out = p.out,
         q.oversize \in Nat, q.unsent \in Seq(QueueSet(w)), q.unacked \in Seq(QueueSet(w)),
         Spare(q, w)
  PROVE  Alive(q, w, e)
<1>1. SndOK(q, w)
  BY DEF SndOK, Alive, Kept, Kept0
<1>3. RcvOK(q)
  BY SameRcv DEF Alive
<1>4. q.rcv_nxt = p.rcv_nxt
  BY DEF Kept, Kept0
<1>5. OutOK(q, w, e)
  BY <1>4, SameOut DEF Alive
<1> QED
  BY <1>1, <1>3, <1>5 DEF Alive

LEMMA AliveQueueFacts ==
  ASSUME NEW p, NEW w, NEW e, Alive(p, w, e)
  PROVE  /\ p.unsent \in Seq(QueueSet(w)) /\ p.unacked \in Seq(QueueSet(w))
         /\ p.oversize \in Nat /\ p.snd_wnd \in Nat /\ p.snd_wnd_max = PeerBuf
         /\ p.snd_nxt \in SeqNumbers /\ p.snd_lbb \in SeqNumbers /\ p.lastack \in SeqNumbers
         /\ p.rcv_nxt \in SeqNumbers /\ p.rcv_ann_wnd \in Nat /\ p.rcv_wnd \in 0..TCP_WND
         /\ RcvOK(p) /\ SndOK(p, w) /\ OutOK(p, w, e) /\ Spare(p, w)
  BY Constants DEF Alive, SndOK, RcvOK

LEMMA PrepareOK ==
  ASSUME NEW p, NEW q, NEW w, NEW e, DOMAIN p = Fields, Alive(p, w, e),
         q = tcp_rexmit_rto_prepare(p)
  PROVE  Alive(q, w, e) /\ Kept(p, q)
<1>1. PICK us : us = p.unsent
  OBVIOUS
<1>2. PICK ua : ua = p.unacked
  OBVIOUS
<1>3. PICK l : l = ua \o us
  OBVIOUS
<1>4. q = [p EXCEPT !.unsent = l, !.unacked = << >>]
  BY <1>1, <1>2, <1>3 DEF tcp_rexmit_rto_prepare
<1>5. /\ Kept(p, q) /\ q.unsent = l /\ q.unacked = << >> /\ q.oversize = p.oversize
      /\ q.snd_nxt = p.snd_nxt /\ q.right_edge = p.right_edge /\ q.out = p.out
  BY <1>4, FieldSet DEF Kept, Kept0
<1>6. /\ us \in Seq(QueueSet(w)) /\ ua \in Seq(QueueSet(w)) /\ p.oversize \in Nat /\ Spare(p, w)
  BY <1>1, <1>2, AliveQueueFacts
<1>7. /\ l \in Seq(QueueSet(w)) /\ Len(l) = Len(ua) + Len(us) /\ Len(ua) \in Nat /\ Len(us) \in Nat
      /\ \A i \in 1..(Len(ua) + Len(us)) :
              \/ i \in 1..Len(ua) /\ l[i] = ua[i]
              \/ i - Len(ua) \in 1..Len(us) /\ l[i] = us[i - Len(ua)]
  BY <1>3, <1>6, Joined
<1>8. ASSUME p.oversize > 0 PROVE Spare(q, w)
  <2>1. PICK last : last = us[Len(us)]
    OBVIOUS
  <2>2. /\ us # << >> /\ EndPos(last) = w + 1 /\ Len(last.data) + p.oversize <= Mss
        /\ \A i \in 1..(Len(us) - 1) : EndPos(us[i]) <= PosOf(last.seq)
        /\ \A i \in 1..Len(ua) : EndPos(ua[i]) <= PosOf(last.seq)
    BY <1>1, <1>2, <1>6, <1>8, <2>1, SpareIs
  <2>3. Len(us) > 0
    BY <1>6, <2>2
  <2>4. l # << >> /\ l[Len(l)] = last
    BY <1>7, <2>1, <2>3
  <2>5. \A i \in 1..(Len(l) - 1) : EndPos(l[i]) <= PosOf(last.seq)
    <3> SUFFICES ASSUME NEW i \in 1..(Len(l) - 1) PROVE EndPos(l[i]) <= PosOf(last.seq)
      OBVIOUS
    <3>1. CASE i \in 1..Len(ua) /\ l[i] = ua[i]
      BY <2>2, <3>1
    <3>2. CASE i - Len(ua) \in 1..Len(us) /\ l[i] = us[i - Len(ua)]
      <4>1. i - Len(ua) \in 1..(Len(us) - 1)
        BY <1>7, <3>2
      <4> QED
        BY <2>2, <3>2, <4>1
    <3> QED
      BY <1>7, <3>1, <3>2
  <2>6. PICK z : z = << >>
    OBVIOUS
  <2>7. Len(z) = 0 /\ \A i \in 1..Len(z) : EndPos(z[i]) <= PosOf(last.seq)
    BY <2>6
  <2>8. z = q.unacked /\ l = q.unsent
    BY <1>5, <2>6
  <2> QED
    BY <1>5, <1>8, <2>2, <2>4, <2>5, <2>7, <2>8, SpareIs
<1>9. Spare(q, w)
  BY <1>5, <1>6, <1>8 DEF Spare
<1>10. q.unacked \in Seq(QueueSet(w))
  BY <1>5
<1> QED
  BY <1>5, <1>6, <1>7, <1>9, <1>10, AliveQueues

LEMMA CommitOK ==
  ASSUME NEW p, NEW q, NEW w, NEW e \in Int, DOMAIN p = Fields, Alive(p, w, e),
         q = tcp_rexmit_rto_commit(p)
  PROVE  Alive(q, w, e) /\ Kept(p, q)
<1>1. PICK n : n = p.nrtx + 1
  OBVIOUS
<1>2. PICK r : r = [p EXCEPT !.nrtx = n]
  OBVIOUS
<1>3. q = tcp_output(r)
  BY <1>1, <1>2 DEF tcp_rexmit_rto_commit
<1>4. /\ Kept(p, r) /\ SameQueues(p, r) /\ r.snd_nxt = p.snd_nxt
      /\ r.right_edge = p.right_edge /\ r.out = p.out /\ DOMAIN r = Fields
  BY <1>2, FieldSet DEF Kept, Kept0, SameQueues
<1>5. Alive(r, w, e)
  BY <1>4, AliveSame
<1>6. Alive(q, w, e) /\ Kept(r, q)
  BY <1>3, <1>4, <1>5, OutputOK
<1> QED
  BY <1>4, <1>6, KeptTwice


LEMMA QueueFacts ==
  ASSUME NEW w \in 0..Down, NEW x \in QueueSet(w)
  PROVE  /\ x \in SegType /\ DownSeg(x, w) /\ PosOf(x.seq) \in Nat /\ Len(x.data) \in Nat
         /\ EndPos(x) = PosOf(x.seq) + Len(x.data) /\ EndPos(x) <= w + 1
<1>1. x \in SegType /\ DownSeg(x, w) /\ EndPos(x) <= w + 1
  BY DEF QueueSet
<1>2. x.seq \in SeqNumbers /\ Len(x.data) \in Nat
  BY <1>1, SegmentFields
<1> QED
  BY <1>1, <1>2, Positions DEF EndPos

LEMMA NotBefore ==
  ASSUME NEW w \in 0..Down, NEW x \in QueueSet(w), NEW y \in QueueSet(w), EndPos(x) <= PosOf(y.seq)
  PROVE  ~ TCP_SEQ_LT(y.seq, x.seq)
<1>1. PICK a : a = PosOf(x.seq)
  OBVIOUS
<1>2. PICK b : b = PosOf(y.seq)
  OBVIOUS
<1>3. a \in Nat /\ b \in Nat /\ a <= b /\ b <= w + 1
  <2>1. a \in Nat /\ Len(x.data) \in Nat /\ EndPos(x) = a + Len(x.data)
    BY <1>1, QueueFacts
  <2>2. b \in Nat /\ Len(y.data) \in Nat /\ b + Len(y.data) <= w + 1
    BY <1>2, QueueFacts
  <2> QED
    BY <1>2, <2>1, <2>2
<1>4. x.seq \in SeqNumbers /\ y.seq \in SeqNumbers
  BY QueueFacts, SegmentFields
<1>5. /\ SeqDiff(y.seq, LwipIss) - SeqDiff(x.seq, LwipIss) < Half
      /\ SeqDiff(x.seq, LwipIss) - SeqDiff(y.seq, LwipIss) <= Half
  BY <1>1, <1>2, <1>3, Constants DEF PosOf
<1>6. TCP_SEQ_LT(y.seq, x.seq) <=> SeqDiff(y.seq, LwipIss) < SeqDiff(x.seq, LwipIss)
  BY <1>4, <1>5, BeforePosition, Constants
<1> QED
  BY <1>1, <1>2, <1>3, <1>6 DEF PosOf

LEMMA HeadTail ==
  ASSUME NEW T, NEW s \in Seq(T), s # << >>
  PROVE  /\ Head(s) \in T /\ Head(s) = s[1] /\ Tail(s) \in Seq(T) /\ Len(s) \in Nat /\ Len(s) >= 1
         /\ Len(Tail(s)) = Len(s) - 1 /\ \A i \in 1..(Len(s) - 1) : Tail(s)[i] = s[i + 1]
  OBVIOUS

LEMMA RexmitOK ==
  ASSUME NEW p, NEW q, NEW w \in 0..Down, NEW e, DOMAIN p = Fields, Alive(p, w, e),
         q = tcp_rexmit(p)
  PROVE  Alive(q, w, e) /\ Kept(p, q)
<1>1. CASE p.unacked = << >>
  BY <1>1, KeptSelf DEF tcp_rexmit
<1>2. CASE p.unacked # << >>
  <2>1. PICK us : us = p.unsent
    OBVIOUS
  <2>2. PICK ua : ua = p.unacked
    OBVIOUS
  <2>3. PICK t : t = Tail(ua)
    OBVIOUS
  <2>4. PICK x : x = Head(ua)
    OBVIOUS
  <2>5. PICK l : l = InsertUnacked(us, x)
    OBVIOUS
  <2>6. PICK over : over = IF us = << >> THEN 0 ELSE p.oversize
    OBVIOUS
  <2>7. PICK n : n = p.nrtx + 1
    OBVIOUS
  <2>8. q = [p EXCEPT !.unacked = t, !.unsent = l, !.oversize = over, !.nrtx = n]
    BY <1>2, <2>1, <2>2, <2>3, <2>4, <2>5, <2>6, <2>7, Zenon DEF tcp_rexmit
  <2>9. /\ Kept(p, q) /\ q.unsent = l /\ q.unacked = t /\ q.oversize = over
        /\ q.snd_nxt = p.snd_nxt /\ q.right_edge = p.right_edge /\ q.out = p.out
    BY <2>8, FieldSet DEF Kept, Kept0
  <2>10. us \in Seq(QueueSet(w)) /\ ua \in Seq(QueueSet(w)) /\ p.oversize \in Nat /\ Spare(p, w)
    BY <2>1, <2>2, AliveQueueFacts
  <2>11. /\ x \in QueueSet(w) /\ x = ua[1] /\ t \in Seq(QueueSet(w)) /\ Len(ua) \in Nat /\ Len(ua) >= 1
         /\ Len(t) = Len(ua) - 1 /\ \A i \in 1..(Len(ua) - 1) : t[i] = ua[i + 1]
    BY <1>2, <2>2, <2>3, <2>4, <2>10, HeadTail
  <2>12. l \in Seq(QueueSet(w)) /\ Len(l) = Len(us) + 1
    BY <2>5, <2>10, <2>11, Inserted
  <2>13. over \in Nat
    BY <2>6, <2>10
  <2>14. ASSUME over > 0 PROVE Spare(q, w)
    <3>1. us # << >> /\ over = p.oversize /\ p.oversize > 0
      BY <2>6, <2>14
    <3>2. PICK last : last = us[Len(us)]
      OBVIOUS
    <3>3. /\ EndPos(last) = w + 1 /\ Len(last.data) + p.oversize <= Mss
          /\ \A i \in 1..(Len(us) - 1) : EndPos(us[i]) <= PosOf(last.seq)
          /\ \A i \in 1..Len(ua) : EndPos(ua[i]) <= PosOf(last.seq)
      BY <2>1, <2>2, <2>10, <3>1, <3>2, SpareIs
    <3>4. Len(us) \in Nat /\ Len(us) >= 1 /\ last \in QueueSet(w)
      BY <2>10, <3>1, <3>2
    <3>5. EndPos(x) <= PosOf(last.seq)
      BY <2>11, <3>3
    <3>6. ~ TCP_SEQ_LT(last.seq, x.seq)
      BY <2>11, <3>4, <3>5, NotBefore
    <3>7. /\ l[Len(l)] = last
          /\ \A i \in 1..Len(us) : l[i] = x \/ \E j \in 1..(Len(us) - 1) : l[i] = us[j]
      <4>1. us # << >> /\ ~ TCP_SEQ_LT(us[Len(us)].seq, x.seq)
        BY <3>1, <3>2, <3>6
      <4>2. /\ l[Len(l)] = us[Len(us)]
            /\ \A i \in 1..Len(us) : l[i] = x \/ \E j \in 1..(Len(us) - 1) : l[i] = us[j]
        <5>1. us \in Seq(QueueSet(w)) /\ x \in QueueSet(w)
          BY <2>10, <2>11
        <5>2. KeepsLast(us, x, l)
          BY <2>5, <4>1, <5>1, InsertedLast
        <5> QED
          BY <5>2 DEF KeepsLast
      <4> QED
        BY <3>2, <4>2
    <3>8. \A i \in 1..(Len(l) - 1) : EndPos(l[i]) <= PosOf(last.seq)
      <4> SUFFICES ASSUME NEW i \in 1..(Len(l) - 1) PROVE EndPos(l[i]) <= PosOf(last.seq)
        OBVIOUS
      <4>1. i \in 1..Len(us)
        BY <2>12, <3>4
      <4>2. CASE l[i] = x
        BY <3>5, <4>2
      <4>3. CASE \E j \in 1..(Len(us) - 1) : l[i] = us[j]
        BY <3>3, <4>3
      <4> QED
        BY <3>7, <4>1, <4>2, <4>3
    <3>9. \A i \in 1..Len(t) : EndPos(t[i]) <= PosOf(last.seq)
      BY <2>11, <3>3
    <3>10. l # << >>
      BY <2>12, <3>4
    <3>11. l = q.unsent /\ t = q.unacked /\ q.oversize = p.oversize /\ q.oversize > 0
      BY <2>9, <3>1
    <3> QED
      BY <3>3, <3>7, <3>8, <3>9, <3>10, <3>11, SpareIs, SMTT(30)
  <2>15. Spare(q, w)
    BY <2>9, <2>13, <2>14 DEF Spare
  <2> QED
    BY <2>9, <2>11, <2>12, <2>13, <2>15, AliveQueues
<1> QED
  BY <1>1, <1>2

LEMMA RexmitFastOK ==
  ASSUME NEW p, NEW q, NEW w \in 0..Down, NEW e, DOMAIN p = Fields, Alive(p, w, e),
         q = tcp_rexmit_fast(p)
  PROVE  Alive(q, w, e) /\ Kept(p, q)
<1>1. PICK r : r = tcp_rexmit(p)
  OBVIOUS
<1>2. q = p \/ q = [r EXCEPT !.infr = TRUE, !.rtime = TRUE]
  BY <1>1 DEF tcp_rexmit_fast
<1>3. Alive(r, w, e) /\ Kept(p, r) /\ DOMAIN r = Fields
  BY <1>1, RexmitOK DEF Kept, Kept0
<1>4. CASE q = p
  BY <1>4, KeptSelf
<1>5. CASE q = [r EXCEPT !.infr = TRUE, !.rtime = TRUE]
  <2>1. /\ Kept(r, q) /\ SameQueues(r, q) /\ q.snd_nxt = r.snd_nxt
        /\ q.right_edge = r.right_edge /\ q.out = r.out
    BY <1>3, <1>5, FieldSet DEF Kept, Kept0, SameQueues
  <2>2. Alive(q, w, e)
    BY <1>3, <2>1, AliveSame
  <2> QED
    BY <1>3, <2>1, <2>2, KeptTwice
<1> QED
  BY <1>2, <1>4, <1>5

LEMMA PurgeOK ==
  ASSUME NEW p, NEW q, NEW w, NEW e, DOMAIN p = Fields, Alive(p, w, e), q = tcp_pcb_purge(p)
  PROVE  Alive(q, w, e) /\ Kept(p, q)
<1>1. /\ Kept(p, q) /\ q.unsent = << >> /\ q.unacked = << >> /\ q.oversize = 0
      /\ q.snd_nxt = p.snd_nxt /\ q.right_edge = p.right_edge /\ q.out = p.out
  BY FieldSet DEF Kept, Kept0, tcp_pcb_purge
<1>2. Spare(q, w)
  BY <1>1 DEF Spare
<1>3. q.unsent \in Seq(QueueSet(w)) /\ q.unacked \in Seq(QueueSet(w)) /\ q.oversize \in Nat
  BY <1>1
<1> QED
  BY <1>1, <1>2, <1>3, AliveQueues


(* A segment taken from the front of a queue segment, or from its end. *)
LEMMA SliceOK ==
  ASSUME NEW w \in 0..Down, NEW x \in QueueSet(w), NEW k \in 0..Len(x.data), NEW y \in SegType
  PROVE  /\ y.seq = x.seq /\ y.data = SubSeq(x.data, 1, k)
              => y \in QueueSet(w) /\ EndPos(y) <= EndPos(x) /\ DownSeg(y, w)
         /\ y.seq = SeqAdd(x.seq, k) /\ y.data = SubSeq(x.data, k + 1, Len(x.data)) /\ k < Len(x.data)
              => y \in QueueSet(w) /\ EndPos(y) = EndPos(x) /\ DownSeg(y, w)
<1>1. /\ x \in SegType /\ DownSeg(x, w) /\ PosOf(x.seq) \in Nat /\ Len(x.data) \in Nat
      /\ EndPos(x) = PosOf(x.seq) + Len(x.data) /\ EndPos(x) <= w + 1
  BY QueueFacts
<1>2. x.seq \in SeqNumbers /\ x.data \in Seq(Nat)
  BY <1>1, SegmentFields
<1>3. /\ Len(x.data) <= Mss
      /\ \A i \in 1..Len(x.data) : x.data[i] = PosOf(x.seq) + i - 1 /\ x.data[i] \in 1..w
  BY <1>1 DEF DownSeg, Carries, PosOf
<1>4. Mss \in Nat
  BY Constants DEF Mss, Smaller
<1>5. ASSUME y.seq = x.seq, y.data = SubSeq(x.data, 1, k)
      PROVE  y \in QueueSet(w) /\ EndPos(y) <= EndPos(x) /\ DownSeg(y, w)
  <2>1. Len(y.data) = k /\ \A i \in 1..k : y.data[i] = x.data[i]
    BY <1>1, <1>2, <1>5, Piece
  <2>2. EndPos(y) = PosOf(x.seq) + k
    BY <1>5, <2>1 DEF EndPos
  <2>3. DownSeg(y, w)
    BY <1>1, <1>3, <1>4, <1>5, <2>1, SMTT(30) DEF DownSeg, Carries, PosOf
  <2> QED
    BY <1>1, <2>2, <2>3, QueueSeg
<1>6. ASSUME y.seq = SeqAdd(x.seq, k), y.data = SubSeq(x.data, k + 1, Len(x.data)), k < Len(x.data)
      PROVE  y \in QueueSet(w) /\ EndPos(y) = EndPos(x) /\ DownSeg(y, w)
  <2>1. Len(y.data) = Len(x.data) - k /\ \A i \in 1..(Len(x.data) - k) : y.data[i] = x.data[k + i]
    BY <1>1, <1>2, <1>6, Piece, SMTT(30)
  <2>2. SeqDiff(x.seq, LwipIss) + k < SeqMod /\ k \in Nat
    BY <1>1, <1>6, Constants DEF PosOf
  <2>3. PosOf(y.seq) = PosOf(x.seq) + k
    BY <1>2, <1>6, <2>2, AddPosition, Constants DEF PosOf
  <2>4. EndPos(y) = EndPos(x)
    BY <1>1, <2>1, <2>2, <2>3 DEF EndPos
  <2>5. \A i \in 1..Len(y.data) : y.data[i] = PosOf(y.seq) + i - 1 /\ y.data[i] \in 1..w
    <3> SUFFICES ASSUME NEW i \in 1..Len(y.data)
                 PROVE  y.data[i] = PosOf(y.seq) + i - 1 /\ y.data[i] \in 1..w
      OBVIOUS
    <3>1. k + i \in 1..Len(x.data) /\ y.data[i] = x.data[k + i] /\ i \in Nat
      <4>1. PICK m : m = Len(x.data)
        OBVIOUS
      <4>2. m \in Nat /\ i \in 1..(m - k)
        BY <1>1, <2>1, <4>1, Zenon
      <4>3. k + i \in 1..m /\ i \in Nat
        BY <2>2, <4>2
      <4>4. y.data[i] = x.data[k + i]
        BY <2>1, <4>1, <4>2, Zenon
      <4> QED
        BY <4>1, <4>3, <4>4, Zenon
    <3>2. x.data[k + i] = PosOf(x.seq) + (k + i) - 1 /\ x.data[k + i] \in 1..w
      BY <1>3, <3>1
    <3> QED
      BY <1>1, <2>2, <2>3, <3>1, <3>2
  <2>6. DownSeg(y, w)
    BY <1>1, <1>3, <1>4, <2>1, <2>2, <2>5, SMTT(30) DEF DownSeg, Carries, PosOf
  <2> QED
    BY <1>1, <2>4, <2>6, QueueSeg
<1> QED
  BY <1>5, <1>6

LEMMA ProbeOK ==
  ASSUME NEW p, NEW q, NEW w \in 0..Down, NEW e \in Int, DOMAIN p = Fields, Alive(p, w, e),
         q = tcp_zero_window_probe(p)
  PROVE  Alive(q, w, e) /\ Kept(p, q)
<1>1. CASE p.unsent = << >>
  BY <1>1, KeptSelf DEF tcp_zero_window_probe
<1>2. CASE p.unsent # << >>
  <2>1. PICK seg : seg = Head(p.unsent)
    OBVIOUS
  <2>2. PICK bare : bare = (seg.fin /\ seg.data = << >>)
    OBVIOUS
  <2>3. PICK d : d = SubSeq(seg.data, 1, 1)
    OBVIOUS
  <2>4. PICK x : x = Segment(seg.seq, d, FALSE, bare)
    OBVIOUS
  <2>5. PICK y : y = Announce(p, x)
    OBVIOUS
  <2>6. PICK nxt : nxt = SeqAdd(seg.seq, 1)
    OBVIOUS
  <2>7. PICK n1 : n1 = IF TCP_SEQ_LT(p.snd_nxt, nxt) THEN nxt ELSE p.snd_nxt
    OBVIOUS
  <2>8. PICK r : r = SeqAdd(p.rcv_nxt, p.rcv_ann_wnd)
    OBVIOUS
  <2>9. PICK o : o = Append(p.out, y)
    OBVIOUS
  <2>10. PICK k : k = p.persist_probe + 1
    OBVIOUS
  <2>11. q = [[p EXCEPT !.right_edge = r] EXCEPT !.persist_probe = k, !.snd_nxt = n1, !.out = o]
    <3>1. PICK p1 : p1 = [p EXCEPT !.right_edge = r]
      OBVIOUS
    <3>2. p1.out = p.out /\ p1.snd_nxt = p.snd_nxt /\ p1.persist_probe = p.persist_probe
      BY <3>1, FieldSet
    <3>3. p1 = Announced(p)
      BY <2>8, <3>1 DEF Announced
    <3>4. q = [p1 EXCEPT !.persist_probe = @ + 1,
                         !.snd_nxt = IF TCP_SEQ_LT(@, nxt) THEN nxt ELSE @,
                         !.out = Append(@, y)]
      BY <1>2, <2>1, <2>2, <2>3, <2>4, <2>5, <2>6, <3>3, Zenon DEF tcp_zero_window_probe
    <3> QED
      BY <2>7, <2>9, <2>10, <3>1, <3>2, <3>4, Zenon
  <2>12. Kept(p, q) /\ SameQueues(p, q) /\ q.snd_nxt = n1 /\ q.right_edge = r /\ q.out = o
    BY <2>11, FieldSet DEF Kept, Kept0, SameQueues
  <2>13. /\ p.unsent \in Seq(QueueSet(w)) /\ p.rcv_nxt \in SeqNumbers /\ p.rcv_ann_wnd \in Nat
         /\ p.snd_nxt \in SeqNumbers /\ RcvOK(p) /\ SndOK(p, w) /\ OutOK(p, w, e)
    BY AliveQueueFacts
  <2>14. seg \in QueueSet(w)
    BY <1>2, <2>1, <2>13, HeadTail
  <2>15. seg \in SegType /\ DownSeg(seg, w)
    BY <2>14, QueueFacts
  <2>16. /\ seg.seq \in SeqNumbers /\ seg.data \in Seq(Nat) /\ Len(seg.data) \in Nat
         /\ seg.fin \in BOOLEAN /\ bare \in BOOLEAN
    BY <2>2, <2>15, SegmentFields
  <2>17. DownSeg(x, w) /\ x \in SegType
    <3>1. CASE Len(seg.data) = 0
      <4>1. d = << >>
        BY <2>3, <2>16, <3>1
      <4>2. d \in Seq(Nat)
        BY <4>1
      <4>3. x \in SegType /\ x.data = << >>
        BY <2>4, <2>16, <4>1, <4>2, Small DEF Segment, SegType
      <4> QED
        BY <4>3, EmptyDownSeg
    <3>2. CASE Len(seg.data) >= 1
      <4>1. 1 \in 0..Len(seg.data) /\ d \in Seq(Nat)
        BY <2>3, <2>16, <3>2, Piece
      <4>2. x \in SegType /\ x.seq = seg.seq /\ x.data = d
        BY <2>4, <2>16, <4>1, Small DEF Segment, SegType
      <4> QED
        BY <2>3, <2>14, <4>1, <4>2, SliceOK
    <3> QED
      BY <2>16, <3>1, <3>2
  <2>18. y \in SegType /\ DownSeg(y, w) /\ Tells(p, y)
    BY <2>5, <2>13, <2>17, AnnounceOK
  <2>19. n1 \in SeqNumbers
    <3>1. nxt \in SeqNumbers
      <4>1. seg.seq \in Int
        BY <2>16 DEF SeqNumbers
      <4> QED
        BY <2>6, <4>1, AnySeq
    <3> QED
      BY <2>7, <2>13, <3>1
  <2>20. PICK segs : segs = << y >>
    OBVIOUS
  <2>21. DownSegs(segs, w) /\ Len(segs) = 1 /\ segs[1] = y
    BY <2>18, <2>20, OneSeg
  <2>22. \A i \in 1..Len(segs) : Tells(p, segs[i])
    BY <2>18, <2>21
  <2>23. q.out = p.out \o segs
    <3>1. p.out \in Seq(SegType)
      BY <2>13 DEF OutOK, DownSegs
    <3> QED
      BY <2>9, <2>12, <2>18, <2>20, <3>1, AppendJoins
  <2>24. RcvOK(q) /\ OutOK(q, w, e)
    <3>1. /\ q.rcv_nxt = p.rcv_nxt /\ q.rcv_wnd = p.rcv_wnd /\ q.rcv_ann_wnd = p.rcv_ann_wnd
          /\ q.right_edge = SeqAdd(p.rcv_nxt, p.rcv_ann_wnd)
      BY <2>8, <2>12 DEF Kept, Kept0
    <3> QED
      BY <2>13, <2>21, <2>22, <2>23, <3>1, Emit
  <2>25. SndOK(q, w)
    BY <2>12, <2>13, <2>19, SameSnd
  <2> QED
    BY <2>12, <2>24, <2>25 DEF Alive
<1> QED
  BY <1>1, <1>2

LEMMA DataReplaced ==
  ASSUME NEW x \in SegType, NEW d \in Seq(Nat), NEW y, y = [x EXCEPT !.data = d]
  PROVE  /\ y \in SegType /\ y.seq = x.seq /\ y.data = d /\ y.syn = x.syn /\ y.fin = x.fin
         /\ y.rst = x.rst /\ y.isAck = x.isAck /\ y.ack = x.ack /\ y.wnd = x.wnd
  BY DEF SegType

LEMMA SplitOK ==
  ASSUME NEW p, NEW q, NEW w \in 0..Down, NEW e \in Int, NEW k \in Nat,
         DOMAIN p = Fields, Alive(p, w, e), q = tcp_split_unsent_seg(p, k)
  PROVE  Alive(q, w, e) /\ Kept(p, q)
<1>1. PICK us : us = p.unsent
  OBVIOUS
<1>2. PICK u : u = Head(us)
  OBVIOUS
<1>3. CASE us = << >> \/ Len(u.data) <= k
  BY <1>1, <1>2, <1>3, KeptSelf DEF tcp_split_unsent_seg
<1>4. CASE us # << >> /\ ~ (Len(u.data) <= k)
  <2>1. PICK d1 : d1 = SubSeq(u.data, 1, k)
    OBVIOUS
  <2>2. PICK d2 : d2 = SubSeq(u.data, k + 1, Len(u.data))
    OBVIOUS
  <2>3. PICK rest : rest = Segment(SeqAdd(u.seq, k), d2, FALSE, u.fin)
    OBVIOUS
  <2>4. PICK head : head = [u EXCEPT !.data = d1]
    OBVIOUS
  <2>5. PICK l : l = << head, rest >> \o Tail(us)
    OBVIOUS
  <2>6. PICK over : over = IF Len(us) = 1 THEN 0 ELSE p.oversize
    OBVIOUS
  <2>7. q = [p EXCEPT !.unsent = l, !.oversize = over]
    BY <1>1, <1>2, <1>4, <2>1, <2>2, <2>3, <2>4, <2>5, <2>6, Zenon DEF tcp_split_unsent_seg
  <2>8. /\ Kept(p, q) /\ q.unsent = l /\ q.unacked = p.unacked /\ q.oversize = over
        /\ q.snd_nxt = p.snd_nxt /\ q.right_edge = p.right_edge /\ q.out = p.out
    BY <2>7, FieldSet DEF Kept, Kept0
  <2>9. us \in Seq(QueueSet(w)) /\ p.unacked \in Seq(QueueSet(w)) /\ p.oversize \in Nat /\ Spare(p, w)
    BY <1>1, AliveQueueFacts
  <2>10. PICK t : t = Tail(us)
    OBVIOUS
  <2>11. /\ u \in QueueSet(w) /\ u = us[1] /\ t \in Seq(QueueSet(w)) /\ Len(us) \in Nat /\ Len(us) >= 1
         /\ Len(t) = Len(us) - 1 /\ \A i \in 1..(Len(us) - 1) : t[i] = us[i + 1]
    BY <1>2, <1>4, <2>9, <2>10, HeadTail
  <2>12. u \in SegType
    BY <2>11, QueueFacts
  <2>13. u.seq \in SeqNumbers /\ u.data \in Seq(Nat) /\ Len(u.data) \in Nat /\ u.fin \in BOOLEAN
    BY <2>12, SegmentFields
  <2>14. k \in 0..Len(u.data) /\ k < Len(u.data)
    BY <1>4, <2>13
  <2>15. d1 \in Seq(Nat) /\ d2 \in Seq(Nat)
    BY <2>1, <2>2, <2>13, <2>14, Piece, SMTT(30)
  <2>16. head \in SegType /\ head.seq = u.seq /\ head.data = d1
    BY <2>4, <2>12, <2>15, DataReplaced
  <2>17. SeqAdd(u.seq, k) \in SeqNumbers
    <3>1. u.seq \in Int
      BY <2>13 DEF SeqNumbers
    <3> QED
      BY <3>1, AnySeq
  <2>18. rest \in SegType /\ rest.seq = SeqAdd(u.seq, k) /\ rest.data = d2
    BY <2>3, <2>13, <2>15, <2>17, Small DEF Segment, SegType
  <2>19. head \in QueueSet(w) /\ EndPos(head) <= EndPos(u)
    BY <2>1, <2>11, <2>14, <2>16, SliceOK
  <2>20. rest \in QueueSet(w) /\ EndPos(rest) = EndPos(u)
    BY <2>2, <2>11, <2>14, <2>18, SliceOK
  <2>21. /\ l \in Seq(QueueSet(w)) /\ Len(l) = Len(us) + 1 /\ l[1] = head /\ l[2] = rest
         /\ \A i \in 2..Len(us) : l[i + 1] = us[i]
    <3>1. PICK b : b = << head, rest >>
      OBVIOUS
    <3>2. b \in Seq(QueueSet(w)) /\ Len(b) = 2 /\ b[1] = head /\ b[2] = rest
      BY <2>19, <2>20, <3>1
    <3>3. l \in Seq(QueueSet(w)) /\ Len(l) = Len(us) + 1
      BY <2>5, <2>10, <2>11, <3>1, <3>2, Joined
    <3>4. l[1] = head /\ l[2] = rest
      BY <2>5, <2>10, <2>11, <3>1, <3>2
    <3>5. ASSUME NEW i \in 2..Len(us) PROVE l[i + 1] = us[i]
      <4>1. i - 1 \in 1..(Len(us) - 1) /\ l[i + 1] = t[i - 1]
        BY <2>5, <2>10, <2>11, <3>1, <3>2, SMTT(30)
      <4> QED
        BY <2>11, <4>1
    <3> QED
      BY <3>3, <3>4, <3>5
  <2>22. over \in Nat
    BY <2>6, <2>9
  <2>23. ASSUME over > 0 PROVE Spare(q, w)
    <3>1. Len(us) >= 2 /\ over = p.oversize /\ p.oversize > 0
      BY <2>6, <2>11, <2>23
    <3>2. PICK last : last = us[Len(us)]
      OBVIOUS
    <3>3. PICK ua : ua = p.unacked
      OBVIOUS
    <3>4. /\ EndPos(last) = w + 1 /\ Len(last.data) + p.oversize <= Mss
          /\ \A i \in 1..(Len(us) - 1) : EndPos(us[i]) <= PosOf(last.seq)
          /\ \A i \in 1..Len(ua) : EndPos(ua[i]) <= PosOf(last.seq)
      BY <1>1, <2>9, <3>1, <3>2, <3>3, SpareIs
    <3>5. l[Len(l)] = last /\ l # << >>
      BY <2>11, <2>21, <3>1, <3>2
    <3>6. EndPos(u) <= PosOf(last.seq)
      BY <2>11, <3>1, <3>4
    <3>7. EndPos(head) <= PosOf(last.seq)
      <4>0. PosOf(u.seq) \in Nat /\ Len(u.data) \in Nat /\ EndPos(u) = PosOf(u.seq) + Len(u.data)
        BY <2>11, QueueFacts
      <4>4. PosOf(head.seq) \in Nat /\ Len(head.data) \in Nat /\ EndPos(head) = PosOf(head.seq) + Len(head.data)
        BY <2>19, QueueFacts
      <4>1. EndPos(head) \in Int /\ EndPos(u) \in Int
        BY <4>0, <4>4, SMTT(30)
      <4>2. last \in QueueSet(w)
        BY <2>9, <2>11, <3>2
      <4>3. PosOf(last.seq) \in Int
        BY <4>2, QueueFacts
      <4> QED
        BY <2>19, <3>6, <4>1, <4>3
    <3>8. ASSUME NEW i \in 1..(Len(l) - 1) PROVE EndPos(l[i]) <= PosOf(last.seq)
      <4>1. CASE i = 1
        BY <2>21, <3>7, <4>1
      <4>2. CASE i = 2
        BY <2>20, <2>21, <3>6, <4>2
      <4>3. CASE i >= 3
        <5>1. i - 1 \in 2..Len(us) /\ i - 1 \in 1..(Len(us) - 1)
          BY <2>11, <2>21, <4>3
        <5>2. l[(i - 1) + 1] = us[i - 1]
          BY <2>21, <5>1
        <5>3. l[i] = us[i - 1]
          BY <5>1, <5>2
        <5> QED
          BY <3>4, <5>1, <5>3
      <4> QED
        BY <2>11, <2>21, <4>1, <4>2, <4>3
    <3>9. l = q.unsent /\ ua = q.unacked /\ q.oversize = p.oversize /\ q.oversize > 0
      BY <2>8, <3>1, <3>3
    <3> QED
      BY <3>4, <3>5, <3>8, <3>9, SpareIs, SMTT(30)
  <2>24. Spare(q, w)
    BY <2>8, <2>22, <2>23 DEF Spare
  <2>25. q.unacked \in Seq(QueueSet(w))
    BY <2>8, <2>9
  <2> QED
    BY <2>8, <2>21, <2>22, <2>24, <2>25, AliveQueues
<1> QED
  BY <1>3, <1>4


(* As Kept, for an operator that moves snd_lbb. *)
KeptRcv(p, q) == Kept0(p, q) /\ q.rcv_ann_wnd = p.rcv_ann_wnd

LEMMA AliveWritten ==
  ASSUME NEW p, NEW q, NEW w, NEW v, NEW e, RcvOK(p), OutOK(p, v, e), SndOK(p, w), KeptRcv(p, q),
         q.snd_nxt = p.snd_nxt, q.right_edge = p.right_edge, q.out = p.out,
         q.snd_lbb \in SeqNumbers,
         q.oversize \in Nat, q.unsent \in Seq(QueueSet(v)), q.unacked \in Seq(QueueSet(v)),
         Spare(q, v)
  PROVE  Alive(q, v, e)
<1>1. RcvOK(q)
  BY DEF RcvOK, KeptRcv, Kept0
<1>2. SndOK(q, v)
  BY DEF SndOK, KeptRcv, Kept0
<1>3. OutOK(q, v, e)
  BY SameOut DEF KeptRcv, Kept0
<1> QED
  BY <1>1, <1>2, <1>3 DEF Alive

LEMMA EnqueueOK ==
  ASSUME NEW p, NEW q, NEW w \in 0..Down, NEW e \in Int, NEW syn \in BOOLEAN, NEW fin \in BOOLEAN,
         DOMAIN p = Fields, Alive(p, w, e), PosOf(p.snd_lbb) <= w + 1,
         q = tcp_enqueue_flags(p, syn, fin)
  PROVE  Alive(q, w, e) /\ KeptRcv(p, q) /\ q.snd_lbb = SeqAdd(p.snd_lbb, 1)
<1>1. PICK x : x = Segment(p.snd_lbb, << >>, syn, fin)
  OBVIOUS
<1>2. PICK l : l = Append(p.unsent, x)
  OBVIOUS
<1>3. PICK s : s = SeqAdd(p.snd_lbb, 1)
  OBVIOUS
<1>4. q = [p EXCEPT !.unsent = l, !.oversize = 0, !.snd_lbb = s]
  BY <1>1, <1>2, <1>3, Zenon DEF tcp_enqueue_flags
<1>5. /\ KeptRcv(p, q) /\ q.unsent = l /\ q.unacked = p.unacked /\ q.oversize = 0 /\ q.snd_lbb = s
      /\ q.snd_nxt = p.snd_nxt /\ q.right_edge = p.right_edge /\ q.out = p.out
  BY <1>4, FieldSet DEF KeptRcv, Kept0
<1>6. /\ p.unsent \in Seq(QueueSet(w)) /\ p.unacked \in Seq(QueueSet(w)) /\ p.snd_lbb \in SeqNumbers
      /\ RcvOK(p) /\ SndOK(p, w) /\ OutOK(p, w, e)
  BY AliveQueueFacts
<1>7. << >> \in Seq(Nat)
  OBVIOUS
<1>8. x \in SegType /\ x.seq = p.snd_lbb /\ x.data = << >>
  BY <1>1, <1>6, <1>7, Small DEF Segment, SegType
<1>9. x \in QueueSet(w)
  <2>1. DownSeg(x, w)
    BY <1>8, EmptyDownSeg
  <2>2. EndPos(x) <= w + 1
    BY <1>6, <1>8, Positions DEF EndPos
  <2> QED
    BY <2>1, <2>2, QueueSeg
<1>10. l \in Seq(QueueSet(w))
  BY <1>2, <1>6, <1>9
<1>11. s \in SeqNumbers
  <2>1. p.snd_lbb \in Int /\ 1 \in Int
    BY <1>6 DEF SeqNumbers
  <2> QED
    BY <1>3, <2>1, AnySeq
<1>12. Spare(q, w)
  BY <1>5 DEF Spare
<1>13. q.unacked \in Seq(QueueSet(w)) /\ q.oversize \in Nat
  BY <1>5, <1>6
<1>14. Alive(q, w, e)
  BY <1>5, <1>6, <1>10, <1>11, <1>12, <1>13, AliveWritten
<1> QED
  BY <1>3, <1>5, <1>14


LEMMA SendFinOK ==
  ASSUME NEW p, NEW q, NEW w \in 0..Down, NEW e \in Int,
         DOMAIN p = Fields, Alive(p, w, e), PosOf(p.snd_lbb) <= w + 1, q = tcp_send_fin(p)
  PROVE  Alive(q, w, e) /\ KeptRcv(p, q)
<1>1. PICK us : us = p.unsent
  OBVIOUS
<1>2. PICK n : n = Len(us)
  OBVIOUS
<1>3. /\ us \in Seq(QueueSet(w)) /\ p.unacked \in Seq(QueueSet(w)) /\ p.oversize \in Nat /\ Spare(p, w)
  BY <1>1, AliveQueueFacts
<1>4. CASE n > 0 /\ ~ us[n].syn /\ ~ us[n].fin
  <2>1. n \in 1..Len(us)
    BY <1>2, <1>3, <1>4
  <2>2. PICK x : x = us[n]
    OBVIOUS
  <2>3. PICK y : y = [x EXCEPT !.fin = TRUE]
    OBVIOUS
  <2>4. PICK l : l = [us EXCEPT ![n] = y]
    OBVIOUS
  <2>5. q = [p EXCEPT !.unsent = l]
    <3>1. q = [p EXCEPT !.unsent[n].fin = TRUE]
      BY <1>1, <1>2, <1>4, Zenon DEF tcp_send_fin
    <3> QED
      BY <1>1, <2>2, <2>3, <2>4, <3>1, Zenon
  <2>6. /\ Kept(p, q) /\ KeptRcv(p, q) /\ q.unsent = l /\ q.unacked = p.unacked /\ q.oversize = p.oversize
        /\ q.snd_nxt = p.snd_nxt /\ q.right_edge = p.right_edge /\ q.out = p.out
    BY <2>5, FieldSet DEF Kept, KeptRcv, Kept0
  <2>7. x \in QueueSet(w)
    BY <1>3, <2>1, <2>2
  <2>8. x \in SegType /\ DownSeg(x, w) /\ EndPos(x) <= w + 1
    BY <2>7, QueueFacts
  <2>9. y \in SegType /\ y.seq = x.seq /\ y.data = x.data
    BY <2>3, <2>8 DEF SegType
  <2>10. y \in QueueSet(w) /\ EndPos(y) = EndPos(x)
    BY <2>8, <2>9, SameDownSeg, QueueSeg DEF EndPos
  <2>11. l \in Seq(QueueSet(w)) /\ Len(l) = Len(us) /\ l[n] = y /\ \A i \in 1..Len(us) : i # n => l[i] = us[i]
    BY <1>3, <2>1, <2>4, <2>10
  <2>12. ASSUME p.oversize > 0 PROVE Spare(q, w)
    <3>1. PICK ua : ua = p.unacked
      OBVIOUS
    <3>2. /\ us # << >> /\ EndPos(x) = w + 1 /\ Len(x.data) + p.oversize <= Mss
          /\ \A i \in 1..(Len(us) - 1) : EndPos(us[i]) <= PosOf(x.seq)
          /\ \A i \in 1..Len(ua) : EndPos(ua[i]) <= PosOf(x.seq)
      BY <1>1, <1>2, <1>3, <2>2, <2>12, <3>1, SpareIs
    <3>3. EndPos(y) = w + 1 /\ Len(y.data) + p.oversize <= Mss /\ y = l[Len(l)] /\ l # << >>
      BY <1>2, <2>1, <2>9, <2>10, <2>11, <3>2
    <3>4. \A i \in 1..(Len(l) - 1) : EndPos(l[i]) <= PosOf(y.seq)
      <4>1. Len(l) = n /\ n \in Nat
        BY <1>2, <2>1, <2>11
      <4> SUFFICES ASSUME NEW i \in 1..(n - 1) PROVE EndPos(l[i]) <= PosOf(y.seq)
        BY <4>1
      <4>2. i \in 1..Len(us) /\ i # n /\ i \in 1..(Len(us) - 1)
        BY <1>2, <4>1
      <4> QED
        BY <2>9, <2>11, <3>2, <4>2
    <3>5. \A i \in 1..Len(ua) : EndPos(ua[i]) <= PosOf(y.seq)
      BY <2>9, <3>2
    <3>6. l = q.unsent /\ ua = q.unacked /\ q.oversize = p.oversize /\ q.oversize > 0
      BY <2>6, <2>12, <3>1
    <3> QED
      BY <3>3, <3>4, <3>5, <3>6, SpareIs, SMTT(30)
  <2>13. Spare(q, w)
    BY <1>3, <2>6, <2>12 DEF Spare
  <2>14. q.unacked \in Seq(QueueSet(w)) /\ q.oversize \in Nat
    BY <1>3, <2>6
  <2> QED
    BY <2>6, <2>11, <2>13, <2>14, AliveQueues
<1>5. CASE ~ (n > 0 /\ ~ us[n].syn /\ ~ us[n].fin)
  <2>1. PICK f : f = FALSE
    OBVIOUS
  <2>2. PICK t : t = TRUE
    OBVIOUS
  <2>3. q = tcp_enqueue_flags(p, f, t) /\ f \in BOOLEAN /\ t \in BOOLEAN
    BY <1>1, <1>2, <1>5, <2>1, <2>2, Zenon DEF tcp_send_fin
  <2> QED
    BY <2>3, EnqueueOK
<1> QED
  BY <1>4, <1>5


LEMMA Quotient ==
  ASSUME NEW a \in Nat, NEW m \in Nat \ {0}
  PROVE  a \div m \in Nat /\ m * (a \div m) <= a /\ a < m * (a \div m) + m
  OBVIOUS

LEMMA Times ==
  ASSUME NEW i \in Nat, NEW j \in Nat, NEW m \in Nat, i <= j
  PROVE  i * m \in Nat /\ j * m \in Nat /\ i * m <= j * m
  OBVIOUS

LEMMA TimesNext ==
  ASSUME NEW i \in Int, NEW m \in Nat
  PROVE  i * m \in Int /\ (i - 1) * m = i * m - m /\ m * i = i * m
  OBVIOUS


LEMMA MssIs ==
  /\ Mss \in Nat \ {0}
  /\ \A p : p.snd_wnd_max = PeerBuf => mss_local(p) = Mss
<1>1. Mss \in Nat \ {0}
  BY Constants DEF Mss, Smaller
<1>2. ASSUME NEW p, p.snd_wnd_max = PeerBuf PROVE mss_local(p) = Mss
  BY <1>2 DEF Mss, mss_local
<1> QED
  BY <1>1, <1>2

(* The bytes after the first g. *)
Numbered(d, g) == d \in Seq(Nat) /\ \A i \in 1..Len(d) : d[i] = g + i

(* One of the segments tcp_write makes: the bytes f + 1 to t of b. *)
Slice(w, b, f, t, d) ==
    /\ w \in Nat /\ Numbered(b, w) /\ f \in Nat /\ t \in Nat /\ f <= t /\ t <= Len(b)
    /\ d = SubSeq(b, f + 1, t)

LEMMA WrittenBytes ==
  ASSUME NEW w, NEW b, NEW f, NEW t, NEW d, Slice(w, b, f, t, d)
  PROVE  d \in Seq(Nat) /\ Len(d) = t - f /\ Numbered(d, w + f)
<1>9. PICK n : n = Len(b)
  OBVIOUS
<1>0. /\ b \in Seq(Nat) /\ \A i \in 1..n : b[i] = w + i
      /\ w \in Nat /\ f \in Nat /\ t \in Nat /\ f <= t /\ t <= n /\ d = SubSeq(b, f + 1, t) /\ n \in Nat
  <2>1. Numbered(b, w) /\ w \in Nat /\ f \in Nat /\ t \in Nat /\ f <= t /\ t <= n /\ d = SubSeq(b, f + 1, t)
    BY <1>9, Zenon DEF Slice
  <2>2. b \in Seq(Nat) /\ \A i \in 1..n : b[i] = w + i
    BY <1>9, <2>1, Zenon DEF Numbered
  <2>3. n \in Nat
    BY <1>9, <2>2
  <2> QED
    BY <2>1, <2>2, <2>3, Zenon
<1>1. f + 1 \in Nat /\ 1 <= f + 1
  BY <1>0
<1>2. /\ d \in Seq(Nat) /\ Len(d) = IF f + 1 <= t THEN t - (f + 1) + 1 ELSE 0
      /\ \A i \in 1..Len(d) : d[i] = b[(f + 1) + i - 1] /\ (f + 1) + i - 1 \in 1..Len(b)
  <2>1. PICK m : m = f + 1
    OBVIOUS
  <2>2. m \in Nat /\ 1 <= m /\ t \in Nat /\ t <= Len(b) /\ b \in Seq(Nat) /\ d = SubSeq(b, m, t)
    BY <1>0, <1>1, <1>9, <2>1
  <2>3. /\ SubSeq(b, m, t) \in Seq(Nat)
        /\ Len(SubSeq(b, m, t)) = IF m <= t THEN t - m + 1 ELSE 0
        /\ \A i \in 1..Len(SubSeq(b, m, t)) :
              SubSeq(b, m, t)[i] = b[m + i - 1] /\ m + i - 1 \in 1..Len(b)
    BY <2>2, Piece
  <2> QED
    BY <2>1, <2>2, <2>3, Zenon
<1>3. Len(d) = t - f
  BY <1>0, <1>2
<1>4. ASSUME NEW i \in 1..(t - f) PROVE d[i] = w + f + i
  <2>1. PICK j : j = (f + 1) + i - 1
    OBVIOUS
  <2>2. d[i] = b[j] /\ j \in 1..n /\ j = f + i
    BY <1>0, <1>2, <1>3, <1>9, <2>1, SMTT(30)
  <2> QED
    BY <1>0, <2>2
<1>5. Numbered(d, w + f)
  BY <1>0, <1>2, <1>3, <1>4 DEF Numbered
<1> QED
  BY <1>2, <1>3, <1>5

LEMMA WrittenPlace ==
  ASSUME NEW w \in Nat, NEW f \in Nat, w + f <= Down, NEW s \in SeqNumbers, PosOf(s) = w + 1
  PROVE  SeqAdd(s, f) \in SeqNumbers /\ PosOf(SeqAdd(s, f)) = w + 1 + f
<1>1. SeqDiff(s, LwipIss) + f < SeqMod
  BY Constants DEF PosOf
<1>2. LwipIss \in SeqNumbers
  BY Constants
<1>3. SeqAdd(s, f) \in SeqNumbers /\ SeqDiff(SeqAdd(s, f), LwipIss) = SeqDiff(s, LwipIss) + f
  BY <1>1, <1>2, AddPosition
<1> QED
  BY <1>3 DEF PosOf

Placed(x, g, l, v) ==
    /\ v \in Nat /\ g \in Nat /\ l \in Nat /\ l <= Mss /\ g + l <= v
    /\ x \in SegType /\ PosOf(x.seq) = g + 1 /\ Len(x.data) = l /\ Numbered(x.data, g)

LEMMA WrittenQueued ==
  ASSUME NEW v, NEW g, NEW l, NEW x, Placed(x, g, l, v)
  PROVE  x \in QueueSet(v) /\ EndPos(x) = g + 1 + l
<1>0. /\ x \in SegType /\ PosOf(x.seq) = g + 1 /\ Len(x.data) = l /\ Numbered(x.data, g)
      /\ v \in Nat /\ g \in Nat /\ l \in Nat /\ l <= Mss /\ g + l <= v
  BY DEF Placed
<1>1. EndPos(x) = g + 1 + l
  BY <1>0 DEF EndPos
<1>2. ASSUME NEW i \in 1..Len(x.data)
      PROVE  x.data[i] = SeqDiff(x.seq, LwipIss) + i - 1 /\ x.data[i] \in 1..v
  BY <1>0, SMTT(30) DEF PosOf, Numbered
<1>3. DownSeg(x, v)
  BY <1>0, <1>2 DEF DownSeg, Carries
<1>4. EndPos(x) <= v + 1
  BY <1>0, <1>1
<1> QED
  BY <1>1, <1>3, <1>4, QueueSeg

SegmentOf(w, n, s, b, f, t, d, x) ==
    /\ Slice(w, b, f, t, d) /\ n = Len(b) /\ w + n <= Down /\ t <= f + Mss
    /\ s \in SeqNumbers /\ PosOf(s) = w + 1
    /\ x = Segment(SeqAdd(s, f), d, FALSE, FALSE)

LEMMA WrittenSegment ==
  ASSUME NEW w, NEW n, NEW s, NEW b, NEW f, NEW t, NEW d, NEW x, SegmentOf(w, n, s, b, f, t, d, x)
  PROVE  /\ x \in QueueSet(w + n) /\ PosOf(x.seq) = w + 1 + f /\ EndPos(x) = w + 1 + t
         /\ Len(x.data) = t - f
<1>0. /\ w \in Nat /\ n \in Nat /\ f \in Nat /\ t \in Nat /\ f <= t /\ t <= n /\ t <= f + Mss
      /\ w + n <= Down /\ s \in SeqNumbers /\ PosOf(s) = w + 1
  BY DEF SegmentOf, Slice, Numbered
<1>1. d \in Seq(Nat) /\ Len(d) = t - f /\ Numbered(d, w + f)
  BY WrittenBytes DEF SegmentOf
<1>2. PICK z : z = SeqAdd(s, f)
  OBVIOUS
<1>11. z \in SeqNumbers /\ PosOf(z) = w + 1 + f
  <2>1. w \in Nat /\ w + f <= Down
    BY <1>0, Constants
  <2> QED
    BY <1>0, <1>2, <2>1, WrittenPlace
<1>3. x \in SegType /\ x.seq = z /\ x.data = d
  <2>1. x = Segment(z, d, FALSE, FALSE)
    BY <1>2, Zenon DEF SegmentOf
  <2> QED
    BY <1>1, <1>11, <2>1, Small DEF Segment, SegType
<1>4. PICK g : g = w + f
  OBVIOUS
<1>5. PICK l : l = t - f
  OBVIOUS
<1>6. PICK v : v = w + n
  OBVIOUS
<1>7. g \in Nat /\ l \in Nat /\ v \in Nat /\ l <= Mss /\ g + l <= v /\ PosOf(x.seq) = g + 1
  <2>1. g \in Nat /\ l \in Nat /\ v \in Nat /\ l <= Mss /\ g + l <= v
    BY <1>0, <1>4, <1>5, <1>6, MssIs
  <2>2. w + 1 + f = g + 1
    BY <1>0, <1>4
  <2> QED
    BY <1>3, <1>11, <2>1, <2>2
<1>8. Len(x.data) = l /\ Numbered(x.data, g)
  BY <1>1, <1>3, <1>4, <1>5
<1>9. x \in QueueSet(v) /\ EndPos(x) = g + 1 + l
  <2>1. Placed(x, g, l, v)
    BY <1>3, <1>7, <1>8, Zenon DEF Placed
  <2> QED
    BY <2>1, WrittenQueued
<1>10. g + 1 + l = w + 1 + t /\ w + 1 + f = g + 1
  BY <1>0, <1>4, <1>5
<1> QED
  BY <1>5, <1>6, <1>7, <1>8, <1>9, <1>10

NewOf(p, w, n, b, pos) ==
    /\ w \in 0..Down /\ n \in Nat /\ w + n <= Down /\ pos \in 0..n
    /\ p.snd_wnd_max = PeerBuf /\ p.snd_lbb \in SeqNumbers /\ PosOf(p.snd_lbb) = w + 1
    /\ Numbered(b, w) /\ Len(b) = n

LEMMA NewSegmentsOK ==
  ASSUME NEW p, NEW w, NEW n, NEW pos, NEW b, NewOf(p, w, n, b, pos),
         NEW new, new = NewSegments(p, b, pos)
  PROVE  /\ new \in Seq(QueueSet(w + n))
         /\ pos = n => new = << >>
         /\ pos < n => /\ new # << >> /\ EndPos(new[Len(new)]) = w + n + 1
                       /\ PosOf(new[Len(new)].seq) >= w + 1 + pos
                       /\ PosOf(new[Len(new)].seq) \in Nat
                       /\ Len(new[Len(new)].data) \in 0..Mss
                       /\ \A i \in 1..(Len(new) - 1) : EndPos(new[i]) <= PosOf(new[Len(new)].seq)
<1>0. /\ w \in 0..Down /\ n \in Nat /\ w + n <= Down /\ pos \in 0..n
      /\ p.snd_wnd_max = PeerBuf /\ p.snd_lbb \in SeqNumbers /\ PosOf(p.snd_lbb) = w + 1
      /\ Numbered(b, w) /\ Len(b) = n
  BY DEF NewOf
<1> USE <1>0
<1>1. PICK m : m = Mss
  OBVIOUS
<1>2. m \in Nat \ {0} /\ mss_local(p) = m
  BY <1>1, MssIs
<1>3. PICK a : a = n - pos + m - 1
  OBVIOUS
<1>4. PICK k : k = a \div m
  OBVIOUS
<1>5. a \in Nat /\ k \in Nat /\ m * k <= a /\ a < m * k + m
  <2>1. a \in Nat
    BY <1>2, <1>3
  <2> QED
    BY <1>2, <1>4, <2>1, Quotient
<1>6. PICK s : s = p.snd_lbb
  OBVIOUS
<1> DEFINE From(i) == pos + (i - 1) * m
           To(i) == Smaller(From(i) + m, Len(b))
<1>7. new = [i \in 1..k |-> Segment(SeqAdd(s, From(i)), SubSeq(b, From(i) + 1, To(i)), FALSE, FALSE)]
  <2>1. (Len(b) - pos + m - 1) \div m = k
    BY <1>3, <1>4
  <2> QED
    BY <1>2, <1>6, <2>1, Zenon DEF NewSegments
<1>8. ASSUME NEW i \in 1..k
      PROVE  /\ From(i) \in Nat /\ To(i) \in Nat /\ From(i) < To(i) /\ To(i) <= n /\ To(i) <= From(i) + m
             /\ From(i) >= pos
             /\ (i < k => To(i) <= From(k)) /\ (i = k => To(i) = n)
  <2>1. (i - 1) \in Nat /\ k \in Nat /\ i - 1 <= k - 1 /\ k - 1 \in Nat
    BY <1>5
  <2>2. (i - 1) * m \in Nat /\ (k - 1) * m \in Nat /\ (i - 1) * m <= (k - 1) * m
    BY <1>2, <2>1, Times
  <2>3. (k - 1) * m = k * m - m /\ k * m \in Int /\ m * k = k * m
    BY <1>2, <1>5, TimesNext
  <2>4. i * m \in Int /\ (i - 1) * m = i * m - m
    BY <1>2, TimesNext
  <2>5. i < k => i * m <= (k - 1) * m
    BY <1>2, <2>1, Times
  <2>6. PICK c : c = (i - 1) * m
    OBVIOUS
  <2>7. PICK h : h = (k - 1) * m
    OBVIOUS
  <2>8. c \in Nat /\ h \in Nat /\ c <= h /\ (i < k => c + m <= h) /\ (i = k => c = h)
        /\ h + m <= n - pos + m - 1 /\ n - pos + m - 1 < h + m + m
    BY <1>2, <1>3, <1>5, <2>2, <2>3, <2>4, <2>5, <2>6, <2>7
  <2>9. From(i) = pos + c /\ From(k) = pos + h /\ To(i) = IF pos + c + m < n THEN pos + c + m ELSE n
    BY <2>6, <2>7 DEF Smaller
  <2> QED
    BY <1>2, <2>8, <2>9
<1>9. ASSUME NEW i \in 1..k
      PROVE  /\ new[i] \in QueueSet(w + n) /\ PosOf(new[i].seq) = w + 1 + From(i)
             /\ EndPos(new[i]) = w + 1 + To(i) /\ Len(new[i].data) = To(i) - From(i)
  <2>1. PICK f : f = From(i)
    OBVIOUS
  <2>2. PICK t : t = To(i)
    OBVIOUS
  <2>3. PICK x : x = new[i]
    OBVIOUS
  <2>8. PICK d : d = SubSeq(b, f + 1, t)
    OBVIOUS
  <2>4. x = Segment(SeqAdd(s, f), d, FALSE, FALSE)
    BY <1>7, <2>1, <2>2, <2>3, <2>8, Zenon
  <2>5. f \in Nat /\ t \in Nat /\ f <= t /\ t <= n /\ t <= f + Mss
    <3> HIDE DEF From, To
    <3> QED
      BY <1>1, <1>8, <2>1, <2>2
  <2>6. s \in SeqNumbers /\ PosOf(s) = w + 1
    BY <1>6
  <2>7. /\ x \in QueueSet(w + n) /\ PosOf(x.seq) = w + 1 + f /\ EndPos(x) = w + 1 + t
        /\ Len(x.data) = t - f
    <3>1. Slice(w, b, f, t, d)
      BY <2>5, <2>8, Constants DEF Slice
    <3>2. SegmentOf(w, n, s, b, f, t, d, x)
      BY <2>4, <2>5, <2>6, <3>1, Zenon DEF SegmentOf
    <3> QED
      BY <3>2, WrittenSegment
  <2> QED
    BY <2>1, <2>2, <2>3, <2>7, Zenon
<1> HIDE DEF From, To
<1>10. new \in Seq(QueueSet(w + n)) /\ Len(new) = k
  <2>1. new = [i \in 1..k |-> new[i]]
    BY <1>7, Zenon
  <2>2. \A i \in 1..k : new[i] \in QueueSet(w + n)
    BY <1>9
  <2>3. new \in [1..k -> QueueSet(w + n)]
    BY <2>1, <2>2, Zenon
  <2> QED
    BY <1>5, <2>3
<1>11. ASSUME pos = n PROVE new = << >>
  <2>1. k = 0
    <3>1. ASSUME k >= 1 PROVE FALSE
      <4>1. 1 * m <= k * m /\ k * m = m * k /\ 1 * m = m
        BY <1>2, <1>5, <3>1, Times, TimesNext
      <4> QED
        BY <1>2, <1>3, <1>5, <1>11, <4>1
    <3> QED
      BY <1>5, <3>1
  <2> QED
    BY <1>10, <2>1
<1>12. ASSUME pos < n
       PROVE  /\ new # << >> /\ EndPos(new[Len(new)]) = w + n + 1
              /\ PosOf(new[Len(new)].seq) >= w + 1 + pos
              /\ PosOf(new[Len(new)].seq) \in Nat
              /\ Len(new[Len(new)].data) \in 0..Mss
              /\ \A i \in 1..(Len(new) - 1) : EndPos(new[i]) <= PosOf(new[Len(new)].seq)
  <2>1. k >= 1
    <3>1. ASSUME k = 0 PROVE FALSE
      <4>1. m * k = 0
        BY <1>2, <3>1
      <4> QED
        BY <1>2, <1>3, <1>5, <1>12, <4>1
    <3> QED
      BY <1>5, <3>1
  <2>2. k \in 1..k
    BY <1>5, <2>1
  <2>3. PICK x : x = new[k]
    OBVIOUS
  <2>4. /\ PosOf(x.seq) = w + 1 + From(k) /\ EndPos(x) = w + 1 + To(k) /\ Len(x.data) = To(k) - From(k)
    BY <1>9, <2>2, <2>3
  <2>5. /\ From(k) \in Nat /\ To(k) = n /\ From(k) >= pos /\ To(k) <= From(k) + m /\ From(k) < To(k)
    BY <1>8, <2>2
  <2>6. ASSUME NEW i \in 1..(k - 1) PROVE EndPos(new[i]) <= PosOf(x.seq)
    <3>1. i \in 1..k /\ i < k
      BY <1>5
    <3>2. To(i) \in Nat /\ To(i) <= From(k) /\ EndPos(new[i]) = w + 1 + To(i)
      BY <1>8, <1>9, <3>1
    <3> QED
      BY <2>4, <2>5, <3>2
  <2>7. new[Len(new)] = x /\ new # << >>
    BY <1>10, <2>1, <2>3
  <2>8. EndPos(x) = w + n + 1 /\ PosOf(x.seq) >= w + 1 + pos /\ PosOf(x.seq) \in Nat /\ Len(x.data) \in 0..Mss
    <3>1. PICK f : f = From(k)
      OBVIOUS
    <3>2. PICK t : t = To(k)
      OBVIOUS
    <3>3. /\ PosOf(x.seq) = w + 1 + f /\ EndPos(x) = w + 1 + t /\ Len(x.data) = t - f
          /\ f \in Nat /\ t = n /\ f >= pos /\ t <= f + Mss /\ f < t
      BY <1>1, <2>4, <2>5, <3>1, <3>2, Zenon
    <3> QED
      BY <3>3, MssIs
  <2> QED
    BY <1>10, <2>6, <2>7, <2>8
<1> QED
  BY <1>10, <1>11, <1>12


LEMMA Grow ==
  ASSUME NEW w \in Nat, NEW v \in Nat, w <= v
  PROVE  /\ \A x : DownSeg(x, w) => DownSeg(x, v)
         /\ \A x : x \in QueueSet(w) => x \in QueueSet(v)
         /\ \A s : s \in Seq(QueueSet(w)) => s \in Seq(QueueSet(v))
         /\ \A s : DownSegs(s, w) => DownSegs(s, v)
<1>1. ASSUME NEW x, DownSeg(x, w) PROVE DownSeg(x, v)
  <2>1. Carries(x, LwipIss, v)
    <3> SUFFICES ASSUME NEW i \in 1..Len(x.data)
                 PROVE  x.data[i] = SeqDiff(x.seq, LwipIss) + i - 1 /\ x.data[i] \in 1..v
      BY DEF Carries
    <3>1. x.data[i] = SeqDiff(x.seq, LwipIss) + i - 1 /\ x.data[i] \in 1..w
      BY <1>1 DEF DownSeg, Carries
    <3> QED
      BY <3>1
  <2> QED
    BY <1>1, <2>1 DEF DownSeg
<1>2. ASSUME NEW x, x \in QueueSet(w) PROVE x \in QueueSet(v)
  <2>1. DownSeg(x, w) /\ EndPos(x) <= w + 1 /\ x \in SegType
    BY <1>2, QueueSeg DEF DownSeg
  <2>2. EndPos(x) \in Int
    BY <2>1, SegmentFields, Positions DEF EndPos
  <2>3. EndPos(x) <= v + 1
    BY <2>1, <2>2
  <2> QED
    BY <1>1, <2>1, <2>3, QueueSeg
<1>3. ASSUME NEW s, s \in Seq(QueueSet(w)) PROVE s \in Seq(QueueSet(v))
  <2>1. \A i \in 1..Len(s) : s[i] \in QueueSet(v)
    BY <1>2, <1>3
  <2> QED
    BY <1>3, <2>1, Narrowed
<1>4. ASSUME NEW s, DownSegs(s, w) PROVE DownSegs(s, v)
  BY <1>1, <1>4 DEF DownSegs
<1> QED
  BY <1>1, <1>2, <1>3, <1>4

LEMMA GrowOut ==
  ASSUME NEW p, NEW w \in Nat, NEW v \in Nat, w <= v, NEW e, OutOK(p, w, e)
  PROVE  OutOK(p, v, e)
<1>1. DownSegs(p.out, w)
  BY DEF OutOK
<1>2. DownSegs(p.out, v)
  BY <1>1, Grow
<1> QED
  BY <1>2 DEF OutOK

(* The last unsent segment takes the bytes d. *)
Filled(us, d, w, last, y) ==
    /\ y = [last EXCEPT !.data = @ \o d] /\ w \in 0..Down /\ us \in Seq(QueueSet(w)) /\ us # << >> /\ last = us[Len(us)] /\ EndPos(last) = w + 1
    /\ Numbered(d, w) /\ Len(last.data) + Len(d) <= Mss

LEMMA FillOK ==
  ASSUME NEW us, NEW d, NEW w, NEW last, NEW y, Filled(us, d, w, last, y),
         NEW v \in Nat, w + Len(d) <= v
  PROVE  /\ y \in QueueSet(v) /\ EndPos(y) = w + 1 + Len(d) /\ y.seq = last.seq
         /\ Len(y.data) = Len(last.data) + Len(d)
<1>1. /\ w \in Nat /\ us \in Seq(QueueSet(w)) /\ us # << >> /\ last = us[Len(us)] /\ EndPos(last) = w + 1
      /\ d \in Seq(Nat) /\ Len(d) \in Nat /\ w \in 0..Down
  BY Constants DEF Filled, Numbered
<1>2. last \in QueueSet(w)
  BY <1>1
<1>3. /\ last \in SegType /\ DownSeg(last, w) /\ PosOf(last.seq) \in Nat /\ Len(last.data) \in Nat
      /\ EndPos(last) = PosOf(last.seq) + Len(last.data)
  BY <1>1, <1>2, QueueFacts
<1>4. last.data \in Seq(Nat)
  BY <1>3, SegmentFields
<1>5. PICK c : c = last.data \o d
  OBVIOUS
<1>6. /\ c \in Seq(Nat) /\ Len(c) = Len(last.data) + Len(d)
      /\ \A i \in 1..(Len(last.data) + Len(d)) :
              \/ i \in 1..Len(last.data) /\ c[i] = last.data[i]
              \/ i - Len(last.data) \in 1..Len(d) /\ c[i] = d[i - Len(last.data)]
  BY <1>1, <1>4, <1>5, Joined, SMTT(30)
<1>7. y \in SegType /\ y.seq = last.seq /\ y.data = c
  <2>1. y = [last EXCEPT !.data = c]
    BY <1>5, Zenon DEF Filled
  <2> QED
    BY <1>3, <1>6, <2>1, DataReplaced
<1>8. PICK l : l = Len(last.data)
  OBVIOUS
<1>9. PICK k : k = Len(d)
  OBVIOUS
<1>10. l \in Nat /\ k \in Nat /\ Len(c) = l + k /\ PosOf(last.seq) = w + 1 - l
  <2>1. PICK a : a = PosOf(last.seq)
    OBVIOUS
  <2>2. l \in Nat /\ k \in Nat /\ Len(c) = l + k /\ a \in Nat /\ a + l = w + 1 /\ w \in Nat
    BY <1>1, <1>3, <1>6, <1>8, <1>9, <2>1, Zenon
  <2> QED
    BY <2>1, <2>2, SMTT(30)
<1>11. EndPos(y) = w + 1 + k
  BY <1>1, <1>7, <1>10 DEF EndPos
<1>12. ASSUME NEW i \in 1..(l + k)
       PROVE  c[i] = PosOf(last.seq) + i - 1 /\ c[i] \in 1..v
  <2>1. CASE i \in 1..l /\ c[i] = last.data[i]
    <3>1. last.data[i] = PosOf(last.seq) + i - 1 /\ last.data[i] \in 1..w
      BY <1>3, <1>8, <2>1 DEF DownSeg, Carries, PosOf
    <3> QED
      BY <1>1, <1>9, <1>10, <2>1, <3>1, SMTT(30)
  <2>2. CASE i - l \in 1..k /\ c[i] = d[i - l]
    <3>1. d[i - l] = w + (i - l)
      <4>1. Numbered(d, w)
        BY DEF Filled
      <4> QED
        BY <1>9, <2>2, <4>1 DEF Numbered
    <3> QED
      BY <1>1, <1>9, <1>10, <2>2, <3>1
  <2> QED
    BY <1>6, <1>8, <1>9, <2>1, <2>2
<1>13. DownSeg(y, v)
  <2>1. Len(y.data) <= Mss
    BY <1>7, <1>6 DEF Filled
  <2>2. Carries(y, LwipIss, v)
    BY <1>7, <1>10, <1>12 DEF Carries, PosOf
  <2> QED
    BY <1>7, <2>1, <2>2 DEF DownSeg
<1>14. EndPos(y) <= v + 1
  BY <1>1, <1>9, <1>10, <1>11
<1> QED
  BY <1>6, <1>7, <1>9, <1>11, <1>13, <1>14, QueueSeg


(* tcp_write of the n bytes after the first w. *)
WriteOf(p, w, e, n, b) ==
    /\ w \in 0..Down /\ n \in Nat /\ n > 0 /\ w + n <= Down /\ e \in Int
    /\ DOMAIN p = Fields /\ Alive(p, w, e) /\ PosOf(p.snd_lbb) = w + 1
    /\ Numbered(b, w) /\ Len(b) = n

LEMMA UsedIs ==
  ASSUME NEW p, NEW w \in 0..Down, NEW e, NEW n \in Nat, n > 0, Alive(p, w, e),
         NEW us, us = p.unsent, NEW used, used = OversizeUsed(p, n)
  PROVE  /\ used \in 0..n
         /\ used > 0 => /\ us # << >> /\ p.oversize > 0 /\ used <= p.oversize
                        /\ Len(us[Len(us)].data) + used <= Mss
<1>1. us \in Seq(QueueSet(w)) /\ p.oversize \in Nat /\ mss_local(p) = Mss
  BY AliveQueueFacts, MssIs
<1>2. CASE us = << >>
  BY <1>2 DEF OversizeUsed
<1>3. CASE us # << >>
  <2>1. PICK last : last = us[Len(us)]
    OBVIOUS
  <2>2. last \in QueueSet(w)
    BY <1>1, <1>3, <2>1
  <2>3. PICK l : l = Len(last.data)
    OBVIOUS
  <2>4. l \in Nat /\ l <= Mss /\ Mss \in Nat
    BY <2>2, <2>3, QueueFacts, MssIs DEF DownSeg
  <2>5. used = Smaller(Mss - l, Smaller(p.oversize, n))
    BY <1>1, <1>3, <2>1, <2>3, Zenon DEF OversizeUsed
  <2>6. /\ used \in 0..n /\ (used > 0 => p.oversize > 0 /\ used <= p.oversize /\ l + used <= Mss)
    BY <1>1, <2>4, <2>5 DEF Smaller
  <2> QED
    BY <1>3, <2>1, <2>3, <2>6
<1> QED
  BY <1>2, <1>3

FillOf(p, w, e, us, d, v) ==
    /\ w \in 0..Down /\ Alive(p, w, e) /\ us = p.unsent
    /\ Numbered(d, w) /\ v \in Nat /\ w + Len(d) <= v
    /\ Len(d) > 0 => us # << >> /\ p.oversize > 0 /\ Len(us[Len(us)].data) + Len(d) <= Mss

LEMMA FillLastOK ==
  ASSUME NEW p, NEW w, NEW e, NEW us, NEW d, NEW v, FillOf(p, w, e, us, d, v),
         NEW fl, fl = FillLast(us, d)
  PROVE  /\ fl \in Seq(QueueSet(v)) /\ Len(fl) = Len(us)
         /\ \A i \in 1..Len(us) : EndPos(fl[i]) <= w + 1 + Len(d)
         /\ \A i \in 1..(Len(us) - 1) : fl[i] = us[i]
         /\ Len(d) > 0 => /\ EndPos(fl[Len(fl)]) = w + 1 + Len(d)
                          /\ fl[Len(fl)].seq = us[Len(us)].seq
                          /\ Len(fl[Len(fl)].data) = Len(us[Len(us)].data) + Len(d)
<1>0. /\ w \in 0..Down /\ Alive(p, w, e) /\ us = p.unsent
      /\ Numbered(d, w) /\ v \in Nat /\ w + Len(d) <= v
      /\ Len(d) > 0 => us # << >> /\ p.oversize > 0 /\ Len(us[Len(us)].data) + Len(d) <= Mss
  BY DEF FillOf
<1> USE <1>0
<1>1. us \in Seq(QueueSet(w)) /\ Spare(p, w) /\ d \in Seq(Nat) /\ Len(d) \in Nat /\ w \in Nat
  BY AliveQueueFacts, Constants DEF Numbered
<1>2. us \in Seq(QueueSet(v)) /\ \A x : x \in QueueSet(w) => x \in QueueSet(v)
  <2>1. w <= v
    BY <1>1
  <2> QED
    BY <1>1, <2>1, Grow
<1>3. \A i \in 1..Len(us) : us[i] \in QueueSet(w) /\ EndPos(us[i]) <= w + 1
  BY <1>1, QueueDown
<1>4. CASE Len(d) = 0
  <2>1. fl = us
    BY <1>1, <1>4 DEF FillLast
  <2> QED
    BY <1>1, <1>2, <1>3, <1>4, <2>1
<1>5. CASE Len(d) > 0
  <2>1. PICK n : n = Len(us)
    OBVIOUS
  <2>2. PICK last : last = us[n]
    OBVIOUS
  <2>3. PICK y : y = [last EXCEPT !.data = @ \o d]
    OBVIOUS
  <2>4. n \in 1..Len(us) /\ us # << >> /\ p.oversize > 0 /\ n \in Nat
    BY <1>1, <1>5, <2>1
  <2>5. fl = [us EXCEPT ![n] = y]
    <3>1. d # << >>
      BY <1>5
    <3>2. fl = [us EXCEPT ![n].data = @ \o d]
      BY <2>1, <3>1, Zenon DEF FillLast
    <3> QED
      BY <2>2, <2>3, <3>2, Zenon
  <2>6. EndPos(last) = w + 1
    <3>1. PICK ua : ua = p.unacked
      OBVIOUS
    <3> QED
      BY <1>1, <2>1, <2>2, <2>4, <3>1, SpareIs
  <2>7. Filled(us, d, w, last, y)
    BY <1>1, <1>5, <2>1, <2>2, <2>3, <2>4, <2>6, Zenon DEF Filled
  <2>8. /\ y \in QueueSet(v) /\ EndPos(y) = w + 1 + Len(d) /\ y.seq = last.seq
        /\ Len(y.data) = Len(last.data) + Len(d)
    BY <2>7, FillOK
  <2>9. /\ fl \in Seq(QueueSet(v)) /\ Len(fl) = n /\ fl[n] = y
        /\ \A i \in 1..(n - 1) : fl[i] = us[i]
    <3>1. PICK Q : Q = QueueSet(v)
      OBVIOUS
    <3>2. us \in Seq(Q) /\ y \in Q
      BY <1>2, <2>8, <3>1
    <3>3. /\ fl \in Seq(Q) /\ Len(fl) = n /\ fl[n] = y
          /\ \A i \in 1..(n - 1) : fl[i] = us[i]
      BY <2>1, <2>4, <2>5, <3>2, SMTT(30)
    <3> QED
      BY <3>1, <3>3
  <2>10. ASSUME NEW i \in 1..Len(us) PROVE EndPos(fl[i]) <= w + 1 + Len(d)
    <3>1. CASE i = n
      BY <1>1, <2>8, <2>9, <3>1
    <3>2. CASE i # n
      <4>1. i \in 1..(n - 1)
        BY <2>1, <2>4, <3>2
      <4>2. fl[i] = us[i] /\ EndPos(us[i]) <= w + 1 /\ us[i] \in QueueSet(w)
        BY <1>3, <2>9, <4>1
      <4>3. PosOf(us[i].seq) \in Nat /\ Len(us[i].data) \in Nat /\ EndPos(us[i]) = PosOf(us[i].seq) + Len(us[i].data)
        BY <4>2, QueueFacts
      <4> QED
        BY <1>1, <4>2, <4>3, SMTT(30)
    <3> QED
      BY <3>1, <3>2
  <2> QED
    BY <2>1, <2>2, <2>8, <2>9, <2>10
<1> QED
  BY <1>1, <1>4, <1>5


LEMMA WriteOK ==
  ASSUME NEW p, NEW q, NEW w, NEW e, NEW n, NEW b, WriteOf(p, w, e, n, b), q = tcp_write(p, b)
  PROVE  Alive(q, w + n, e) /\ KeptRcv(p, q) /\ PosOf(q.snd_lbb) = (w + n) + 1
<1>1. /\ w \in 0..Down /\ w \in Nat /\ n \in Nat /\ n > 0 /\ w + n <= Down /\ e \in Int
      /\ DOMAIN p = Fields /\ Alive(p, w, e) /\ PosOf(p.snd_lbb) = w + 1
      /\ Numbered(b, w) /\ Len(b) = n
  BY Constants DEF WriteOf
<1>2. PICK us : us = p.unsent
  OBVIOUS
<1>3. PICK ua : ua = p.unacked
  OBVIOUS
<1>4. PICK used : used = OversizeUsed(p, n)
  OBVIOUS
<1>5. PICK v : v = w + n
  OBVIOUS
<1>6. /\ us \in Seq(QueueSet(w)) /\ ua \in Seq(QueueSet(w)) /\ p.oversize \in Nat /\ Spare(p, w)
      /\ p.snd_wnd_max = PeerBuf /\ p.snd_lbb \in SeqNumbers /\ RcvOK(p) /\ SndOK(p, w) /\ OutOK(p, w, e)
  BY <1>1, <1>2, <1>3, AliveQueueFacts
<1>7. /\ used \in 0..n
      /\ used > 0 => /\ us # << >> /\ p.oversize > 0 /\ used <= p.oversize
                     /\ Len(us[Len(us)].data) + used <= Mss
  BY <1>1, <1>2, <1>4, UsedIs
<1>8. PICK d : d = SubSeq(b, 1, used)
  OBVIOUS
<1>9. Len(d) = used /\ Numbered(d, w) /\ used \in Nat
  <2>1. PICK z : z = 0
    OBVIOUS
  <2>2. z + 1 = 1 /\ z \in Nat /\ z <= used /\ used \in Nat /\ used <= Len(b) /\ w + z = w /\ used - z = used
    BY <1>1, <1>7, <2>1
  <2>3. Slice(w, b, z, used, d)
    BY <1>1, <1>8, <2>2, Zenon DEF Slice
  <2>4. Len(d) = used - z /\ Numbered(d, w + z)
    BY <2>3, WrittenBytes
  <2> QED
    BY <2>2, <2>4
<1>10. PICK new : new = NewSegments(p, b, used)
  OBVIOUS
<1>11. PICK fl : fl = FillLast(us, d)
  OBVIOUS
<1>12. PICK l : l = fl \o new
  OBVIOUS
<1>13. PICK over : over = IF new = << >> THEN p.oversize - used ELSE mss_local(p) - Len(new[Len(new)].data)
  OBVIOUS
<1>14. PICK s : s = SeqAdd(p.snd_lbb, n)
  OBVIOUS
<1>15. PICK sb : sb = p.snd_buf - n
  OBVIOUS
<1>16. q = [p EXCEPT !.unsent = l, !.oversize = over, !.snd_lbb = s, !.snd_buf = sb]
  <2>1. Len(b) = n
    BY <1>1
  <2> QED
    BY <1>2, <1>4, <1>8, <1>10, <1>11, <1>12, <1>13, <1>14, <1>15, <2>1, Zenon DEF tcp_write
<1>17. /\ KeptRcv(p, q) /\ q.unsent = l /\ q.unacked = ua /\ q.oversize = over /\ q.snd_lbb = s
       /\ q.snd_nxt = p.snd_nxt /\ q.right_edge = p.right_edge /\ q.out = p.out
  BY <1>1, <1>3, <1>16, FieldSet DEF KeptRcv, Kept0
<1>18. s \in SeqNumbers /\ PosOf(s) = w + 1 + n
  BY <1>1, <1>6, <1>14, WrittenPlace
<1>19. v \in Nat /\ w + Len(d) <= v /\ w <= v
  BY <1>1, <1>5, <1>7, <1>9
<1>20. /\ fl \in Seq(QueueSet(v)) /\ Len(fl) = Len(us)
       /\ \A i \in 1..Len(us) : EndPos(fl[i]) <= w + 1 + used
       /\ \A i \in 1..(Len(us) - 1) : fl[i] = us[i]
       /\ used > 0 => /\ EndPos(fl[Len(fl)]) = w + 1 + used
                      /\ fl[Len(fl)].seq = us[Len(us)].seq
                      /\ Len(fl[Len(fl)].data) = Len(us[Len(us)].data) + used
  <2>1. Len(d) > 0 => us # << >> /\ p.oversize > 0 /\ Len(us[Len(us)].data) + Len(d) <= Mss
    BY <1>7, <1>9
  <2>2. /\ fl \in Seq(QueueSet(v)) /\ Len(fl) = Len(us)
        /\ \A i \in 1..Len(us) : EndPos(fl[i]) <= w + 1 + Len(d)
        /\ \A i \in 1..(Len(us) - 1) : fl[i] = us[i]
        /\ Len(d) > 0 => /\ EndPos(fl[Len(fl)]) = w + 1 + Len(d)
                         /\ fl[Len(fl)].seq = us[Len(us)].seq
                         /\ Len(fl[Len(fl)].data) = Len(us[Len(us)].data) + Len(d)
    <3>1. FillOf(p, w, e, us, d, v)
      BY <1>1, <1>2, <1>9, <1>19, <2>1, Zenon DEF FillOf
    <3> QED
      BY <1>11, <3>1, FillLastOK
  <2> QED
    BY <1>9, <2>2
<1>21. /\ new \in Seq(QueueSet(v))
       /\ used = n => new = << >>
       /\ used < n => /\ new # << >> /\ EndPos(new[Len(new)]) = w + n + 1
                      /\ PosOf(new[Len(new)].seq) >= w + 1 + used
                      /\ PosOf(new[Len(new)].seq) \in Nat
                      /\ Len(new[Len(new)].data) \in 0..Mss
                      /\ \A i \in 1..(Len(new) - 1) : EndPos(new[i]) <= PosOf(new[Len(new)].seq)
  <2>1. NewOf(p, w, n, b, used)
    BY <1>1, <1>6, <1>7, Zenon DEF NewOf
  <2> QED
    BY <1>5, <1>10, <2>1, NewSegmentsOK
<1>22. /\ l \in Seq(QueueSet(v)) /\ Len(l) = Len(fl) + Len(new) /\ Len(fl) \in Nat /\ Len(new) \in Nat
       /\ \A i \in 1..(Len(fl) + Len(new)) :
             \/ i \in 1..Len(fl) /\ l[i] = fl[i]
             \/ i - Len(fl) \in 1..Len(new) /\ l[i] = new[i - Len(fl)]
  <2>1. PICK Q : Q = QueueSet(v)
    OBVIOUS
  <2>2. fl \in Seq(Q) /\ new \in Seq(Q)
    BY <1>20, <1>21, <2>1
  <2>3. /\ l \in Seq(Q) /\ Len(l) = Len(fl) + Len(new) /\ Len(fl) \in Nat /\ Len(new) \in Nat
        /\ \A i \in 1..(Len(fl) + Len(new)) :
             \/ i \in 1..Len(fl) /\ l[i] = fl[i]
             \/ i - Len(fl) \in 1..Len(new) /\ l[i] = new[i - Len(fl)]
    BY <1>12, <2>2, Joined
  <2> QED
    BY <2>1, <2>3
<1>23. ua \in Seq(QueueSet(v)) /\ \A i \in 1..Len(ua) : EndPos(ua[i]) <= w + 1 /\ EndPos(ua[i]) \in Int
  <2>1. ua \in Seq(QueueSet(v))
    BY <1>1, <1>6, <1>19, Grow
  <2>2. ASSUME NEW i \in 1..Len(ua) PROVE EndPos(ua[i]) <= w + 1 /\ EndPos(ua[i]) \in Int
    <3>1. ua[i] \in QueueSet(w)
      BY <1>6
    <3>2. PosOf(ua[i].seq) \in Nat /\ Len(ua[i].data) \in Nat /\ EndPos(ua[i]) = PosOf(ua[i].seq) + Len(ua[i].data)
          /\ EndPos(ua[i]) <= w + 1
      BY <1>1, <3>1, QueueFacts
    <3> QED
      BY <3>2
  <2> QED
    BY <2>1, <2>2
<1>24. over \in Nat /\ Spare(q, v)
  <2>1. CASE used = n
    <3>1. new = << >> /\ used > 0
      BY <1>1, <1>21, <2>1
    <3>2. over = p.oversize - used /\ over \in Nat /\ p.oversize > 0 /\ us # << >>
      BY <1>6, <1>7, <1>13, <3>1
    <3>3. l = fl
      BY <1>12, <1>20, <3>1
    <3>4. ASSUME over > 0 PROVE Spare(q, v)
      <4>1. PICK last : last = us[Len(us)]
        OBVIOUS
      <4>2. PICK y : y = fl[Len(fl)]
        OBVIOUS
      <4>3. /\ EndPos(last) = w + 1 /\ Len(last.data) + p.oversize <= Mss
            /\ \A i \in 1..(Len(us) - 1) : EndPos(us[i]) <= PosOf(last.seq)
            /\ \A i \in 1..Len(ua) : EndPos(ua[i]) <= PosOf(last.seq)
        BY <1>2, <1>3, <1>6, <3>2, <4>1, SpareIs
      <4>4. EndPos(y) = w + 1 + used /\ y.seq = last.seq /\ Len(y.data) = Len(last.data) + used
        BY <1>20, <3>1, <4>1, <4>2
      <4>5. EndPos(y) = v + 1
        BY <1>1, <1>5, <2>1, <4>4
      <4>6. Len(y.data) + over <= Mss
        <5>1. last \in QueueSet(w)
          BY <1>6, <3>2, <4>1
        <5>2. Len(last.data) \in Nat
          BY <1>1, <5>1, QueueFacts
        <5> QED
          BY <1>6, <1>9, <3>2, <4>3, <4>4, <5>2, SMTT(30)
      <4>7. \A i \in 1..(Len(fl) - 1) : EndPos(fl[i]) <= PosOf(y.seq)
        BY <1>20, <4>3, <4>4
      <4>8. \A i \in 1..Len(ua) : EndPos(ua[i]) <= PosOf(y.seq)
        BY <4>3, <4>4
      <4>9. fl # << >> /\ fl = q.unsent /\ ua = q.unacked /\ q.oversize = over /\ q.oversize > 0
        BY <1>6, <1>17, <1>20, <3>2, <3>3, <3>4
      <4> QED
        BY <4>2, <4>5, <4>6, <4>7, <4>8, <4>9, SpareIs
    <3> QED
      BY <1>17, <3>2, <3>4 DEF Spare
  <2>2. CASE used < n
    <3>1. PICK z : z = new[Len(new)]
      OBVIOUS
    <3>2. /\ new # << >> /\ EndPos(z) = w + n + 1 /\ PosOf(z.seq) >= w + 1 + used /\ PosOf(z.seq) \in Nat
          /\ Len(z.data) \in 0..Mss
          /\ \A i \in 1..(Len(new) - 1) : EndPos(new[i]) <= PosOf(z.seq)
      BY <1>21, <2>2, <3>1
    <3>3. over = Mss - Len(z.data) /\ over \in Nat /\ Len(z.data) + over <= Mss
      <4>1. mss_local(p) = Mss /\ Mss \in Nat
        BY <1>6, MssIs
      <4> QED
        BY <1>13, <3>1, <3>2, <4>1
    <3>4. l[Len(l)] = z /\ l # << >>
      <4>1. Len(new) >= 1
        BY <1>21, <3>2
      <4> QED
        BY <1>12, <1>20, <1>21, <1>22, <3>1, <4>1
    <3>5. ASSUME NEW i \in 1..(Len(l) - 1) PROVE EndPos(l[i]) <= PosOf(z.seq)
      <4>1. i \in 1..(Len(fl) + Len(new))
        BY <1>22
      <4>2. CASE i \in 1..Len(fl) /\ l[i] = fl[i]
        <5>1. EndPos(fl[i]) <= w + 1 + used
          BY <1>20, <4>2
        <5>2. fl[i] \in QueueSet(v)
          BY <1>20, <4>2
        <5>3. EndPos(fl[i]) \in Int
          <6>1. fl[i] \in SegType
            BY <5>2 DEF QueueSet
          <6> QED
            BY <6>1, SegmentFields, Positions DEF EndPos
        <5> QED
          BY <1>1, <1>9, <3>2, <4>2, <5>1, <5>3, SMTT(30)
      <4>3. CASE i - Len(fl) \in 1..Len(new) /\ l[i] = new[i - Len(fl)]
        <5>1. i - Len(fl) \in 1..(Len(new) - 1)
          BY <1>22, <4>3
        <5> QED
          BY <3>2, <4>3, <5>1
      <4> QED
        BY <1>22, <4>1, <4>2, <4>3
    <3>6. ASSUME NEW i \in 1..Len(ua) PROVE EndPos(ua[i]) <= PosOf(z.seq)
      BY <1>1, <1>9, <1>23, <3>2
    <3>7. l = q.unsent /\ ua = q.unacked /\ q.oversize = over /\ EndPos(z) = v + 1
      BY <1>1, <1>5, <1>17, <3>2
    <3>8. ASSUME over > 0 PROVE Spare(q, v)
      <4>1. q.oversize > 0
        BY <3>7, <3>8
      <4> QED
        BY <3>3, <3>4, <3>5, <3>6, <3>7, <4>1, SpareIs, SMTT(30)
    <3> QED
      BY <1>17, <3>3, <3>8 DEF Spare
  <2> QED
    BY <1>1, <1>7, <2>1, <2>2
<1>25. OutOK(p, v, e)
  BY <1>1, <1>6, <1>19, GrowOut
<1>26. Alive(q, v, e)
  BY <1>6, <1>17, <1>18, <1>22, <1>23, <1>24, <1>25, AliveWritten
<1>27. w + 1 + n = (w + n) + 1
  BY <1>1
<1> QED
  BY <1>5, <1>17, <1>18, <1>26, <1>27


-----------------------------------------------------------------------------
(* The receive window.                                                     *)

(* As RcvOK, before the window announced is brought up to date. *)
RcvPre(p) ==
    /\ p.rcv_nxt \in SeqNumbers /\ p.right_edge \in SeqNumbers
    /\ UpPos(p.rcv_nxt) \in 1..(Up + 2) /\ p.rcv_wnd \in 0..TCP_WND
    /\ UpPos(p.right_edge) \in (1 + TCP_WND)..(UpPos(p.rcv_nxt) + p.rcv_wnd)

LEMMA AnnWndOK ==
  ASSUME NEW p, NEW q, DOMAIN p = Fields, RcvPre(p), q = tcp_update_rcv_ann_wnd(p)
  PROVE  RcvOK(q) /\ \E x : q = [p EXCEPT !.rcv_ann_wnd = x]
<1>1. PICK u : u = UpPos(p.rcv_nxt)
  OBVIOUS
<1>2. PICK r : r = UpPos(p.right_edge)
  OBVIOUS
<1>3. /\ p.rcv_nxt \in SeqNumbers /\ p.right_edge \in SeqNumbers /\ PeerIss \in SeqNumbers
      /\ u \in 1..(Up + 2) /\ p.rcv_wnd \in 0..TCP_WND /\ r \in (1 + TCP_WND)..(u + p.rcv_wnd)
  BY <1>1, <1>2, Constants DEF RcvPre
<1>4. PICK x : q = [p EXCEPT !.rcv_ann_wnd = x] /\
               \/ x = p.rcv_wnd
               \/ x = 0 /\ TCP_SEQ_LT(p.right_edge, p.rcv_nxt)
               \/ x = SeqDiff(p.right_edge, p.rcv_nxt) /\ ~ TCP_SEQ_LT(p.right_edge, p.rcv_nxt)
  BY DEF tcp_update_rcv_ann_wnd
<1>5. TCP_SEQ_LT(p.right_edge, p.rcv_nxt) <=> r < u
  <2>1. /\ SeqDiff(p.right_edge, PeerIss) - SeqDiff(p.rcv_nxt, PeerIss) < Half
        /\ SeqDiff(p.rcv_nxt, PeerIss) - SeqDiff(p.right_edge, PeerIss) <= Half
    BY <1>1, <1>2, <1>3, Constants DEF UpPos
  <2> QED
    BY <1>1, <1>2, <1>3, <2>1, BeforePosition DEF UpPos
<1>6. r >= u => SeqDiff(p.right_edge, p.rcv_nxt) = r - u
  <2>1. SeqDiff(p.right_edge, PeerIss) >= SeqDiff(p.rcv_nxt, PeerIss)
              => SeqDiff(p.right_edge, p.rcv_nxt) = SeqDiff(p.right_edge, PeerIss) - SeqDiff(p.rcv_nxt, PeerIss)
    BY <1>3, DiffPosition
  <2> QED
    BY <1>1, <1>2, <2>1 DEF UpPos
<1>7. x \in 0..p.rcv_wnd /\ r <= u + x
  BY <1>3, <1>4, <1>5, <1>6, Constants
<1>8. q.rcv_ann_wnd = x /\ q.rcv_nxt = p.rcv_nxt /\ q.right_edge = p.right_edge /\ q.rcv_wnd = p.rcv_wnd
  BY <1>4, FieldSet
<1>9. RcvOK(q)
  BY <1>1, <1>2, <1>3, <1>7, <1>8, Constants DEF RcvOK
<1> QED
  BY <1>4, <1>9

(* As Kept, for an operator that opens the receive window. *)
KeptWnd(p, q) ==
    /\ DOMAIN q = Fields /\ q.state = p.state /\ q.cb = p.cb
    /\ q.rxclosed = p.rxclosed /\ q.closepend = p.closepend
    /\ q.inInput = p.inInput /\ q.tfClosed = p.tfClosed
    /\ q.rcv_nxt = p.rcv_nxt /\ q.lastack = p.lastack /\ q.snd_lbb = p.snd_lbb

LEMMA RecvedOK ==
  ASSUME NEW p, NEW q, NEW w, NEW e \in Int, NEW len \in Nat,
         DOMAIN p = Fields, Alive(p, w, e), q = tcp_recved(p, len)
  PROVE  Alive(q, w, e) /\ KeptWnd(p, q) /\ q.rcv_wnd = Smaller(p.rcv_wnd + len, TCP_WND)
<1>1. PICK y : y = Smaller(p.rcv_wnd + len, TCP_WND)
  OBVIOUS
<1>2. PICK o : o = [p EXCEPT !.rcv_wnd = y]
  OBVIOUS
<1>3. PICK r : r = tcp_update_rcv_ann_wnd(o)
  OBVIOUS
<1>4. PICK s : s = [r EXCEPT !.ackNow = TRUE]
  OBVIOUS
<1>5. q = r \/ q = tcp_output(s)
  BY <1>1, <1>2, <1>3, <1>4 DEF tcp_recved
<1>6. RcvOK(p) /\ SndOK(p, w) /\ OutOK(p, w, e) /\ p.rcv_wnd \in 0..TCP_WND
  BY AliveQueueFacts
<1>7. y \in 0..TCP_WND /\ p.rcv_wnd <= y
  BY <1>1, <1>6, Constants DEF Smaller
<1>8. /\ DOMAIN o = Fields /\ o.rcv_nxt = p.rcv_nxt /\ o.right_edge = p.right_edge /\ o.rcv_wnd = y
  BY <1>2, FieldSet
<1>9. RcvPre(o)
  BY <1>6, <1>7, <1>8, Positions DEF RcvPre, RcvOK
<1>10. RcvOK(r) /\ \E x : r = [o EXCEPT !.rcv_ann_wnd = x]
  BY <1>3, <1>8, <1>9, AnnWndOK
<1>11. PICK x : r = [o EXCEPT !.rcv_ann_wnd = x]
  BY <1>10
<1>12. /\ KeptWnd(p, r) /\ r.rcv_wnd = y /\ SameQueues(p, r) /\ r.right_edge = p.right_edge /\ r.out = p.out
       /\ r.snd_nxt = p.snd_nxt /\ r.snd_wnd = p.snd_wnd /\ r.snd_wnd_max = p.snd_wnd_max
  BY <1>2, <1>11, FieldSet DEF KeptWnd, SameQueues
<1>13. Alive(r, w, e)
  <2>1. OutOK(r, w, e)
    BY <1>6, <1>12, SameOut DEF KeptWnd
  <2>2. SndOK(r, w)
    BY <1>6, <1>12 DEF SndOK, Spare, KeptWnd, SameQueues
  <2> QED
    BY <1>10, <2>1, <2>2 DEF Alive
<1>14. CASE q = r
  BY <1>1, <1>12, <1>13, <1>14
<1>15. CASE q = tcp_output(s)
  <2>1. /\ Kept(r, s) /\ SameQueues(r, s) /\ s.snd_nxt = r.snd_nxt
        /\ s.right_edge = r.right_edge /\ s.out = r.out /\ DOMAIN s = Fields
    BY <1>4, <1>12, FieldSet DEF Kept, Kept0, SameQueues, KeptWnd
  <2>2. Alive(s, w, e)
    BY <1>13, <2>1, AliveSame
  <2>3. Alive(q, w, e) /\ Kept(s, q)
    BY <1>15, <2>1, <2>2, OutputOK
  <2> QED
    BY <1>1, <1>12, <2>1, <2>3 DEF KeptWnd, Kept, Kept0
<1> QED
  BY <1>5, <1>14, <1>15


-----------------------------------------------------------------------------
(* Closing.                                                                *)

Open == {"SYN_RCVD", "ESTABLISHED", "CLOSE_WAIT"}

(* What tcp_close_shutdown_fin keeps: the state changes with the FIN. *)
KeptFin(p, q) ==
    /\ DOMAIN q = Fields /\ q.cb = p.cb /\ q.rxclosed = p.rxclosed /\ q.closepend \in BOOLEAN
    /\ q.inInput = p.inInput /\ q.tfClosed = p.tfClosed
    /\ q.rcv_nxt = p.rcv_nxt /\ q.rcv_wnd = p.rcv_wnd
    /\ \/ q.state = p.state /\ q.snd_lbb = p.snd_lbb
       \/ q.state \in {"LAST_ACK", "FIN_WAIT_1"}

LEMMA ShutFinOK ==
  ASSUME NEW p, NEW q, NEW w \in 0..Down, NEW e \in Int, NEW mem,
         DOMAIN p = Fields, Alive(p, w, e), p.closepend \in BOOLEAN,
         p.state \in Open => PosOf(p.snd_lbb) = w + 1,
         q = tcp_close_shutdown_fin(p, mem)
  PROVE  Alive(q, w, e) /\ KeptFin(p, q)
<1>1. CASE q = p
  BY <1>1 DEF KeptFin
<1>2. CASE q = [p EXCEPT !.closepend = TRUE]
  <2>1. PICK t : t = TRUE
    OBVIOUS
  <2>2. q = [p EXCEPT !.closepend = t] /\ t \in BOOLEAN
    BY <1>2, <2>1
  <2>3. KeptFin(p, q)
    BY <2>2, FieldSet DEF KeptFin
  <2>4. /\ q.snd_nxt = p.snd_nxt /\ q.right_edge = p.right_edge /\ q.out = p.out /\ SameQueues(p, q)
        /\ q.rcv_nxt = p.rcv_nxt /\ q.rcv_wnd = p.rcv_wnd /\ q.rcv_ann_wnd = p.rcv_ann_wnd
        /\ q.snd_lbb = p.snd_lbb /\ q.lastack = p.lastack /\ q.snd_wnd = p.snd_wnd /\ q.snd_wnd_max = p.snd_wnd_max
    BY <2>2, FieldSet DEF SameQueues
  <2>5. Alive(q, w, e)
    BY <2>4 DEF Alive, RcvOK, SndOK, OutOK, Spare, SameQueues
  <2> QED
    BY <2>3, <2>5
<1>3. ASSUME NEW after \in {"LAST_ACK", "FIN_WAIT_1"}, p.state \in Open,
             q = tcp_output([tcp_send_fin(p) EXCEPT !.state = after])
      PROVE  Alive(q, w, e) /\ KeptFin(p, q)
  <2>1. PICK r : r = tcp_send_fin(p)
    OBVIOUS
  <2>2. PICK s : s = [r EXCEPT !.state = after]
    OBVIOUS
  <2>3. PosOf(p.snd_lbb) <= w + 1
    BY <1>3
  <2>4. Alive(r, w, e) /\ KeptRcv(p, r)
    BY <2>1, <2>3, SendFinOK
  <2>5. DOMAIN r = Fields
    BY <2>4 DEF KeptRcv, Kept0
  <2>6. /\ s.state = after /\ DOMAIN s = Fields
        /\ s.snd_nxt = r.snd_nxt /\ s.right_edge = r.right_edge /\ s.out = r.out /\ SameQueues(r, s)
        /\ s.rcv_nxt = r.rcv_nxt /\ s.rcv_wnd = r.rcv_wnd /\ s.rcv_ann_wnd = r.rcv_ann_wnd
        /\ s.snd_lbb = r.snd_lbb /\ s.lastack = r.lastack /\ s.snd_wnd = r.snd_wnd /\ s.snd_wnd_max = r.snd_wnd_max
        /\ s.cb = r.cb /\ s.rxclosed = r.rxclosed /\ s.closepend = r.closepend
        /\ s.inInput = r.inInput /\ s.tfClosed = r.tfClosed
    BY <2>2, <2>5, FieldSet DEF SameQueues
  <2>7. Alive(s, w, e)
    BY <2>4, <2>6 DEF Alive, RcvOK, SndOK, OutOK, Spare, SameQueues
  <2>8. q = tcp_output(s)
    BY <1>3, <2>1, <2>2
  <2>9. Alive(q, w, e) /\ Kept(s, q)
    BY <2>6, <2>7, <2>8, OutputOK
  <2>10. KeptFin(p, q)
    BY <2>4, <2>6, <2>9 DEF KeptFin, KeptRcv, Kept, Kept0
  <2> QED
    BY <2>9, <2>10
<1> QED
  BY <1>1, <1>2, <1>3 DEF tcp_close_shutdown_fin, Open


(* A copy of a control block with other flags. *)
SameData(p, q) ==
    /\ q.snd_nxt = p.snd_nxt /\ q.right_edge = p.right_edge /\ q.out = p.out /\ SameQueues(p, q)
    /\ q.rcv_nxt = p.rcv_nxt /\ q.rcv_wnd = p.rcv_wnd /\ q.rcv_ann_wnd = p.rcv_ann_wnd
    /\ q.snd_lbb = p.snd_lbb /\ q.lastack = p.lastack /\ q.snd_wnd = p.snd_wnd /\ q.snd_wnd_max = p.snd_wnd_max

LEMMA AliveData ==
  ASSUME NEW p, NEW q, NEW w, NEW e, Alive(p, w, e), SameData(p, q)
  PROVE  Alive(q, w, e)
  BY DEF Alive, RcvOK, SndOK, OutOK, Spare, SameQueues, SameData

(* tcp_close leaves a control block, or, outside tcp_input, frees it. *)
KeptClose(p, q) ==
    /\ DOMAIN q = Fields /\ q.cb = p.cb /\ q.rxclosed /\ q.rxclosed \in BOOLEAN /\ q.closepend \in BOOLEAN
    /\ q.inInput = p.inInput /\ q.tfClosed \in BOOLEAN
    /\ q.rcv_nxt = p.rcv_nxt /\ q.rcv_wnd = p.rcv_wnd
    /\ \/ q.state = p.state /\ q.snd_lbb = p.snd_lbb
       \/ q.state \in {"LAST_ACK", "FIN_WAIT_1"}

FreedFrom(p, q, w, e) ==
    \E x : q = Freed(x) /\ OutOK(x, w, e) /\ x.rcv_nxt = p.rcv_nxt /\ x.right_edge = p.right_edge

LEMMA CloseOK ==
  ASSUME NEW p, NEW q, NEW w \in 0..Down, NEW e \in Int, NEW mem,
         DOMAIN p = Fields, Alive(p, w, e), p.closepend \in BOOLEAN, p.tfClosed \in BOOLEAN,
         p.state \in Open => PosOf(p.snd_lbb) = w + 1,
         q = tcp_close(p, mem)
  PROVE  (Alive(q, w, e) /\ KeptClose(p, q)) \/ (~ p.inInput /\ FreedFrom(p, q, w, e))
<1>1. PICK t : t = TRUE
  OBVIOUS
<1>2. PICK p1 : p1 = [p EXCEPT !.rxclosed = t]
  OBVIOUS
<1>3. /\ SameData(p, p1) /\ DOMAIN p1 = Fields /\ p1.state = p.state /\ p1.cb = p.cb /\ p1.rxclosed = t
      /\ p1.closepend = p.closepend /\ p1.inInput = p.inInput /\ p1.tfClosed = p.tfClosed
  BY <1>2, FieldSet DEF SameData, SameQueues
<1>4. Alive(p1, w, e) /\ p1.rcv_nxt = p.rcv_nxt /\ p1.rcv_wnd = p.rcv_wnd /\ p1.snd_lbb = p.snd_lbb
      /\ p1.right_edge = p.right_edge
  BY <1>3, AliveData DEF SameData
<1>5. PICK r : r = tcp_rst(p1, p1.snd_nxt, p1.rcv_nxt)
  OBVIOUS
<1>6. PICK s : s = tcp_pcb_purge(r)
  OBVIOUS
<1>7. PICK v : v = [s EXCEPT !.tfClosed = t]
  OBVIOUS
<1>8. /\ ~ UnreadData(p1) => q = tcp_close_shutdown_fin(p1, mem)
      /\ UnreadData(p1) /\ p1.inInput => q = v
      /\ UnreadData(p1) /\ ~ p1.inInput => q = Freed(s)
  BY <1>1, <1>2, <1>5, <1>6, <1>7, Zenon DEF tcp_close
<1>9. p1.snd_nxt \in SeqNumbers /\ p1.rcv_nxt \in SeqNumbers
  BY <1>4, AliveQueueFacts
<1>10. Alive(r, w, e) /\ Kept(p1, r)
  BY <1>3, <1>4, <1>5, <1>9, RstOK
<1>11. DOMAIN r = Fields
  BY <1>10 DEF Kept, Kept0
<1>12. Alive(s, w, e) /\ Kept(r, s)
  BY <1>6, <1>10, <1>11, PurgeOK
<1>13. CASE ~ UnreadData(p1)
  <2>1. q = tcp_close_shutdown_fin(p1, mem)
    BY <1>8, <1>13
  <2>2. p1.state \in Open => PosOf(p1.snd_lbb) = w + 1
    BY <1>3, <1>4
  <2>3. Alive(q, w, e) /\ KeptFin(p1, q)
    BY <1>3, <1>4, <2>1, <2>2, ShutFinOK
  <2>4. KeptClose(p, q)
    <3>1. q.rxclosed = p1.rxclosed
      BY <2>3 DEF KeptFin
    <3>2. q.rxclosed /\ q.rxclosed \in BOOLEAN
      BY <1>1, <1>3, <3>1, Zenon
    <3> QED
      BY <1>3, <1>4, <2>3, <3>2 DEF KeptClose, KeptFin
  <2> QED
    BY <2>3, <2>4, Zenon
<1>14. CASE UnreadData(p1) /\ p1.inInput
  <2>1. q = v /\ DOMAIN s = Fields
    BY <1>8, <1>12, <1>14 DEF Kept, Kept0
  <2>2. /\ SameData(s, q) /\ DOMAIN q = Fields /\ q.state = s.state /\ q.cb = s.cb /\ q.rxclosed = s.rxclosed
        /\ q.closepend = s.closepend /\ q.inInput = s.inInput /\ q.tfClosed = t
    BY <1>7, <2>1, FieldSet DEF SameData, SameQueues
  <2>3. Alive(q, w, e)
    BY <1>12, <2>2, AliveData
  <2>4. t \in BOOLEAN
    BY <1>1
  <2>5. KeptClose(p, q)
    <3>1. q.rxclosed = p1.rxclosed
      BY <1>10, <1>12, <2>2 DEF Kept, Kept0
    <3>2. q.rxclosed /\ q.rxclosed \in BOOLEAN
      BY <1>1, <1>3, <3>1, Zenon
    <3> QED
      BY <1>3, <1>4, <1>10, <1>12, <2>2, <2>4, <3>2 DEF KeptClose, Kept, Kept0, SameData
  <2> QED
    BY <2>3, <2>5, Zenon
<1>15. CASE UnreadData(p1) /\ ~ p1.inInput
  <2>1. q = Freed(s)
    BY <1>8, <1>15
  <2>2. OutOK(s, w, e) /\ s.rcv_nxt = p.rcv_nxt
    BY <1>4, <1>10, <1>12 DEF Alive, Kept, Kept0
  <2>3. s.right_edge = p.right_edge
    <3>1. r.right_edge = p1.right_edge
      BY <1>3, <1>5, FieldSet DEF tcp_rst
    <3>2. s.right_edge = r.right_edge
      BY <1>6, <1>11, FieldSet DEF tcp_pcb_purge
    <3> QED
      BY <1>4, <3>1, <3>2
  <2>4. ~ p.inInput
    BY <1>3, <1>15
  <2> QED
    BY <2>1, <2>2, <2>3, <2>4 DEF FreedFrom
<1> QED
  BY <1>13, <1>14, <1>15

LEMMA AbandonOK ==
  ASSUME NEW p, NEW q, NEW w, NEW e \in Int, DOMAIN p = Fields, Alive(p, w, e), q = tcp_abandon(p)
  PROVE  FreedFrom(p, q, w, e)
<1>1. PICK r : r = tcp_rst(p, p.snd_nxt, p.rcv_nxt)
  OBVIOUS
<1>2. p.snd_nxt \in SeqNumbers /\ p.rcv_nxt \in SeqNumbers
  BY AliveQueueFacts
<1>3. Alive(r, w, e) /\ Kept(p, r)
  BY <1>1, <1>2, RstOK
<1>4. OutOK(r, w, e) /\ r.rcv_nxt = p.rcv_nxt /\ OutOK(p, w, e)
  BY <1>3 DEF Alive, Kept, Kept0
<1>5. r.right_edge = p.right_edge
  BY <1>1, FieldSet DEF tcp_rst
<1>6. q = Freed(p) \/ q = Freed(r)
  BY <1>1 DEF tcp_abandon
<1> QED
  BY <1>4, <1>5, <1>6 DEF FreedFrom


LEMMA TimerWorkOK ==
  ASSUME NEW p, NEW q, NEW w \in 0..Down, NEW e \in Int, NEW due,
         DOMAIN p = Fields, Alive(p, w, e), q = TimerWork(p, due)
  PROVE  Alive(q, w, e) /\ Kept(p, q)
<1>1. PICK r : r = tcp_split_unsent_seg(p, p.snd_wnd)
  OBVIOUS
<1>2. PICK s : s = tcp_rexmit_rto_prepare(p)
  OBVIOUS
<1>3. \/ q = p \/ q = tcp_zero_window_probe(p) \/ q = tcp_output(r) \/ q = tcp_rexmit_rto_commit(s)
  BY <1>1, <1>2 DEF TimerWork, PersistTimer, RetransmitTimer
<1>4. CASE q = p
  BY <1>4, KeptSelf
<1>5. CASE q = tcp_zero_window_probe(p)
  BY <1>5, ProbeOK
<1>6. CASE q = tcp_output(r)
  <2>1. p.snd_wnd \in Nat
    BY AliveQueueFacts
  <2>2. Alive(r, w, e) /\ Kept(p, r)
    BY <1>1, <2>1, SplitOK
  <2>3. DOMAIN r = Fields
    BY <2>2 DEF Kept, Kept0
  <2>4. Alive(q, w, e) /\ Kept(r, q)
    BY <1>6, <2>2, <2>3, OutputOK
  <2> QED
    BY <2>2, <2>4, KeptTwice
<1>7. CASE q = tcp_rexmit_rto_commit(s)
  <2>1. Alive(s, w, e) /\ Kept(p, s)
    BY <1>2, PrepareOK
  <2>2. DOMAIN s = Fields
    BY <2>1 DEF Kept, Kept0
  <2>3. Alive(q, w, e) /\ Kept(s, q)
    BY <1>7, <2>1, <2>2, CommitOK
  <2> QED
    BY <2>1, <2>3, KeptTwice
<1> QED
  BY <1>3, <1>4, <1>5, <1>6, <1>7


-----------------------------------------------------------------------------
(* What a call into lwIP leaves.                                           *)

Acks(list, k) == \A i \in 1..Len(list) : ~ list[i].rst => UpPos(list[i].ack) <= k

(* What a control block that was freed had sent. *)
Gone(p, a, e) ==
    /\ DownSegs(p.out, a.wrote) /\ Announces(p.out, e)
    /\ ~ a.opened => Below(p.out, 1, 1 + TCP_WND)
    /\ ~ a.closed => Acks(p.out, Given(a))

After(p, a, e) ==
    /\ Ctl(p) /\ AppOK(a)
    /\ p.cb <=> a.opened /\ ~ a.closed
    /\ Held(p, a) /\ SynRcvd(p, a)
    /\ p.state = "CLOSED" => Gone(p, a, e)
    /\ p.state # "CLOSED" => Alive(p, a.wrote, e)

(* What a call never takes back of the tunnel's object. *)
Grown(a, b) ==
    /\ a.wrote <= b.wrote /\ Given(a) <= Given(b)
    /\ a.opened => b.opened
    /\ a.closed => b.closed

LEMMA SegEdges ==
  ASSUME NEW list \in Seq(SegType), NEW i \in 1..Len(list)
  PROVE  UpPos(list[i].ack) \in Nat /\ EdgeOf(list[i]) \in Nat /\ list[i] \in SegType
<1>1. list[i] \in SegType
  OBVIOUS
<1> QED
  BY <1>1, SegmentFields, Positions, SMTT(30) DEF EdgeOf

LEMMA WiderBelow ==
  ASSUME NEW list \in Seq(SegType), NEW j \in Int, NEW d \in Int, NEW k \in Int, NEW e \in Int,
         Below(list, j, d), j <= k, d <= e
  PROVE  Below(list, k, e)
<1> SUFFICES ASSUME NEW i \in 1..Len(list), ~ list[i].rst
             PROVE  UpPos(list[i].ack) <= k /\ EdgeOf(list[i]) <= e
  BY DEF Below
<1>1. UpPos(list[i].ack) <= j /\ EdgeOf(list[i]) <= d
  BY DEF Below
<1>2. UpPos(list[i].ack) \in Nat /\ EdgeOf(list[i]) \in Nat
  BY SegEdges
<1> QED
  BY <1>1, <1>2

LEMMA JoinAcks ==
  ASSUME NEW s \in Seq(SegType), NEW t \in Seq(SegType), NEW j \in Int, NEW k \in Int,
         Acks(s, j), j <= k, Acks(t, k)
  PROVE  Acks(s \o t, k)
<1>1. /\ Len(s \o t) = Len(s) + Len(t)
      /\ \A i \in 1..(Len(s) + Len(t)) :
              \/ i \in 1..Len(s) /\ (s \o t)[i] = s[i]
              \/ i - Len(s) \in 1..Len(t) /\ (s \o t)[i] = t[i - Len(s)]
  BY Joined
<1>2. PICK l : l = s \o t
  OBVIOUS
<1> SUFFICES ASSUME NEW i \in 1..(Len(s) + Len(t)), ~ l[i].rst
             PROVE  UpPos(l[i].ack) <= k
  BY <1>1, <1>2 DEF Acks
<1>3. CASE i \in 1..Len(s) /\ l[i] = s[i]
  <2>1. UpPos(s[i].ack) <= j
    BY <1>3 DEF Acks
  <2>2. UpPos(s[i].ack) \in Nat
    BY <1>3, SegEdges
  <2> QED
    BY <1>3, <2>1, <2>2
<1>4. CASE i - Len(s) \in 1..Len(t) /\ l[i] = t[i - Len(s)]
  BY <1>4 DEF Acks
<1> QED
  BY <1>1, <1>2, <1>3, <1>4

LEMMA GivenIs ==
  ASSUME NEW a, AppOK(a)
  PROVE  /\ Given(a) \in 1..(Up + 2) /\ (~ a.opened => Given(a) = 1)
         /\ a.opened \in BOOLEAN /\ a.closed \in BOOLEAN /\ a.wrote \in Nat /\ a.wrote \in 0..Down
         /\ Len(a.got) \in Nat /\ (~ a.opened => ~ a.closed)
<1>1. a.got \in Seq(Nat) /\ a.fins \in 0..1 /\ Len(a.got) <= Up /\ (~ a.opened => a.got = << >> /\ a.fins = 0)
  BY DEF AppOK
<1>2. Len(a.got) \in Nat
  BY <1>1
<1> QED
  BY <1>1, <1>2, Constants DEF AppOK, Given

LEMMA AfterOut ==
  ASSUME NEW p, NEW a, NEW e \in Int, After(p, a, e)
  PROVE  /\ DownSegs(p.out, a.wrote) /\ Announces(p.out, e)
         /\ ~ a.opened => Below(p.out, 1, 1 + TCP_WND)
         /\ ~ a.closed => Acks(p.out, Given(a))
<1>1. CASE p.state = "CLOSED"
  BY <1>1 DEF After, Gone
<1>2. CASE p.state # "CLOSED"
  <2>1. /\ RcvOK(p) /\ OutOK(p, a.wrote, e) /\ Held(p, a) /\ SynRcvd(p, a) /\ AppOK(a)
        /\ p.cb <=> a.opened /\ ~ a.closed
    BY <1>2 DEF After, Alive
  <2>2. PICK u : u = UpPos(p.rcv_nxt)
    OBVIOUS
  <2>3. PICK r : r = UpPos(p.right_edge)
    OBVIOUS
  <2>4. /\ DownSegs(p.out, a.wrote) /\ Announces(p.out, e) /\ Below(p.out, u, r) /\ p.out \in Seq(SegType)
    BY <2>1, <2>2, <2>3 DEF OutOK, DownSegs
  <2>5. u \in 1..(Up + 2) /\ r \in Nat /\ r <= u + p.rcv_ann_wnd /\ p.rcv_ann_wnd \in 0..TCP_WND
    BY <2>1, <2>2, <2>3, EdgeStep, Constants DEF RcvOK
  <2>6. Given(a) \in 1..(Up + 2) /\ (~ a.opened => Given(a) = 1)
    BY <2>1, GivenIs
  <2>7. ASSUME ~ a.opened PROVE u = 1 /\ r <= 1 + TCP_WND
    BY <1>2, <2>1, <2>2, <2>5, <2>7, Constants DEF SynRcvd
  <2>8. ASSUME ~ a.closed PROVE u = Given(a)
    <3>1. CASE a.opened
      BY <2>1, <2>2, <2>8, <3>1 DEF Held
    <3>2. CASE ~ a.opened
      BY <2>6, <2>7, <3>2
    <3> QED
      BY <3>1, <3>2
  <2>9. ~ a.opened => Below(p.out, 1, 1 + TCP_WND)
    <3> SUFFICES ASSUME ~ a.opened PROVE Below(p.out, 1, 1 + TCP_WND)
      OBVIOUS
    <3>1. u <= 1 /\ r <= 1 + TCP_WND /\ 1 \in Int /\ 1 + TCP_WND \in Int /\ u \in Int /\ r \in Int
      BY <2>5, <2>7, Constants
    <3> QED
      BY <2>4, <3>1, WiderBelow
  <2>10. ~ a.closed => Acks(p.out, Given(a))
    BY <2>4, <2>8 DEF Acks, Below
  <2> QED
    BY <2>4, <2>9, <2>10
<1> QED
  BY <1>1, <1>2


LEMMA LeavePcb ==
  ASSUME NEW p, NEW a, NEW e \in Int, After(p, a, e), Leave(p, a)
  PROVE  PcbInv' /\ pcb'.state = p.state /\ pcb'.right_edge = p.right_edge
<1>1. PICK f : f = FALSE
  OBVIOUS
<1>2. PICK z : z = << >>
  OBVIOUS
<1>3. PICK q : q = [p EXCEPT !.out = z, !.inInput = f, !.tfClosed = f]
  OBVIOUS
<1>4. pcb' = q /\ app' = a
  BY <1>1, <1>2, <1>3, Zenon DEF Leave
<1>5. DOMAIN p = Fields
  BY DEF After, Ctl
<1>6. /\ DOMAIN q = Fields /\ q.out = z /\ q.inInput = f /\ q.tfClosed = f /\ q.state = p.state
      /\ q.cb = p.cb /\ q.rxclosed = p.rxclosed /\ q.closepend = p.closepend
      /\ q.snd_nxt = p.snd_nxt /\ q.right_edge = p.right_edge /\ SameQueues(p, q)
      /\ q.rcv_nxt = p.rcv_nxt /\ q.rcv_wnd = p.rcv_wnd /\ q.rcv_ann_wnd = p.rcv_ann_wnd
      /\ q.snd_lbb = p.snd_lbb /\ q.lastack = p.lastack /\ q.snd_wnd = p.snd_wnd /\ q.snd_wnd_max = p.snd_wnd_max
  BY <1>3, <1>5, FieldSet DEF SameQueues
<1>7. ~ q.inInput /\ ~ q.tfClosed /\ q.inInput \in BOOLEAN /\ q.tfClosed \in BOOLEAN /\ q.out = << >>
  BY <1>1, <1>2, <1>6, Zenon
<1>8. Ctl(q) /\ AppOK(a)
  BY <1>6, <1>7 DEF After, Ctl
<1>9. q.cb <=> a.opened /\ ~ a.closed
  BY <1>6, Zenon DEF After
<1>10. Held(q, a) /\ SynRcvd(q, a)
  BY <1>6 DEF After, Held, SynRcvd
<1>11. ASSUME q.state # "CLOSED" PROVE Alive(q, a.wrote, UpPos(q.right_edge))
  <2>1. Alive(p, a.wrote, e)
    BY <1>6, <1>11 DEF After
  <2>2. RcvOK(q)
    BY <1>6, <2>1 DEF Alive, RcvOK
  <2>3. SndOK(q, a.wrote)
    BY <1>6, <2>1 DEF Alive, SndOK, Spare, SameQueues
  <2>4. OutOK(q, a.wrote, UpPos(q.right_edge))
    <3>1. UpPos(q.right_edge) \in Nat
      BY <2>2, EdgeStep
    <3>2. Len(q.out) = 0 /\ q.out \in Seq(SegType)
      BY <1>7
    <3> QED
      BY <3>1, <3>2 DEF OutOK, DownSegs, Announces, Below
  <2> QED
    BY <2>2, <2>3, <2>4 DEF Alive
<1>12. /\ Ctl(pcb') /\ AppOK(app') /\ ~ pcb'.inInput /\ ~ pcb'.tfClosed /\ pcb'.out = << >>
       /\ pcb'.state # "CLOSED" => Alive(pcb', app'.wrote, UpPos(pcb'.right_edge))
       /\ pcb'.cb <=> app'.opened /\ ~ app'.closed
       /\ Held(pcb', app') /\ SynRcvd(pcb', app')
  BY <1>4, <1>7, <1>8, <1>9, <1>10, <1>11, Zenon
<1>13. PcbInv'
  BY <1>12, Zenon DEF PcbInv
<1> QED
  BY <1>4, <1>6, <1>13

LEMMA LeaveDown ==
  ASSUME LwipInv, NEW p, NEW a, NEW e \in Nat, After(p, a, e), Grown(app, a), Leave(p, a),
         UNCHANGED peer, Below(down, Up + 2, e), peer.st = "open" => peer.top <= e,
         pcb'.state = p.state, pcb'.right_edge = p.right_edge
  PROVE  DownInv'
<1>1. app' = a /\ down' = down \o p.out /\ peer' = peer
  BY DEF Leave
<1>2. PICK o : o = p.out
  OBVIOUS
<1>3. PICK l : l = down \o o
  OBVIOUS
<1>4. /\ DownSegs(o, a.wrote) /\ Announces(o, e)
      /\ ~ a.opened => Below(o, 1, 1 + TCP_WND)
      /\ ~ a.closed => Acks(o, Given(a))
  BY <1>2, AfterOut
<1>5. /\ DownSegs(down, app.wrote) /\ Announces(down, 0) /\ down \in Seq(SegType)
      /\ peer.st = "open" => Announces(down, peer.top)
      /\ ~ app.opened => Below(down, 1, 1 + TCP_WND) /\ peer.top <= 1 + TCP_WND
      /\ ~ app.closed => peer.una <= Given(app)
      /\ ~ app.closed => Acks(down, Given(app))
      /\ AppOK(app) /\ AppOK(a) /\ peer.top \in Nat /\ peer.una \in Nat
  BY Constants DEF LwipInv, DownInv, DownSegs, Acks, PcbInv, PeerInv, After
<1>6. /\ app.wrote \in Nat /\ a.wrote \in Nat /\ app.wrote <= a.wrote
      /\ Given(app) \in Int /\ Given(a) \in Int /\ Given(app) <= Given(a)
      /\ (~ a.opened => ~ app.opened) /\ (~ a.closed => ~ app.closed)
  BY <1>5, GivenIs DEF Grown
<1>7. DownSegs(l, a.wrote) /\ o \in Seq(SegType)
  <2>1. DownSegs(down, a.wrote)
    BY <1>5, <1>6, Grow
  <2> QED
    BY <1>3, <1>4, <2>1, JoinDownSegs DEF DownSegs
<1>8. Announces(l, 0)
  <2>1. 0 \in Int /\ e \in Int /\ 0 <= e
    OBVIOUS
  <2> QED
    BY <1>3, <1>4, <1>5, <1>7, <2>1, JoinAnnounces
<1>9. ASSUME peer.st = "open" PROVE Announces(l, peer.top)
  <2>1. peer.top \in Int /\ e \in Int /\ peer.top <= e /\ Announces(down, peer.top)
    BY <1>5, <1>9
  <2> QED
    BY <1>3, <1>4, <1>5, <1>7, <2>1, JoinAnnounces
<1>10. ASSUME p.state # "CLOSED"
       PROVE  Below(l, Up + 2, UpPos(p.right_edge)) /\ e <= UpPos(p.right_edge) /\ UpPos(p.right_edge) \in Nat
  <2>1. RcvOK(p) /\ OutOK(p, a.wrote, e)
    BY <1>10 DEF After, Alive
  <2>2. PICK u : u = UpPos(p.rcv_nxt)
    OBVIOUS
  <2>3. PICK r : r = UpPos(p.right_edge)
    OBVIOUS
  <2>4. PICK k : k = Up + 2
    OBVIOUS
  <2>5. u \in Int /\ u <= k /\ k \in Int /\ r \in Int /\ r \in Nat
    BY <2>1, <2>2, <2>3, <2>4, EdgeStep, Constants
  <2>6. Below(o, u, r) /\ e <= r
    BY <1>2, <2>1, <2>2, <2>3 DEF OutOK
  <2>7. Below(o, k, r)
    BY <1>7, <2>5, <2>6, WiderBelow
  <2>8. Below(down, k, r)
    BY <1>5, <2>4, <2>5, <2>6, WiderBelow
  <2>9. Below(l, k, r)
    BY <1>3, <1>5, <1>7, <2>7, <2>8, JoinBelow
  <2> QED
    BY <2>3, <2>4, <2>5, <2>6, <2>9
<1>11. ASSUME peer.st = "open", p.state # "CLOSED" PROVE peer.top <= UpPos(p.right_edge)
  BY <1>5, <1>10, <1>11
<1>12. ASSUME ~ a.opened PROVE Below(l, 1, 1 + TCP_WND) /\ peer.top <= 1 + TCP_WND
  BY <1>3, <1>4, <1>5, <1>6, <1>7, <1>12, JoinBelow
<1>13. ASSUME ~ a.closed PROVE peer.una <= Given(a) /\ Acks(l, Given(a))
  <2>1. peer.una <= Given(app) /\ Acks(down, Given(app)) /\ Acks(o, Given(a))
    BY <1>4, <1>5, <1>6, <1>13
  <2>2. Acks(l, Given(a))
    BY <1>3, <1>5, <1>6, <1>7, <2>1, JoinAcks
  <2> QED
    BY <1>5, <1>6, <2>1, <2>2
<1>14. down' = l
  BY <1>1, <1>2, <1>3
<1>15. /\ DownSegs(down', app'.wrote) /\ Announces(down', 0)
       /\ pcb'.state # "CLOSED" => Below(down', Up + 2, UpPos(pcb'.right_edge))
       /\ peer'.st = "open" => Announces(down', peer'.top)
       /\ peer'.st = "open" /\ pcb'.state # "CLOSED" => peer'.top <= UpPos(pcb'.right_edge)
       /\ ~ app'.opened => Below(down', 1, 1 + TCP_WND) /\ peer'.top <= 1 + TCP_WND
       /\ ~ app'.closed => peer'.una <= Given(app')
       /\ ~ app'.closed => Acks(down', Given(app'))
  BY <1>1, <1>7, <1>8, <1>9, <1>10, <1>11, <1>12, <1>13, <1>14, Zenon
<1> QED
  BY <1>15, Zenon DEF DownInv, Acks


LEMMA LeavePeer ==
  ASSUME LwipInv, NEW a, AppOK(a), Grown(app, a), app' = a, UNCHANGED peer, peer.st # "closed"
  PROVE  PeerInv'
<1>1. app.wrote \in Nat /\ a.wrote \in Nat /\ app.wrote <= a.wrote
  BY GivenIs DEF LwipInv, PcbInv, Grown
<1>2. PeerInv
  BY DEF LwipInv
<1>3. Len(peer.got) <= app.wrote /\ Len(peer.got) \in Nat
  BY <1>2 DEF PeerInv
<1>4. Len(peer.got) <= a.wrote
  BY <1>1, <1>3
<1> QED
  BY <1>2, <1>4 DEF PeerInv

NoSyn(list) == \A i \in 1..Len(list) : ~ list[i].syn

LEMMA LeaveUp ==
  ASSUME LwipInv, UNCHANGED peer, up' = up \/ (up # << >> /\ up' = Tail(up)),
         app'.opened => app.opened \/ (peer.st \in {"open", "reset"} /\ NoSyn(up'))
  PROVE  UpInv'
<1>1. UpInv
  BY DEF LwipInv
<1>2. CASE up' = up
  BY <1>1, <1>2 DEF UpInv, NoSyn
<1>3. CASE up # << >> /\ up' = Tail(up)
  <2>1. up \in Seq(SegType)
    BY <1>1 DEF UpInv
  <2>2. PICK l : l = Tail(up)
    OBVIOUS
  <2>3. /\ l \in Seq(SegType) /\ Len(up) \in Nat /\ Len(l) = Len(up) - 1
        /\ \A i \in 1..(Len(up) - 1) : l[i] = up[i + 1]
    BY <1>3, <2>1, <2>2, HeadTail
  <2>4. \A i \in 1..Len(l) : i + 1 \in 1..Len(up) /\ l[i] = up[i + 1]
    BY <2>3
  <2>5. \A i \in 1..Len(l) : UpSeg(l[i])
    BY <1>1, <2>4 DEF UpInv
  <2>6. ASSUME NEW i \in 1..Len(l), l[i].isAck /\ ~ l[i].rst /\ l[i].ack # LwipIss
        PROVE  peer.st \in {"open", "reset"} /\ \A j \in i..Len(l) : ~ l[j].syn
    <3>1. PICK k : k = i + 1
      OBVIOUS
    <3>2. k \in 1..Len(up) /\ l[i] = up[k]
      BY <2>4, <3>1
    <3>3. peer.st \in {"open", "reset"} /\ \A j \in k..Len(up) : ~ up[j].syn
      BY <1>1, <2>6, <3>2 DEF UpInv
    <3>4. ASSUME NEW j \in i..Len(l) PROVE ~ l[j].syn
      <4>1. j \in 1..Len(l) /\ j + 1 \in k..Len(up)
        BY <2>3, <3>1
      <4> QED
        BY <2>4, <3>3, <4>1
    <3> QED
      BY <3>3, <3>4
  <2>7. ASSUME app'.opened PROVE peer.st \in {"open", "reset"} /\ \A i \in 1..Len(l) : ~ l[i].syn
    <3>1. CASE app.opened
      BY <1>1, <2>4, <3>1 DEF UpInv
    <3>2. CASE peer.st \in {"open", "reset"} /\ NoSyn(up')
      BY <1>3, <2>2, <3>2 DEF NoSyn
    <3> QED
      BY <2>7, <3>1, <3>2
  <2>8. up' = l /\ peer' = peer
    BY <1>3, <2>2
  <2> QED
    BY <2>3, <2>5, <2>6, <2>7, <2>8 DEF UpInv
<1> QED
  BY <1>2, <1>3

LEMMA LeaveOK ==
  ASSUME LwipInv, NEW p, NEW a, NEW e \in Nat, After(p, a, e), Grown(app, a), Leave(p, a),
         UNCHANGED peer, Below(down, Up + 2, e), peer.st = "open" => peer.top <= e,
         peer.st # "closed",
         up' = up \/ (up # << >> /\ up' = Tail(up)),
         a.opened => app.opened \/ (peer.st \in {"open", "reset"} /\ NoSyn(up'))
  PROVE  LwipInv'
<1>1. PcbInv' /\ pcb'.state = p.state /\ pcb'.right_edge = p.right_edge
  <2>1. e \in Int
    OBVIOUS
  <2> QED
    BY <2>1, LeavePcb
<1>2. DownInv'
  BY <1>1, LeaveDown
<1>3. app' = a /\ AppOK(a)
  BY DEF Leave, After
<1>4. PeerInv'
  BY <1>3, LeavePeer
<1>5. UpInv'
  BY <1>3, LeaveUp
<1> QED
  BY <1>1, <1>2, <1>4, <1>5 DEF LwipInv

(* The usual case: there is a control block, and nothing is taken from up. *)
LEMMA LeaveActive ==
  ASSUME LwipInv, pcb.state # "CLOSED", NEW p, NEW a, After(p, a, UpPos(pcb.right_edge)),
         Grown(app, a), Leave(p, a), UNCHANGED peer, up' = up \/ (up # << >> /\ up' = Tail(up)),
         a.opened => app.opened \/ (peer.st \in {"open", "reset"} /\ NoSyn(up'))
  PROVE  LwipInv'
<1>1. PICK e : e = UpPos(pcb.right_edge)
  OBVIOUS
<1>2. RcvOK(pcb)
  BY DEF LwipInv, PcbInv, Alive
<1>3. e \in Nat
  BY <1>1, <1>2, EdgeStep
<1>4. /\ Below(down, Up + 2, e) /\ (peer.st = "open" => peer.top <= e) /\ peer.st # "closed"
  BY <1>1 DEF LwipInv, DownInv, PeerInv
<1> QED
  BY <1>1, <1>3, <1>4, LeaveOK


-----------------------------------------------------------------------------
(* Calls of the tunnel and of the timers.                                  *)

LEMMA BeforeCall ==
  ASSUME LwipInv, pcb.state # "CLOSED", NEW e, e = UpPos(pcb.right_edge)
  PROVE  After(pcb, app, e) /\ e \in Nat
<1>1. RcvOK(pcb)
  BY DEF LwipInv, PcbInv, Alive
<1>2. e \in Nat
  BY <1>1, EdgeStep
<1>3. PcbInv
  BY DEF LwipInv
<1>4. After(pcb, app, e)
  BY <1>3, Zenon DEF PcbInv, After
<1> QED
  BY <1>2, <1>4

LEMMA AfterFacts ==
  ASSUME NEW p, NEW a, NEW e, After(p, a, e), p.state # "CLOSED"
  PROVE  /\ DOMAIN p = Fields /\ Alive(p, a.wrote, e) /\ a.wrote \in 0..Down /\ a.wrote \in Nat /\ AppOK(a)
         /\ p.closepend \in BOOLEAN /\ p.tfClosed \in BOOLEAN /\ p.rxclosed \in BOOLEAN /\ p.inInput \in BOOLEAN
         /\ p.state \in States /\ p.cb \in BOOLEAN
         /\ p.state \in Open => PosOf(p.snd_lbb) = a.wrote + 1
         /\ p.cb => /\ p.state \in {"ESTABLISHED", "CLOSE_WAIT"} /\ ~ p.rxclosed /\ ~ p.closepend
                    /\ UpPos(p.rcv_nxt) = Given(a) /\ p.rcv_wnd + a.owed = TCP_WND
                    /\ PosOf(p.snd_lbb) = a.wrote + 1
         /\ p.cb <=> a.opened /\ ~ a.closed
<1>1. Ctl(p) /\ AppOK(a) /\ Held(p, a) /\ Alive(p, a.wrote, e) /\ (p.cb <=> a.opened /\ ~ a.closed)
  BY Zenon DEF After
<1>2. a.wrote \in 0..Down /\ a.wrote \in Nat
  BY <1>1, GivenIs
<1> QED
  BY <1>1, <1>2 DEF Ctl, Held, Open

LEMMA AfterKept ==
  ASSUME NEW p, NEW q, NEW a, NEW e, After(p, a, e), p.state # "CLOSED",
         Alive(q, a.wrote, e), Kept(p, q)
  PROVE  After(q, a, e)
<1>1. Ctl(q)
  BY DEF After, Ctl, Kept, Kept0
<1>2. q.cb <=> a.opened /\ ~ a.closed
  BY Zenon DEF After, Kept, Kept0
<1>3. Held(q, a)
  BY DEF After, Held, Kept, Kept0
<1>4. SynRcvd(q, a)
  BY DEF After, SynRcvd, Kept, Kept0
<1>5. q.state # "CLOSED" /\ AppOK(a)
  BY DEF After, Kept, Kept0
<1> QED
  BY <1>1, <1>2, <1>3, <1>4, <1>5, Zenon DEF After

LEMMA AfterOutput ==
  ASSUME NEW p, NEW q, NEW a, NEW e \in Int, After(p, a, e), p.state # "CLOSED", q = tcp_output(p)
  PROVE  After(q, a, e) /\ Kept(p, q)
<1>1. DOMAIN p = Fields /\ Alive(p, a.wrote, e)
  BY AfterFacts
<1>2. Alive(q, a.wrote, e) /\ Kept(p, q)
  BY <1>1, OutputOK
<1> QED
  BY <1>2, AfterKept

LEMMA GrownSelf ==
  ASSUME NEW a, AppOK(a)
  PROVE  Grown(a, a)
  BY GivenIs DEF Grown

LEMMA BytesNumbered ==
  ASSUME NEW w \in Nat, NEW n \in Nat
  PROVE  Numbered(Bytes(w + 1, w + n), w) /\ Len(Bytes(w + 1, w + n)) = n
<1>1. PICK b : b = Bytes(w + 1, w + n)
  OBVIOUS
<1>2. b = [i \in 1..n |-> w + 1 + i - 1]
  <2>1. (w + n) - (w + 1) + 1 = n
    OBVIOUS
  <2> QED
    BY <1>1, <2>1 DEF Bytes
<1>3. b \in Seq(Nat) /\ Len(b) = n /\ \A i \in 1..n : b[i] = w + i
  BY <1>2
<1> QED
  BY <1>1, <1>3 DEF Numbered

LEMMA WrittenAlive ==
  ASSUME NEW p, NEW q, NEW a, NEW e \in Int, NEW n \in Nat, DOMAIN p = Fields,
         a.wrote \in 0..Down, Alive(p, a.wrote, e), PosOf(p.snd_lbb) = a.wrote + 1,
         a.wrote + n <= Down, q = Written(p, a, n)
  PROVE  /\ Alive(q, a.wrote + n, e) /\ KeptRcv(p, q) /\ PosOf(q.snd_lbb) = (a.wrote + n) + 1
<1>1. PICK w : w = a.wrote
  OBVIOUS
<1>2. w \in Nat /\ w \in 0..Down
  BY <1>1, Constants
<1>3. CASE n = 0
  <2>1. q = p /\ w + n = w
    BY <1>2, <1>3 DEF Written
  <2> QED
    BY <1>1, <2>1 DEF KeptRcv, Kept0
<1>4. CASE n > 0
  <2>1. PICK b : b = Bytes(w + 1, w + n)
    OBVIOUS
  <2>2. q = tcp_write(p, b)
    <3>1. n # 0
      BY <1>4
    <3> QED
      BY <1>1, <2>1, <3>1, Zenon DEF Written
  <2>3. Numbered(b, w) /\ Len(b) = n
    BY <1>2, <2>1, BytesNumbered
  <2>4. WriteOf(p, w, e, n, b)
    BY <1>1, <1>2, <1>4, <2>3 DEF WriteOf
  <2>5. Alive(q, w + n, e) /\ KeptRcv(p, q) /\ PosOf(q.snd_lbb) = (w + n) + 1
    BY <2>2, <2>4, WriteOK
  <2> QED
    BY <1>1, <2>5
<1> QED
  BY <1>3, <1>4

WroteMore(a, b, n) ==
    /\ AppOK(b) /\ Grown(a, b) /\ b.wrote = a.wrote + n /\ Given(b) = Given(a)
    /\ b.opened = a.opened /\ b.closed = a.closed /\ b.owed = a.owed
    /\ b.got = a.got /\ b.fins = a.fins

LEMMA AppWrote ==
  ASSUME NEW a, NEW n \in Nat, AppOK(a), a.opened, a.wrote + n <= Down
  PROVE  WroteMore(a, [a EXCEPT !.wrote = @ + n], n)
<1>0. PICK b : b = [a EXCEPT !.wrote = @ + n]
  OBVIOUS
<1>1. a.wrote \in Nat /\ Given(a) \in Int
  BY GivenIs
<1>2. PICK m : m = a.wrote + n
  OBVIOUS
<1>3. b = [a EXCEPT !.wrote = m]
  BY <1>0, <1>2
<1>4. DOMAIN a = {"opened", "closed", "wrote", "got", "owed", "fins", "errs"}
  BY DEF AppOK, AppInit
<1>5. /\ DOMAIN b = DOMAIN a /\ b.wrote = m /\ b.opened = a.opened /\ b.closed = a.closed
      /\ b.got = a.got /\ b.owed = a.owed /\ b.fins = a.fins /\ b.errs = a.errs
  BY <1>3, <1>4
<1>6. AppOK(b)
  <2>1. b.wrote \in 0..Down
    BY <1>1, <1>2, <1>5, Constants
  <2>2. /\ DOMAIN b = DOMAIN AppInit /\ b.opened \in BOOLEAN /\ b.closed \in BOOLEAN /\ b.opened
        /\ (b.closed => b.opened) /\ (b.errs > 0 => b.closed)
    BY <1>5, Zenon DEF AppOK
  <2>3. /\ b.owed \in Nat /\ b.got \in Seq(Nat) /\ b.fins \in 0..1 /\ b.errs \in 0..1
        /\ Len(b.got) <= Up /\ (\A i \in 1..Len(b.got) : b.got[i] = i) /\ (b.fins = 1 => Len(b.got) = Up)
    BY <1>5 DEF AppOK
  <2> QED
    BY <2>1, <2>2, <2>3, Zenon DEF AppOK
<1>7. Given(b) = Given(a)
  BY <1>5 DEF Given
<1>8. a.wrote <= b.wrote /\ Given(a) <= Given(b)
  BY <1>1, <1>2, <1>5, <1>7
<1>9. Grown(a, b)
  BY <1>5, <1>8, Zenon DEF Grown
<1>10. WroteMore(a, b, n)
  BY <1>2, <1>5, <1>6, <1>7, <1>9, Zenon DEF WroteMore
<1> QED
  BY <1>0, <1>10, Zenon

(* The tunnel's object has nothing more to be told of: it closed, or it    *)
(* was never given the connection and nothing but the SYN was taken.       *)
Settled(p, a) ==
    \/ a.closed
    \/ /\ ~ a.opened /\ UpPos(p.rcv_nxt) \in 0..1 /\ UpPos(p.right_edge) \in 0..(1 + TCP_WND)

LEMMA FreedIs ==
  ASSUME NEW x, NEW q, q = Freed(x)
  PROVE  /\ DOMAIN q = Fields /\ q.state = "CLOSED" /\ q.out = x.out
         /\ q.cb = FALSE /\ q.rxclosed = FALSE /\ q.closepend = FALSE /\ q.inInput = FALSE /\ q.tfClosed = FALSE
  BY DEF Freed, tcp_alloc, Fields

LEMMA FreedOK ==
  ASSUME NEW p, NEW q, NEW w, NEW b, NEW e \in Int, FreedFrom(p, q, w, e),
         AppOK(b), b.wrote = w, Settled(p, b)
  PROVE  After(q, b, e)
<1>1. PICK x : q = Freed(x) /\ OutOK(x, w, e) /\ x.rcv_nxt = p.rcv_nxt /\ x.right_edge = p.right_edge
  BY DEF FreedFrom
<1>2. /\ DOMAIN q = Fields /\ q.state = "CLOSED" /\ q.out = x.out
      /\ q.cb = FALSE /\ q.rxclosed = FALSE /\ q.closepend = FALSE /\ q.inInput = FALSE /\ q.tfClosed = FALSE
  BY <1>1, FreedIs
<1>3. ~ q.cb /\ q.cb \in BOOLEAN /\ q.rxclosed \in BOOLEAN /\ q.closepend \in BOOLEAN /\ q.inInput \in BOOLEAN
      /\ q.tfClosed \in BOOLEAN /\ q.state \in States
  BY <1>2 DEF States
<1>4. Ctl(q)
  BY <1>2, <1>3, Zenon DEF Ctl
<1>5. q.cb <=> b.opened /\ ~ b.closed
  BY <1>3, Zenon DEF Settled
<1>6. Held(q, b) /\ SynRcvd(q, b)
  BY <1>2, <1>3 DEF Held, SynRcvd
<1>7. PICK u : u = UpPos(p.rcv_nxt)
  OBVIOUS
<1>8. PICK r : r = UpPos(p.right_edge)
  OBVIOUS
<1>9. DownSegs(q.out, w) /\ Announces(q.out, e) /\ Below(q.out, u, r) /\ q.out \in Seq(SegType)
  BY <1>1, <1>2, <1>7, <1>8 DEF OutOK, DownSegs
<1>10. ASSUME ~ b.closed PROVE Below(q.out, 1, 1 + TCP_WND) /\ Acks(q.out, Given(b))
  <2>1. ~ b.opened /\ u \in 0..1 /\ r \in 0..(1 + TCP_WND)
    BY <1>7, <1>8, <1>10 DEF Settled
  <2>2. u \in Int /\ r \in Int /\ 1 \in Int /\ 1 + TCP_WND \in Int /\ u <= 1 /\ r <= 1 + TCP_WND
    BY <2>1, Constants
  <2>3. Below(q.out, 1, 1 + TCP_WND)
    BY <1>9, <2>2, WiderBelow
  <2>4. Given(b) = 1
    BY <2>1, GivenIs
  <2> QED
    BY <2>3, <2>4 DEF Below, Acks
<1>11. ~ b.opened => ~ b.closed
  BY GivenIs
<1>12. Gone(q, b, e)
  BY <1>9, <1>10, <1>11 DEF Gone
<1> QED
  BY <1>2, <1>4, <1>5, <1>6, <1>12, Zenon DEF After

LEMMA UnheldSettled ==
  ASSUME NEW p, NEW a, NEW e, After(p, a, e), p.state # "CLOSED", ~ p.cb
  PROVE  Settled(p, a)
<1>1. CASE a.opened
  BY <1>1, Zenon DEF After, Settled
<1>2. CASE ~ a.opened
  <2>1. SynRcvd(p, a) /\ RcvOK(p)
    BY DEF After, Alive
  <2>2. UpPos(p.rcv_nxt) = 1 /\ p.rcv_ann_wnd = TCP_WND
    BY <1>2, <2>1 DEF SynRcvd
  <2>3. UpPos(p.right_edge) \in 0..(1 + TCP_WND)
    BY <2>1, <2>2, Constants DEF RcvOK
  <2> QED
    BY <1>2, <2>2, <2>3 DEF Settled
<1> QED
  BY <1>1, <1>2

LEMMA AppFields ==
  ASSUME NEW a, AppOK(a)
  PROVE  DOMAIN a = {"opened", "closed", "wrote", "got", "owed", "fins", "errs"}
  BY DEF AppOK, AppInit

(* The tunnel closes. *)
LEMMA AppCloses ==
  ASSUME NEW a, NEW b, NEW x \in 0..1, AppOK(a), a.opened,
         b = [a EXCEPT !.closed = TRUE, !.errs = x]
  PROVE  AppOK(b) /\ Grown(a, b) /\ b.closed /\ b.wrote = a.wrote /\ b.opened
<1>1. PICK t : t = TRUE
  OBVIOUS
<1>2. b = [a EXCEPT !.closed = t, !.errs = x]
  BY <1>1
<1>3. /\ DOMAIN b = DOMAIN a /\ b.wrote = a.wrote /\ b.opened = a.opened /\ b.closed = t
      /\ b.got = a.got /\ b.owed = a.owed /\ b.fins = a.fins /\ b.errs = x
  BY <1>2, AppFields
<1>4. b.closed /\ b.closed \in BOOLEAN /\ b.opened /\ b.opened \in BOOLEAN /\ DOMAIN b = DOMAIN AppInit
  BY <1>1, <1>3, Zenon DEF AppOK
<1>5. /\ b.wrote \in 0..Down /\ b.owed \in Nat /\ b.got \in Seq(Nat) /\ b.fins \in 0..1 /\ b.errs \in 0..1
      /\ Len(b.got) <= Up /\ (\A i \in 1..Len(b.got) : b.got[i] = i) /\ (b.fins = 1 => Len(b.got) = Up)
  BY <1>3 DEF AppOK
<1>6. AppOK(b)
  BY <1>4, <1>5, Zenon DEF AppOK
<1>7. a.wrote \in Nat /\ Given(a) \in Int /\ Given(b) = Given(a)
  BY <1>3, GivenIs DEF Given
<1>8. a.wrote <= b.wrote /\ Given(a) <= Given(b)
  BY <1>3, <1>7
<1>9. Grown(a, b)
  BY <1>4, <1>8, ZenonT(30) DEF Grown
<1> QED
  BY <1>3, <1>4, <1>6, <1>9, Zenon

LEMMA AppShuts ==
  ASSUME NEW a, NEW b, AppOK(a), a.opened, b = [a EXCEPT !.closed = TRUE]
  PROVE  AppOK(b) /\ Grown(a, b) /\ b.closed /\ b.wrote = a.wrote /\ b.opened
<1>1. a.errs \in 0..1
  BY DEF AppOK
<1>2. b = [a EXCEPT !.closed = TRUE, !.errs = a.errs]
  BY AppFields
<1> QED
  BY <1>1, <1>2, AppCloses

LEMMA ErrOK ==
  ASSUME NEW p, NEW a, NEW b, AppOK(a), p.cb => a.opened /\ ~ a.closed, b = tcp_err_cb(p, a)
  PROVE  AppOK(b) /\ Grown(a, b) /\ b.wrote = a.wrote /\ (b.opened => a.opened) /\ (p.cb => b.closed)
         /\ (~ p.cb => b = a)
<1>1. CASE p.cb
  <2>1. a.errs = 0 /\ a.opened
    BY <1>1 DEF AppOK
  <2>2. b = [a EXCEPT !.closed = TRUE, !.errs = @ + 1]
    BY <1>1 DEF tcp_err_cb
  <2>3. a.errs + 1 = 1 /\ 1 \in 0..1
    BY <2>1
  <2>4. b = [a EXCEPT !.closed = TRUE, !.errs = 1]
    BY <2>2, <2>3
  <2>5. AppOK(b) /\ Grown(a, b) /\ b.closed /\ b.wrote = a.wrote /\ b.opened
    BY <2>1, <2>3, <2>4, AppCloses
  <2> QED
    BY <1>1, <2>1, <2>5, Zenon
<1>2. CASE ~ p.cb
  <2>1. b = a
    BY <1>2 DEF tcp_err_cb
  <2> QED
    BY <1>2, <2>1, GrownSelf
<1> QED
  BY <1>1, <1>2

(* Between the parts of tcp_input: k positions of the client's stream were *)
(* taken and not yet given to the tunnel.                                  *)
HeldBy(p, a, k) ==
    /\ p.cb => UpPos(p.rcv_nxt) = Given(a) + k /\ p.rcv_wnd + a.owed + k = TCP_WND
    /\ p.state \in {"SYN_RCVD", "ESTABLISHED", "CLOSE_WAIT"} => PosOf(p.snd_lbb) = a.wrote + 1

Mid(p, a, k, e) ==
    /\ Ctl(p) /\ AppOK(a)
    /\ p.cb <=> a.opened /\ ~ a.closed
    /\ HeldBy(p, a, k) /\ SynRcvd(p, a)
    /\ p.state # "CLOSED" /\ Alive(p, a.wrote, e)

LEMMA HeldZero ==
  ASSUME NEW p, NEW a, AppOK(a), p.rcv_wnd \in Int
  PROVE  HeldBy(p, a, 0) <=> Held(p, a)
<1>1. Given(a) \in Int /\ a.owed \in Int
  BY GivenIs DEF AppOK
<1> QED
  BY <1>1 DEF Held, HeldBy

LEMMA MidAfter ==
  ASSUME NEW p, NEW a, NEW e
  PROVE  Mid(p, a, 0, e) <=> After(p, a, e) /\ p.state # "CLOSED"
<1>1. AppOK(a) /\ Alive(p, a.wrote, e) => (HeldBy(p, a, 0) <=> Held(p, a))
  <2> SUFFICES ASSUME AppOK(a), Alive(p, a.wrote, e) PROVE HeldBy(p, a, 0) <=> Held(p, a)
    OBVIOUS
  <2>1. p.rcv_wnd \in Int
    BY Constants DEF Alive, RcvOK
  <2> QED
    BY <2>1, HeldZero
<1> QED
  BY <1>1, Zenon DEF Mid, After

LEMMA MidFacts ==
  ASSUME NEW p, NEW a, NEW k, NEW e, Mid(p, a, k, e)
  PROVE  /\ DOMAIN p = Fields /\ Alive(p, a.wrote, e) /\ a.wrote \in 0..Down /\ a.wrote \in Nat /\ AppOK(a)
         /\ p.closepend \in BOOLEAN /\ p.tfClosed \in BOOLEAN /\ p.rxclosed \in BOOLEAN /\ p.inInput \in BOOLEAN
         /\ p.state \in States /\ p.cb \in BOOLEAN /\ p.state # "CLOSED"
         /\ p.state \in Open => PosOf(p.snd_lbb) = a.wrote + 1
         /\ p.cb => /\ p.state \in {"ESTABLISHED", "CLOSE_WAIT"} /\ ~ p.rxclosed /\ ~ p.closepend
                    /\ UpPos(p.rcv_nxt) = Given(a) + k /\ p.rcv_wnd + a.owed + k = TCP_WND
                    /\ PosOf(p.snd_lbb) = a.wrote + 1
         /\ p.cb <=> a.opened /\ ~ a.closed
<1>1. Ctl(p) /\ AppOK(a) /\ HeldBy(p, a, k) /\ Alive(p, a.wrote, e) /\ (p.cb <=> a.opened /\ ~ a.closed)
      /\ p.state # "CLOSED"
  BY Zenon DEF Mid
<1>2. a.wrote \in 0..Down /\ a.wrote \in Nat
  BY <1>1, GivenIs
<1> QED
  BY <1>1, <1>2 DEF Ctl, HeldBy, Open

LEMMA MidKept ==
  ASSUME NEW p, NEW q, NEW a, NEW k, NEW e, Mid(p, a, k, e), Alive(q, a.wrote, e), Kept(p, q)
  PROVE  Mid(q, a, k, e)
<1>1. Ctl(q)
  BY DEF Mid, Ctl, Kept, Kept0
<1>2. q.cb <=> a.opened /\ ~ a.closed
  BY Zenon DEF Mid, Kept, Kept0
<1>3. HeldBy(q, a, k)
  BY DEF Mid, HeldBy, Kept, Kept0
<1>4. SynRcvd(q, a)
  BY DEF Mid, SynRcvd, Kept, Kept0
<1>5. q.state # "CLOSED" /\ AppOK(a)
  BY DEF Mid, Kept, Kept0
<1> QED
  BY <1>1, <1>2, <1>3, <1>4, <1>5, Zenon DEF Mid

LEMMA MidWritten ==
  ASSUME NEW p, NEW q, NEW a, NEW b, NEW k, NEW e \in Int, NEW n \in Nat, Mid(p, a, k, e), p.cb,
         a.wrote + n <= Down, q = Written(p, a, n), WroteMore(a, b, n)
  PROVE  Mid(q, b, k, e) /\ Kept0(p, q) /\ Grown(a, b) /\ b.opened = a.opened /\ b.closed = a.closed
         /\ Given(b) = Given(a) /\ q.cb
<1>1. /\ DOMAIN p = Fields /\ Alive(p, a.wrote, e) /\ a.wrote \in 0..Down /\ AppOK(a) /\ a.opened
      /\ PosOf(p.snd_lbb) = a.wrote + 1 /\ p.state \in {"ESTABLISHED", "CLOSE_WAIT"}
  BY MidFacts
<1>2. /\ AppOK(b) /\ Grown(a, b) /\ b.wrote = a.wrote + n /\ Given(b) = Given(a)
      /\ b.opened = a.opened /\ b.closed = a.closed /\ b.owed = a.owed
      /\ b.got = a.got /\ b.fins = a.fins
  BY Zenon DEF WroteMore
<1>3. Alive(q, a.wrote + n, e) /\ KeptRcv(p, q) /\ PosOf(q.snd_lbb) = (a.wrote + n) + 1
  BY <1>1, WrittenAlive
<1>4. Ctl(q)
  BY <1>3 DEF Mid, Ctl, KeptRcv, Kept0
<1>5. q.cb <=> b.opened /\ ~ b.closed
  BY <1>2, <1>3, Zenon DEF Mid, KeptRcv, Kept0
<1>6. HeldBy(q, b, k)
  BY <1>2, <1>3 DEF Mid, HeldBy, KeptRcv, Kept0
<1>7. q.state = p.state /\ b.opened /\ q.cb
  BY <1>1, <1>2, <1>3, Zenon DEF KeptRcv, Kept0
<1>8. SynRcvd(q, b) /\ q.state # "CLOSED"
  BY <1>1, <1>7 DEF SynRcvd
<1>9. Alive(q, b.wrote, e)
  BY <1>2, <1>3
<1>10. Mid(q, b, k, e)
  BY <1>2, <1>4, <1>5, <1>6, <1>8, <1>9, Zenon DEF Mid
<1> QED
  BY <1>2, <1>3, <1>7, <1>10, Zenon DEF KeptRcv

(* lwip_bridge_tcp_close: the tunnel has closed. *)
CloseLeft(p, q, b, e) ==
    \/ (\A j : Mid(q, b, j, e)) /\ q.inInput = p.inInput
    \/ ~ p.inInput /\ After(q, b, e)

LEMMA CloseMid ==
  ASSUME NEW p, NEW q, NEW a, NEW b, NEW k, NEW e \in Int, NEW mem, Mid(p, a, k, e), p.cb,
         q = lwip_bridge_tcp_close(p, mem),
         AppOK(b), b.closed, b.opened, b.wrote = a.wrote
  PROVE  CloseLeft(p, q, b, e)
<1>1. PICK f : f = FALSE
  OBVIOUS
<1>2. PICK p1 : p1 = [p EXCEPT !.cb = f]
  OBVIOUS
<1>3. /\ DOMAIN p = Fields /\ Alive(p, a.wrote, e) /\ a.wrote \in 0..Down
      /\ p.closepend \in BOOLEAN /\ p.tfClosed \in BOOLEAN /\ p.inInput \in BOOLEAN
      /\ p.state \in {"ESTABLISHED", "CLOSE_WAIT"} /\ PosOf(p.snd_lbb) = a.wrote + 1
  BY MidFacts
<1>4. q = tcp_close(p1, mem)
  BY <1>1, <1>2 DEF lwip_bridge_tcp_close
<1>5. /\ SameData(p, p1) /\ DOMAIN p1 = Fields /\ p1.state = p.state /\ p1.cb = f
      /\ p1.closepend = p.closepend /\ p1.inInput = p.inInput /\ p1.tfClosed = p.tfClosed
  BY <1>2, <1>3, FieldSet DEF SameData, SameQueues
<1>6. Alive(p1, a.wrote, e) /\ PosOf(p1.snd_lbb) = a.wrote + 1 /\ p1.closepend \in BOOLEAN /\ p1.tfClosed \in BOOLEAN
  BY <1>3, <1>5, AliveData DEF SameData
<1>7. (Alive(q, a.wrote, e) /\ KeptClose(p1, q)) \/ (~ p1.inInput /\ FreedFrom(p1, q, a.wrote, e))
  BY <1>3, <1>4, <1>5, <1>6, CloseOK
<1>8. CASE Alive(q, a.wrote, e) /\ KeptClose(p1, q)
  <2>1. ~ q.cb /\ q.cb \in BOOLEAN
    <3>1. q.cb = f
      BY <1>5, <1>8 DEF KeptClose
    <3> QED
      BY <1>1, <3>1, Zenon
  <2>2. q.inInput = p.inInput /\ q.inInput \in BOOLEAN
    BY <1>3, <1>5, <1>8, Zenon DEF KeptClose
  <2>3. q.state \in {"ESTABLISHED", "CLOSE_WAIT", "LAST_ACK", "FIN_WAIT_1"}
        /\ (q.state \in {"ESTABLISHED", "CLOSE_WAIT"} => q.snd_lbb = p1.snd_lbb)
    BY <1>3, <1>5, <1>8 DEF KeptClose
  <2>4. Ctl(q)
    <3>1. q.state \in States
      BY <2>3 DEF States
    <3> QED
      BY <1>8, <2>1, <2>2, <3>1, Zenon DEF Ctl, KeptClose
  <2>5. q.cb <=> b.opened /\ ~ b.closed
    BY <2>1, Zenon
  <2>6. SynRcvd(q, b) /\ q.state # "CLOSED"
    BY <2>3 DEF SynRcvd
  <2>7. ASSUME NEW j PROVE Mid(q, b, j, e)
    <3>1. HeldBy(q, b, j)
      BY <1>6, <2>1, <2>3 DEF HeldBy
    <3>2. Alive(q, b.wrote, e)
      BY <1>8
    <3> QED
      BY <2>4, <2>5, <2>6, <3>1, <3>2, Zenon DEF Mid
  <2> QED
    BY <2>2, <2>7, Zenon DEF CloseLeft
<1>9. CASE ~ p1.inInput /\ FreedFrom(p1, q, a.wrote, e)
  <2>1. Settled(p1, b)
    BY DEF Settled
  <2>2. After(q, b, e)
    BY <1>9, <2>1, FreedOK
  <2> QED
    BY <1>5, <1>9, <2>2 DEF CloseLeft
<1> QED
  BY <1>7, <1>8, <1>9

LEMMA CloseAfter ==
  ASSUME NEW p, NEW q, NEW b, NEW e, CloseLeft(p, q, b, e)
  PROVE  After(q, b, e)
<1>1. CASE \A j : Mid(q, b, j, e)
  BY <1>1, MidAfter
<1> QED
  BY <1>1 DEF CloseLeft

(* A call of the tunnel that leaves p and a. *)
LEMMA CallKeeps ==
  ASSUME LwipInv, pcb.state # "CLOSED", NEW p, NEW a, After(p, a, UpPos(pcb.right_edge)),
         Grown(app, a), a.opened => app.opened, Leave(p, a), UNCHANGED << peer, up, lost >>
  PROVE  LwipInv'
<1>1. up' = up /\ UNCHANGED peer
  OBVIOUS
<1> QED
  BY <1>1, LeaveActive

LEMMA GrownTwice ==
  ASSUME NEW a, NEW b, NEW c, AppOK(a), AppOK(b), AppOK(c), Grown(a, b), Grown(b, c)
  PROVE  Grown(a, c)
<1>1. /\ a.wrote \in Int /\ b.wrote \in Int /\ c.wrote \in Int
      /\ Given(a) \in Int /\ Given(b) \in Int /\ Given(c) \in Int
  BY GivenIs
<1>2. a.wrote <= c.wrote /\ Given(a) <= Given(c)
  BY <1>1 DEF Grown
<1> QED
  BY <1>2, Zenon DEF Grown

LEMMA AppWriteKeeps ==
  ASSUME LwipInv, NEW n \in Nat, AppWrite(n)
  PROVE  LwipInv'
<1>1. PICK e : e = UpPos(pcb.right_edge)
  OBVIOUS
<1>2. pcb.cb /\ app.wrote + n <= Down
  BY DEF AppWrite, CanWrite
<1>3. pcb.state # "CLOSED"
  BY <1>2 DEF LwipInv, PcbInv, Ctl
<1>4. Mid(pcb, app, 0, e) /\ e \in Int
  BY <1>1, <1>3, BeforeCall, MidAfter
<1>5. PICK b : b = [app EXCEPT !.wrote = @ + n]
  OBVIOUS
<1>6. PICK p : p = Written(pcb, app, n)
  OBVIOUS
<1>7. PICK q : q = tcp_output(p)
  OBVIOUS
<1>8. Mid(p, b, 0, e) /\ Grown(app, b) /\ b.opened = app.opened
  <2>1. AppOK(app) /\ app.opened
    BY <1>2, <1>4, MidFacts
  <2>2. WroteMore(app, [app EXCEPT !.wrote = @ + n], n)
    BY <1>2, <2>1, AppWrote
  <2>3. WroteMore(app, b, n)
    BY <1>5, <2>2, Zenon
  <2> QED
    BY <1>2, <1>4, <1>6, <2>3, MidWritten
<1>9. After(q, b, e)
  BY <1>4, <1>7, <1>8, MidAfter, AfterOutput
<1>10. Leave(q, b) /\ UNCHANGED << peer, up, lost >>
  BY <1>5, <1>6, <1>7, Zenon DEF AppWrite
<1>11. b.opened => app.opened
  BY <1>8, Zenon
<1> QED
  BY <1>1, <1>3, <1>8, <1>9, <1>10, <1>11, CallKeeps

(* The tunnel has taken n of the bytes it was given. *)
TookOf(a, b, n) ==
    /\ AppOK(b) /\ Grown(a, b) /\ b.wrote = a.wrote /\ Given(b) = Given(a)
    /\ b.opened = a.opened /\ b.closed = a.closed /\ b.owed = a.owed - n

LEMMA AppTakes ==
  ASSUME NEW a, NEW n \in Nat, AppOK(a), a.opened, n <= a.owed,
         NEW b, b = [a EXCEPT !.owed = @ - n]
  PROVE  TookOf(a, b, n)
<1>1. a.owed \in Nat
  BY DEF AppOK
<1>2. PICK m : m = a.owed - n
  OBVIOUS
<1>3. b = [a EXCEPT !.owed = m] /\ m \in Nat
  BY <1>1, <1>2
<1>4. /\ DOMAIN b = DOMAIN a /\ b.wrote = a.wrote /\ b.opened = a.opened /\ b.closed = a.closed
      /\ b.got = a.got /\ b.owed = m /\ b.fins = a.fins /\ b.errs = a.errs
  BY <1>3, AppFields
<1>5. /\ DOMAIN b = DOMAIN AppInit /\ b.opened \in BOOLEAN /\ b.closed \in BOOLEAN /\ b.opened
      /\ (b.closed => b.opened) /\ (b.errs > 0 => b.closed)
  BY <1>4, Zenon DEF AppOK
<1>6. /\ b.wrote \in 0..Down /\ b.owed \in Nat /\ b.got \in Seq(Nat) /\ b.fins \in 0..1 /\ b.errs \in 0..1
      /\ Len(b.got) <= Up /\ (\A i \in 1..Len(b.got) : b.got[i] = i) /\ (b.fins = 1 => Len(b.got) = Up)
  BY <1>3, <1>4 DEF AppOK
<1>7. AppOK(b)
  BY <1>5, <1>6, Zenon DEF AppOK
<1>8. a.wrote \in Nat /\ Given(a) \in Int /\ Given(b) = Given(a)
  BY <1>4, GivenIs DEF Given
<1>9. a.wrote <= b.wrote /\ Given(a) <= Given(b)
  BY <1>4, <1>8
<1>10. Grown(a, b)
  BY <1>4, <1>9, Zenon DEF Grown
<1> QED
  BY <1>2, <1>4, <1>7, <1>8, <1>10, Zenon DEF TookOf

LEMMA RecvedMid ==
  ASSUME NEW p, NEW q, NEW a, NEW b, NEW k \in Nat, NEW e \in Int, NEW n \in Nat, Mid(p, a, k, e),
         q = tcp_recved(p, n),
         AppOK(b), b.wrote = a.wrote, Given(b) = Given(a), b.opened = a.opened, b.closed = a.closed,
         p.cb => n <= a.owed /\ b.owed = a.owed - n,
         p.state # "SYN_RCVD"
  PROVE  Mid(q, b, k, e) /\ KeptWnd(p, q)
<1>1. DOMAIN p = Fields /\ Alive(p, a.wrote, e) /\ AppOK(a)
  BY MidFacts
<1>2. Alive(q, a.wrote, e) /\ KeptWnd(p, q) /\ q.rcv_wnd = Smaller(p.rcv_wnd + n, TCP_WND)
  BY <1>1, RecvedOK, SMTT(30)
<1>3. p.rcv_wnd \in Nat /\ a.owed \in Nat
  <2>1. p.rcv_wnd \in 0..TCP_WND
    BY <1>1, AliveQueueFacts
  <2>2. a.owed \in Nat
    BY <1>1 DEF AppOK
  <2> QED
    BY <2>1, <2>2, Constants
<1>4. Ctl(q)
  BY <1>2 DEF Mid, Ctl, KeptWnd
<1>5. q.cb <=> b.opened /\ ~ b.closed
  BY <1>2, Zenon DEF Mid, KeptWnd
<1>6. HeldBy(q, b, k)
  <2>1. q.cb = p.cb /\ q.state = p.state /\ q.snd_lbb = p.snd_lbb /\ q.rcv_nxt = p.rcv_nxt
    BY <1>2 DEF KeptWnd
  <2>2. p.cb => UpPos(p.rcv_nxt) = Given(a) + k /\ p.rcv_wnd + a.owed + k = TCP_WND
    BY DEF Mid, HeldBy
  <2>3. p.cb => q.rcv_wnd + b.owed + k = TCP_WND
    BY <1>2, <1>3, <2>2, Constants DEF Smaller
  <2> QED
    BY <2>1, <2>2, <2>3 DEF Mid, HeldBy
<1>7. q.state = p.state
  BY <1>2 DEF KeptWnd
<1>8. SynRcvd(q, b) /\ q.state # "CLOSED"
  BY <1>7, Zenon DEF SynRcvd, Mid
<1>9. Alive(q, b.wrote, e)
  BY <1>2
<1> QED
  BY <1>2, <1>4, <1>5, <1>6, <1>8, <1>9, Zenon DEF Mid

LEMMA AppRecvedKeeps ==
  ASSUME LwipInv, NEW n \in Nat, AppRecved(n)
  PROVE  LwipInv'
<1>1. PICK e : e = UpPos(pcb.right_edge)
  OBVIOUS
<1>2. pcb.cb /\ n <= app.owed
  BY DEF AppRecved
<1>3. pcb.state # "CLOSED" /\ pcb.state # "SYN_RCVD"
  BY <1>2 DEF LwipInv, PcbInv, Ctl
<1>4. Mid(pcb, app, 0, e) /\ e \in Int
  BY <1>1, <1>3, BeforeCall, MidAfter
<1>5. PICK b : b = [app EXCEPT !.owed = @ - n]
  OBVIOUS
<1>6. AppOK(app) /\ app.opened
  BY <1>2, <1>4, MidFacts
<1>7. PICK p : p = tcp_recved(pcb, n)
  OBVIOUS
<1>8. PICK q : q = tcp_output(p)
  OBVIOUS
<1>9. /\ AppOK(b) /\ Grown(app, b) /\ b.wrote = app.wrote /\ Given(b) = Given(app)
      /\ b.opened = app.opened /\ b.closed = app.closed /\ b.owed = app.owed - n
  <2>1. TookOf(app, b, n)
    BY <1>2, <1>5, <1>6, AppTakes, Zenon
  <2> QED
    BY <2>1, Zenon DEF TookOf
<1>10. Mid(p, b, 0, e)
  <2>1. 0 \in Nat
    OBVIOUS
  <2> QED
    BY <1>2, <1>3, <1>4, <1>7, <1>9, <2>1, RecvedMid
<1>11. After(q, b, e)
  BY <1>4, <1>8, <1>10, MidAfter, AfterOutput
<1>12. Leave(q, b) /\ UNCHANGED << peer, up, lost >>
  BY <1>5, <1>7, <1>8, Zenon DEF AppRecved
<1>13. b.opened => app.opened
  BY <1>9, Zenon
<1> QED
  BY <1>1, <1>3, <1>9, <1>11, <1>12, <1>13, CallKeeps

LEMMA AppCloseKeeps ==
  ASSUME LwipInv, NEW n \in Nat, NEW mem, AppClose(n, mem)
  PROVE  LwipInv'
<1>1. PICK e : e = UpPos(pcb.right_edge)
  OBVIOUS
<1>2. pcb.cb /\ app.wrote + n <= Down
  BY DEF AppClose, CanWrite
<1>3. pcb.state # "CLOSED"
  BY <1>2 DEF LwipInv, PcbInv, Ctl
<1>4. Mid(pcb, app, 0, e) /\ e \in Int
  BY <1>1, <1>3, BeforeCall, MidAfter
<1>5. PICK b : b = [app EXCEPT !.wrote = @ + n]
  OBVIOUS
<1>6. PICK c : c = [b EXCEPT !.closed = TRUE]
  OBVIOUS
<1>7. PICK p : p = Written(pcb, app, n)
  OBVIOUS
<1>8. PICK q : q = tcp_output(p)
  OBVIOUS
<1>9. PICK r : r = lwip_bridge_tcp_close(q, mem)
  OBVIOUS
<1>10. AppOK(app) /\ app.opened
  BY <1>2, <1>4, MidFacts
<1>11. WroteMore(app, b, n)
  <2>1. WroteMore(app, [app EXCEPT !.wrote = @ + n], n)
    BY <1>2, <1>10, AppWrote
  <2> QED
    BY <1>5, <2>1, Zenon
<1>12. Mid(p, b, 0, e) /\ Grown(app, b) /\ b.opened = app.opened /\ p.cb
  BY <1>2, <1>4, <1>7, <1>11, MidWritten
<1>13. p.state # "CLOSED" /\ After(p, b, e)
  BY <1>12, MidAfter
<1>14. After(q, b, e) /\ Kept(p, q)
  BY <1>4, <1>8, <1>13, AfterOutput
<1>15. q.state # "CLOSED" /\ q.cb
  BY <1>12, <1>13, <1>14, Zenon DEF Kept, Kept0
<1>16. Mid(q, b, 0, e)
  BY <1>14, <1>15, MidAfter
<1>17. AppOK(b) /\ b.opened
  BY <1>10, <1>11, Zenon DEF WroteMore
<1>18. AppOK(c) /\ Grown(b, c) /\ c.closed /\ c.wrote = b.wrote /\ c.opened
  BY <1>6, <1>17, AppShuts, Zenon
<1>19. CloseLeft(q, r, c, e)
  BY <1>4, <1>9, <1>15, <1>16, <1>18, CloseMid
<1>20. After(r, c, e)
  BY <1>19, CloseAfter
<1>21. c = [app EXCEPT !.wrote = @ + n, !.closed = TRUE]
  BY <1>5, <1>6, <1>10, AppFields
<1>22. Leave(r, c) /\ UNCHANGED << peer, up, lost >>
  BY <1>7, <1>8, <1>9, <1>21, Zenon DEF AppClose
<1>23. Grown(app, c)
  BY <1>10, <1>12, <1>17, <1>18, GrownTwice
<1> QED
  BY <1>1, <1>3, <1>10, <1>20, <1>22, <1>23, CallKeeps

LEMMA AppAbortKeeps ==
  ASSUME LwipInv, AppAbort
  PROVE  LwipInv'
<1>1. PICK e : e = UpPos(pcb.right_edge)
  OBVIOUS
<1>2. pcb.cb
  BY DEF AppAbort
<1>3. pcb.state # "CLOSED"
  BY <1>2 DEF LwipInv, PcbInv, Ctl
<1>4. Mid(pcb, app, 0, e) /\ e \in Int
  BY <1>1, <1>3, BeforeCall, MidAfter
<1>5. /\ DOMAIN pcb = Fields /\ Alive(pcb, app.wrote, e) /\ AppOK(app) /\ app.opened
  BY <1>2, <1>4, MidFacts
<1>6. PICK p : p = [pcb EXCEPT !.cb = FALSE]
  OBVIOUS
<1>7. PICK q : q = tcp_abandon(p)
  OBVIOUS
<1>8. PICK b : b = [app EXCEPT !.closed = TRUE]
  OBVIOUS
<1>9. SameData(pcb, p) /\ DOMAIN p = Fields
  BY <1>5, <1>6, FieldSet DEF SameData, SameQueues
<1>10. Alive(p, app.wrote, e)
  BY <1>5, <1>9, AliveData
<1>11. FreedFrom(p, q, app.wrote, e)
  BY <1>4, <1>7, <1>9, <1>10, AbandonOK
<1>12. AppOK(b) /\ Grown(app, b) /\ b.closed /\ b.wrote = app.wrote /\ b.opened
  BY <1>5, <1>8, AppShuts, Zenon
<1>13. After(q, b, e)
  <2>1. Settled(p, b)
    BY <1>12 DEF Settled
  <2> QED
    BY <1>4, <1>11, <1>12, <2>1, FreedOK
<1>14. Leave(q, b) /\ UNCHANGED << peer, up, lost >>
  BY <1>6, <1>7, <1>8, Zenon DEF AppAbort
<1> QED
  BY <1>1, <1>3, <1>5, <1>12, <1>13, <1>14, CallKeeps

(* A control block that is freed with its error callback. *)
LEMMA FreedWithError ==
  ASSUME NEW p, NEW q, NEW a, NEW b, NEW e \in Int, After(p, a, e), p.state # "CLOSED",
         FreedFrom(p, q, a.wrote, e), b = tcp_err_cb(p, a)
  PROVE  After(q, b, e) /\ Grown(a, b) /\ (b.opened => a.opened)
<1>1. AppOK(a) /\ (p.cb => a.opened /\ ~ a.closed) /\ p.cb \in BOOLEAN
  BY AfterFacts
<1>2. AppOK(b) /\ Grown(a, b) /\ b.wrote = a.wrote /\ (b.opened => a.opened) /\ (p.cb => b.closed)
      /\ (~ p.cb => b = a)
  BY <1>1, ErrOK
<1>3. Settled(p, b)
  <2>1. CASE p.cb
    BY <1>2, <2>1 DEF Settled
  <2>2. CASE ~ p.cb
    BY <1>2, <2>2, UnheldSettled
  <2> QED
    BY <2>1, <2>2
<1>4. After(q, b, e)
  BY <1>2, <1>3, FreedOK
<1> QED
  BY <1>2, <1>4

LEMMA AbortAllKeeps ==
  ASSUME LwipInv, AbortAll
  PROVE  LwipInv'
<1>1. PICK e : e = UpPos(pcb.right_edge)
  OBVIOUS
<1>2. pcb.state # "CLOSED"
  BY DEF AbortAll
<1>3. After(pcb, app, e) /\ e \in Int
  BY <1>1, <1>2, BeforeCall
<1>4. DOMAIN pcb = Fields /\ Alive(pcb, app.wrote, e)
  BY <1>2, <1>3, AfterFacts
<1>5. PICK q : q = tcp_abandon(pcb)
  OBVIOUS
<1>6. PICK b : b = tcp_err_cb(pcb, app)
  OBVIOUS
<1>7. FreedFrom(pcb, q, app.wrote, e)
  BY <1>3, <1>4, <1>5, AbandonOK
<1>8. After(q, b, e) /\ Grown(app, b) /\ (b.opened => app.opened)
  BY <1>2, <1>3, <1>6, <1>7, FreedWithError
<1>9. Leave(q, b) /\ UNCHANGED << peer, up, lost >>
  BY <1>5, <1>6, Zenon DEF AbortAll
<1> QED
  BY <1>1, <1>2, <1>8, <1>9, CallKeeps

LEMMA FasttmrKeeps ==
  ASSUME LwipInv, NEW mem, Fasttmr(mem)
  PROVE  LwipInv'
<1>1. PICK e : e = UpPos(pcb.right_edge)
  OBVIOUS
<1>2. pcb.state # "CLOSED" /\ pcb.closepend
  BY DEF Fasttmr, Active
<1>3. After(pcb, app, e) /\ e \in Int
  BY <1>1, <1>2, BeforeCall
<1>4. /\ DOMAIN pcb = Fields /\ Alive(pcb, app.wrote, e) /\ app.wrote \in 0..Down /\ AppOK(app)
      /\ (pcb.state \in Open => PosOf(pcb.snd_lbb) = app.wrote + 1)
  BY <1>2, <1>3, AfterFacts
<1>5. PICK f : f = FALSE
  OBVIOUS
<1>6. PICK p : p = [pcb EXCEPT !.closepend = f]
  OBVIOUS
<1>7. PICK q : q = tcp_close_shutdown_fin(p, mem)
  OBVIOUS
<1>8. SameData(pcb, p) /\ DOMAIN p = Fields /\ p.state = pcb.state /\ p.cb = pcb.cb /\ p.rxclosed = pcb.rxclosed
      /\ p.closepend = f /\ p.inInput = pcb.inInput /\ p.tfClosed = pcb.tfClosed
  BY <1>4, <1>6, FieldSet DEF SameData, SameQueues
<1>9. p.closepend \in BOOLEAN
  BY <1>5, <1>8, Zenon
<1>10. Alive(p, app.wrote, e) /\ (p.state \in Open => PosOf(p.snd_lbb) = app.wrote + 1)
  BY <1>4, <1>8, AliveData DEF SameData
<1>11. Alive(q, app.wrote, e) /\ KeptFin(p, q)
  BY <1>3, <1>4, <1>7, <1>8, <1>9, <1>10, ShutFinOK
<1>12. ~ pcb.cb /\ pcb.state \in States /\ pcb.state # "SYN_RCVD"
  BY <1>2, <1>3 DEF After, Ctl, SynRcvd
<1>13. ~ q.cb
  BY <1>8, <1>11, <1>12, Zenon DEF KeptFin
<1>14. /\ q.state \in States /\ q.state # "CLOSED" /\ q.state # "SYN_RCVD"
       /\ (q.state \in Open => PosOf(q.snd_lbb) = app.wrote + 1)
  BY <1>2, <1>8, <1>10, <1>11, <1>12 DEF KeptFin, Open, States
<1>15. Ctl(q)
  BY <1>3, <1>8, <1>11, <1>13, <1>14, Zenon DEF Ctl, KeptFin, After
<1>16. q.cb <=> app.opened /\ ~ app.closed
  BY <1>3, <1>8, <1>11, Zenon DEF KeptFin, After
<1>17. Held(q, app)
  BY <1>13, <1>14 DEF Held, Open
<1>18. SynRcvd(q, app)
  BY <1>2, <1>3, <1>12, <1>14 DEF SynRcvd, After
<1>19. After(q, app, e)
  BY <1>4, <1>11, <1>14, <1>15, <1>16, <1>17, <1>18, Zenon DEF After
<1>20. Leave(q, app) /\ UNCHANGED << peer, up, lost >>
  BY <1>5, <1>6, <1>7, Zenon DEF Fasttmr
<1> QED
  BY <1>1, <1>2, <1>4, <1>19, <1>20, CallKeeps, GrownSelf

(* A control block that times out. *)
LEMMA PurgedOK ==
  ASSUME NEW p, NEW r, NEW a, NEW b, NEW e \in Int, After(p, a, e), p.state # "CLOSED",
         r = Freed(tcp_pcb_purge(p)), b = tcp_err_cb(p, a)
  PROVE  After(r, b, e) /\ Grown(a, b) /\ (b.opened => a.opened)
<1>1. DOMAIN p = Fields /\ Alive(p, a.wrote, e)
  BY AfterFacts
<1>2. PICK q : q = tcp_pcb_purge(p)
  OBVIOUS
<1>3. Alive(q, a.wrote, e) /\ Kept(p, q)
  BY <1>1, <1>2, PurgeOK
<1>4. After(q, a, e) /\ q.state # "CLOSED" /\ q.cb = p.cb
  BY <1>3, AfterKept DEF Kept, Kept0
<1>5. FreedFrom(q, r, a.wrote, e)
  <2>1. OutOK(q, a.wrote, e) /\ r = Freed(q)
    BY <1>2, <1>3 DEF Alive
  <2> QED
    BY <2>1 DEF FreedFrom
<1>6. b = tcp_err_cb(q, a)
  BY <1>4, Zenon DEF tcp_err_cb
<1> QED
  BY <1>4, <1>5, <1>6, FreedWithError

LEMMA SlowtmrKeeps ==
  ASSUME LwipInv, NEW due, NEW lapsed, Slowtmr(due, lapsed)
  PROVE  LwipInv'
<1>1. PICK e : e = UpPos(pcb.right_edge)
  OBVIOUS
<1>2. pcb.state # "CLOSED"
  BY DEF Slowtmr, Active
<1>3. After(pcb, app, e) /\ e \in Int
  BY <1>1, <1>2, BeforeCall
<1>4. /\ DOMAIN pcb = Fields /\ Alive(pcb, app.wrote, e) /\ app.wrote \in 0..Down /\ AppOK(app)
  BY <1>2, <1>3, AfterFacts
<1>5. PICK p : p = TimerWork(pcb, due)
  OBVIOUS
<1>6. Alive(p, app.wrote, e) /\ Kept(pcb, p)
  BY <1>3, <1>4, <1>5, TimerWorkOK
<1>7. After(p, app, e) /\ p.state # "CLOSED" /\ p.cb = pcb.cb
  BY <1>2, <1>3, <1>6, AfterKept DEF Kept, Kept0
<1>8. PICK r : r = Freed(tcp_pcb_purge(p))
  OBVIOUS
<1>9. PICK b : b = tcp_err_cb(pcb, app)
  OBVIOUS
<1>10. PICK q : q = tcp_output(p)
  OBVIOUS
<1>11. Leave(r, b) \/ Leave(q, app)
  BY <1>5, <1>8, <1>9, <1>10, Zenon DEF Slowtmr
<1>12. UNCHANGED << peer, up, lost >>
  BY DEF Slowtmr
<1>13. CASE Leave(r, b)
  <2>1. b = tcp_err_cb(p, app)
    BY <1>7, <1>9, Zenon DEF tcp_err_cb
  <2>2. After(r, b, e) /\ Grown(app, b) /\ (b.opened => app.opened)
    BY <1>3, <1>7, <1>8, <2>1, PurgedOK
  <2> QED
    BY <1>1, <1>2, <1>12, <1>13, <2>2, CallKeeps
<1>14. CASE Leave(q, app)
  <2>1. After(q, app, e)
    BY <1>3, <1>7, <1>10, AfterOutput
  <2> QED
    BY <1>1, <1>2, <1>4, <1>12, <1>14, <2>1, CallKeeps, GrownSelf
<1> QED
  BY <1>11, <1>13, <1>14

LEMMA TimeWaitOverKeeps ==
  ASSUME LwipInv, TimeWaitOver
  PROVE  LwipInv'
<1>1. PICK e : e = UpPos(pcb.right_edge)
  OBVIOUS
<1>2. pcb.state = "TIME_WAIT"
  BY DEF TimeWaitOver
<1>3. After(pcb, app, e) /\ e \in Int /\ pcb.state # "CLOSED"
  BY <1>1, <1>2, BeforeCall
<1>4. ~ pcb.cb
  BY <1>2, <1>3 DEF After, Ctl
<1>5. PICK r : r = Freed(tcp_pcb_purge(pcb))
  OBVIOUS
<1>6. app = tcp_err_cb(pcb, app)
  BY <1>4, Zenon DEF tcp_err_cb
<1>7. After(r, app, e) /\ Grown(app, app)
  BY <1>3, <1>5, <1>6, PurgedOK
<1>8. Leave(r, app) /\ UNCHANGED << peer, up, lost >>
  BY <1>5, Zenon DEF TimeWaitOver
<1> QED
  BY <1>1, <1>3, <1>7, <1>8, CallKeeps

-----------------------------------------------------------------------------
(* The acknowledgement of a segment.                                       *)

InRec(in) == DOMAIN in = {"pcb", "recv_acked", "recv_data", "got_fin", "reset", "aborted"}

(* What taking an acknowledgement never changes. *)
Through(p, q) ==
    /\ DOMAIN q = Fields /\ q.state = p.state /\ q.cb = p.cb
    /\ q.rxclosed = p.rxclosed /\ q.closepend = p.closepend
    /\ q.inInput = p.inInput /\ q.tfClosed = p.tfClosed
    /\ q.rcv_nxt = p.rcv_nxt /\ q.rcv_wnd = p.rcv_wnd /\ q.rcv_ann_wnd = p.rcv_ann_wnd
    /\ q.snd_lbb = p.snd_lbb

LEMMA ThroughTwice ==
  ASSUME NEW p, NEW q, NEW r
  PROVE  /\ Through(p, q) /\ Through(q, r) => Through(p, r)
         /\ Kept(p, q) => Through(p, q)
  BY DEF Through, Kept, Kept0

LEMMA ThroughSelf ==
  ASSUME NEW p, DOMAIN p = Fields
  PROVE  Through(p, p)
  BY DEF Through

LEMMA MidThrough ==
  ASSUME NEW p, NEW q, NEW a, NEW k, NEW e, Mid(p, a, k, e), Alive(q, a.wrote, e), Through(p, q),
         p.state # "SYN_RCVD"
  PROVE  Mid(q, a, k, e)
<1>1. Ctl(q)
  BY DEF Mid, Ctl, Through
<1>2. q.cb <=> a.opened /\ ~ a.closed
  BY Zenon DEF Mid, Through
<1>3. HeldBy(q, a, k)
  BY DEF Mid, HeldBy, Through
<1>4. SynRcvd(q, a)
  BY DEF Mid, SynRcvd, Through
<1>5. q.state # "CLOSED" /\ AppOK(a)
  BY DEF Mid, Through
<1> QED
  BY <1>1, <1>2, <1>3, <1>4, <1>5, Zenon DEF Mid

LEMMA WindowUpdateOK ==
  ASSUME NEW p, NEW q, NEW w, NEW e, NEW seg \in SegType, seg.wnd <= PeerBuf,
         DOMAIN p = Fields, Alive(p, w, e), q = WindowUpdate(p, seg)
  PROVE  Alive(q, w, e) /\ Through(p, q)
<1>1. PICK m : m = IF p.snd_wnd_max < seg.wnd THEN seg.wnd ELSE p.snd_wnd_max
  OBVIOUS
<1>2. PICK s : s = seg.seq
  OBVIOUS
<1>3. PICK a : a = seg.ack
  OBVIOUS
<1>4. PICK v : v = seg.wnd
  OBVIOUS
<1>5. m = PeerBuf /\ v \in Nat
  <2>1. p.snd_wnd_max = PeerBuf /\ seg.wnd \in Nat
    BY AliveQueueFacts, SegmentFields
  <2> QED
    BY <1>1, <1>4, <2>1, Constants
<1>6. q = p \/ q = [p EXCEPT !.snd_wnd = v, !.snd_wl1 = s, !.snd_wl2 = a, !.snd_wnd_max = m]
  BY <1>1, <1>2, <1>3, <1>4, Zenon DEF WindowUpdate
<1>7. CASE q = p
  BY <1>7, ThroughSelf
<1>8. CASE q = [p EXCEPT !.snd_wnd = v, !.snd_wl1 = s, !.snd_wl2 = a, !.snd_wnd_max = m]
  <2>1. /\ Through(p, q) /\ SameQueues(p, q) /\ q.snd_wnd = v /\ q.snd_wnd_max = m
        /\ q.right_edge = p.right_edge /\ q.out = p.out /\ q.snd_nxt = p.snd_nxt /\ q.lastack = p.lastack
    BY <1>8, FieldSet DEF Through, SameQueues
  <2>2. RcvOK(q)
    BY <2>1 DEF Alive, RcvOK, Through
  <2>3. OutOK(q, w, e)
    BY <2>1 DEF Alive, OutOK, Through
  <2>4. SndOK(q, w)
    <3>1. Spare(q, w)
      BY <2>1 DEF Alive, SndOK, Spare, SameQueues
    <3> QED
      BY <1>5, <2>1, <3>1 DEF Alive, SndOK, SameQueues, Through
  <2> QED
    BY <2>1, <2>2, <2>3, <2>4 DEF Alive
<1> QED
  BY <1>6, <1>7, <1>8

LEMMA AckedCountIs ==
  ASSUME NEW T, NEW list \in Seq(T), NEW ack
  PROVE  AckedCount(list, ack) \in 0..Len(list)
<1>1. PICK S : S = {n \in DOMAIN list : \A i \in 1..n : TCP_SEQ_LEQ(SegEnd(list[i]), ack)}
  OBVIOUS
<1>2. Len(list) \in Nat /\ S \subseteq 1..Len(list)
  BY <1>1
<1>3. IsFiniteSet(1..Len(list)) /\ Cardinality(1..Len(list)) = Len(list)
  <2>1. 1 \in Int /\ Len(list) \in Int
    BY <1>2
  <2>2. IsFiniteSet(1..Len(list))
        /\ Cardinality(1..Len(list)) = IF 1 > Len(list) THEN 0 ELSE Len(list) - 1 + 1
    BY <2>1, FS_Interval
  <2> QED
    BY <1>2, <2>2
<1>4. IsFiniteSet(S) /\ Cardinality(S) <= Len(list) /\ Cardinality(S) \in Nat
  <2>1. IsFiniteSet(S) /\ Cardinality(S) <= Cardinality(1..Len(list))
    BY <1>2, <1>3, FS_Subset
  <2> QED
    BY <1>3, <2>1, FS_CardinalityType
<1>5. AckedCount(list, ack) = Cardinality(S)
  BY <1>1, Zenon DEF AckedCount
<1> QED
  BY <1>2, <1>4, <1>5

IsSuffix(r, s, n, T) ==
    /\ r \in Seq(T) /\ Len(r) \in Nat /\ Len(r) = Len(s) - n
    /\ \A i \in 1..Len(r) : r[i] = s[n + i] /\ n + i \in 1..Len(s)

LEMMA Suffix ==
  ASSUME NEW T, NEW s \in Seq(T), NEW n \in 0..Len(s), NEW r, r = SubSeq(s, n + 1, Len(s))
  PROVE  IsSuffix(r, s, n, T)
<1>1. Len(s) \in Nat /\ n + 1 \in Nat
  OBVIOUS
<1>2. r \in Seq(T) /\ Len(r) \in Nat
  BY <1>1
<1>3. Len(r) = Len(s) - n
  BY <1>1
<1>4. ASSUME NEW i \in 1..Len(r) PROVE r[i] = s[n + i] /\ n + i \in 1..Len(s)
  BY <1>1, <1>3
<1> QED
  BY <1>2, <1>3, <1>4 DEF IsSuffix

(* The queues without some of their first segments. *)
LEMMA DroppedSpare ==
  ASSUME NEW p, NEW q, NEW w \in 0..Down, NEW us, NEW ua,
         us = p.unsent, ua = p.unacked, us \in Seq(QueueSet(w)), ua \in Seq(QueueSet(w)), Spare(p, w),
         p.oversize \in Nat,
         NEW u \in 0..Len(us), NEW k \in 0..Len(ua),
         q.unsent = SubSeq(us, u + 1, Len(us)), q.unacked = SubSeq(ua, k + 1, Len(ua)),
         q.oversize = IF u = Len(us) THEN 0 ELSE p.oversize
  PROVE  /\ q.unsent \in Seq(QueueSet(w)) /\ q.unacked \in Seq(QueueSet(w)) /\ q.oversize \in Nat
         /\ Spare(q, w)
<1>1. PICK Q : Q = QueueSet(w)
  OBVIOUS
<1>2. PICK s : s = q.unsent
  OBVIOUS
<1>3. PICK t : t = q.unacked
  OBVIOUS
<1>4. us \in Seq(Q) /\ ua \in Seq(Q) /\ Len(us) \in Nat /\ Len(ua) \in Nat
  BY <1>1
<1>5. /\ s \in Seq(Q) /\ Len(s) = Len(us) - u /\ Len(s) \in Nat
      /\ \A i \in 1..Len(s) : s[i] = us[u + i] /\ u + i \in 1..Len(us)
  <2>1. s = SubSeq(us, u + 1, Len(us))
    BY <1>2
  <2>2. IsSuffix(s, us, u, Q)
    BY <1>4, <2>1, Suffix, Zenon
  <2> QED
    BY <2>2, Zenon DEF IsSuffix
<1>6. /\ t \in Seq(Q)
      /\ \A i \in 1..Len(t) : t[i] = ua[k + i] /\ k + i \in 1..Len(ua)
  <2>1. t = SubSeq(ua, k + 1, Len(ua))
    BY <1>3
  <2>2. IsSuffix(t, ua, k, Q)
    BY <1>4, <2>1, Suffix, Zenon
  <2> QED
    BY <2>2, Zenon DEF IsSuffix
<1>7. ASSUME q.oversize > 0 PROVE Spare(q, w)
  <2>1. u < Len(us) /\ p.oversize > 0 /\ q.oversize = p.oversize
    BY <1>4, <1>7
  <2>2. PICK last : last = us[Len(us)]
    OBVIOUS
  <2>3. /\ EndPos(last) = w + 1 /\ Len(last.data) + p.oversize <= Mss
        /\ \A i \in 1..(Len(us) - 1) : EndPos(us[i]) <= PosOf(last.seq)
        /\ \A i \in 1..Len(ua) : EndPos(ua[i]) <= PosOf(last.seq)
    BY <2>1, <2>2, SpareIs, ZenonT(30)
  <2>4. s # << >> /\ Len(s) \in 1..Len(s) /\ s[Len(s)] = last
    <3>1. PICK l : l = Len(s)
      OBVIOUS
    <3>2. l \in 1..Len(s) /\ u + l = Len(us)
      <4>1. PICK h : h = Len(us)
        OBVIOUS
      <4>2. l = h - u /\ h \in Nat /\ u \in Nat /\ u < h /\ l \in Nat
        BY <1>4, <1>5, <2>1, <3>1, <4>1
      <4> QED
        BY <3>1, <4>1, <4>2
    <3>3. s[l] = us[u + l] /\ l \in Nat /\ l > 0
      <4>1. s[l] = us[u + l]
        BY <1>5, <3>2, Zenon
      <4>2. l \in 1..Len(s)
        BY <3>2
      <4>3. PICK h : h = Len(s)
        OBVIOUS
      <4>4. h \in Nat /\ l \in 1..h
        BY <1>5, <4>2, <4>3, Zenon
      <4>5. l \in Nat /\ l > 0
        BY <4>4, SMTT(30)
      <4> QED
        BY <4>1, <4>5, Zenon
    <3>4. s # << >>
      BY <3>1, <3>3
    <3> QED
      BY <2>2, <3>1, <3>2, <3>3, <3>4
  <2>5. \A i \in 1..(Len(s) - 1) : EndPos(s[i]) <= PosOf(last.seq)
    <3> SUFFICES ASSUME NEW i \in 1..(Len(s) - 1) PROVE EndPos(s[i]) <= PosOf(last.seq)
      OBVIOUS
    <3>1. i \in 1..Len(s) /\ u + i \in 1..(Len(us) - 1)
      BY <1>4, <1>5, SMTT(30)
    <3>2. s[i] = us[u + i]
      BY <1>5, <3>1
    <3> QED
      BY <2>3, <3>1, <3>2
  <2>6. \A i \in 1..Len(t) : EndPos(t[i]) <= PosOf(last.seq)
    BY <1>6, <2>3
  <2>7. last = s[Len(s)]
    BY <2>4
  <2>8. s # << >> /\ EndPos(last) = w + 1 /\ Len(last.data) + q.oversize <= Mss
    BY <2>1, <2>3, <2>4
  <2> QED
    BY <1>2, <1>3, <2>5, <2>6, <2>7, <2>8, Zenon DEF Spare
<1>8. Spare(q, w)
  BY <1>7 DEF Spare
<1>9. q.oversize \in Nat
  OBVIOUS
<1> QED
  BY <1>1, <1>2, <1>3, <1>5, <1>6, <1>8, <1>9

SameFlags(in, i) ==
    /\ InRec(i) /\ i.recv_data = in.recv_data /\ i.got_fin = in.got_fin
    /\ i.reset = in.reset /\ i.aborted = in.aborted

(* Only the control block of the record changes. *)
LEMMA PcbReplaced ==
  ASSUME NEW in, NEW i, NEW q, InRec(in), i = [in EXCEPT !.pcb = q]
  PROVE  SameFlags(in, i) /\ i.pcb = q
  BY DEF SameFlags, InRec

LEMMA SameFlagsTwice ==
  ASSUME NEW i, NEW j, NEW k, SameFlags(i, j), SameFlags(j, k)
  PROVE  SameFlags(i, k)
  BY DEF SameFlags

LEMMA FreeAckedOK ==
  ASSUME NEW in, NEW i, NEW p, NEW w \in 0..Down, NEW e \in Int, NEW ack \in SeqNumbers,
         InRec(in), p = in.pcb, DOMAIN p = Fields, Alive(p, w, e), i = FreeAcked(in, ack)
  PROVE  SameFlags(in, i) /\ Alive(i.pcb, w, e) /\ Through(p, i.pcb)
<1>1. PICK us : us = p.unsent
  OBVIOUS
<1>2. PICK ua : ua = p.unacked
  OBVIOUS
<1>3. PICK k : k = AckedCount(ua, ack)
  OBVIOUS
<1>4. PICK u : u = AckedCount(us, ack)
  OBVIOUS
<1>5. PICK bytes : bytes = BytesIn(ua, k) + BytesIn(us, u)
  OBVIOUS
<1>6. PICK t : t = SubSeq(ua, k + 1, Len(ua))
  OBVIOUS
<1>7. PICK s : s = SubSeq(us, u + 1, Len(us))
  OBVIOUS
<1>8. PICK over : over = IF u = Len(us) THEN 0 ELSE p.oversize
  OBVIOUS
<1>9. PICK buf : buf = p.snd_buf + bytes
  OBVIOUS
<1>10. PICK rt : rt = (t # << >>)
  OBVIOUS
<1>11. i = [in EXCEPT
           !.recv_acked = bytes,
           !.pcb.unacked = t,
           !.pcb.unsent = SubSeq(@, u + 1, Len(@)),
           !.pcb.oversize = IF u = Len(us) THEN 0 ELSE @,
           !.pcb.rtime = rt,
           !.pcb.snd_buf = @ + bytes,
           !.pcb.lastack = ack, !.pcb.nrtx = 0, !.pcb.dupacks = 0, !.pcb.infr = FALSE]
  BY <1>1, <1>2, <1>3, <1>4, <1>5, <1>6, <1>10, Zenon DEF FreeAcked
<1>12. PICK q : q = [[[p EXCEPT !.unacked = t, !.unsent = s, !.oversize = over]
                       EXCEPT !.rtime = rt, !.snd_buf = buf, !.lastack = ack]
                       EXCEPT !.nrtx = 0, !.dupacks = 0, !.infr = FALSE]
  OBVIOUS
<1>13. SameFlags(in, i) /\ i.pcb = q
  <2>1. i = [in EXCEPT
           !.recv_acked = bytes, !.pcb.unacked = t, !.pcb.unsent = s, !.pcb.oversize = over,
           !.pcb.rtime = rt, !.pcb.snd_buf = buf, !.pcb.lastack = ack,
           !.pcb.nrtx = 0, !.pcb.dupacks = 0, !.pcb.infr = FALSE]
    BY <1>1, <1>7, <1>8, <1>9, <1>11, Zenon
  <2>2. PICK j : j = [in EXCEPT !.recv_acked = bytes, !.pcb.unacked = t, !.pcb.unsent = s, !.pcb.oversize = over]
    OBVIOUS
  <2>3. PICK m : m = [j EXCEPT !.pcb.rtime = rt, !.pcb.snd_buf = buf, !.pcb.lastack = ack]
    OBVIOUS
  <2>4. i = [m EXCEPT !.pcb.nrtx = 0, !.pcb.dupacks = 0, !.pcb.infr = FALSE]
    BY <2>1, <2>2, <2>3, Zenon
  <2>5. PICK p1 : p1 = [p EXCEPT !.unacked = t, !.unsent = s, !.oversize = over]
    OBVIOUS
  <2>6. PICK p2 : p2 = [p1 EXCEPT !.rtime = rt, !.snd_buf = buf, !.lastack = ack]
    OBVIOUS
  <2>7. SameFlags(in, j) /\ j.pcb = p1
    BY <2>2, <2>5, SMTT(30) DEF SameFlags, InRec
  <2>8. SameFlags(j, m) /\ m.pcb = p2
    BY <2>3, <2>6, <2>7, SMTT(30) DEF SameFlags, InRec
  <2>9. SameFlags(m, i) /\ i.pcb = q
    <3>1. [p2 EXCEPT !.nrtx = 0, !.dupacks = 0, !.infr = FALSE] = q
      BY <1>12, <2>5, <2>6, Zenon
    <3>2. SameFlags(m, i) /\ i.pcb = [p2 EXCEPT !.nrtx = 0, !.dupacks = 0, !.infr = FALSE]
      BY <2>4, <2>8, SMTT(30) DEF SameFlags, InRec
    <3> QED
      BY <3>1, <3>2, Zenon
  <2> QED
    BY <2>7, <2>8, <2>9, SameFlagsTwice
<1>14. /\ Through(p, q) /\ q.unacked = t /\ q.unsent = s /\ q.oversize = over /\ q.lastack = ack
       /\ q.snd_nxt = p.snd_nxt /\ q.right_edge = p.right_edge /\ q.out = p.out
       /\ q.snd_wnd = p.snd_wnd /\ q.snd_wnd_max = p.snd_wnd_max
  BY <1>12, FieldSet DEF Through
<1>15. us \in Seq(QueueSet(w)) /\ ua \in Seq(QueueSet(w)) /\ Spare(p, w) /\ p.oversize \in Nat
  BY <1>1, <1>2, AliveQueueFacts
<1>16. k \in 0..Len(ua) /\ u \in 0..Len(us)
  BY <1>3, <1>4, <1>15, AckedCountIs
<1>17. /\ q.unsent \in Seq(QueueSet(w)) /\ q.unacked \in Seq(QueueSet(w)) /\ q.oversize \in Nat
       /\ Spare(q, w)
  <2>1. /\ q.unsent = SubSeq(us, u + 1, Len(us)) /\ q.unacked = SubSeq(ua, k + 1, Len(ua))
        /\ q.oversize = IF u = Len(us) THEN 0 ELSE p.oversize
    BY <1>6, <1>7, <1>8, <1>14
  <2> QED
    BY <1>1, <1>2, <1>15, <1>16, <2>1, DroppedSpare
<1>18. SndOK(q, w)
  BY <1>14, <1>17, AliveQueueFacts DEF SndOK, Through
<1>19. RcvOK(q)
  BY <1>14 DEF RcvOK, Through, Alive
<1>20. OutOK(q, w, e)
  BY <1>14 DEF OutOK, Through, Alive
<1> QED
  BY <1>13, <1>14, <1>18, <1>19, <1>20 DEF Alive

LEMMA DuplicateAckOK ==
  ASSUME NEW p, NEW q, NEW w \in 0..Down, NEW e, NEW seg, NEW edge,
         DOMAIN p = Fields, Alive(p, w, e), q = DuplicateAck(p, seg, edge)
  PROVE  Alive(q, w, e) /\ Through(p, q)
<1>1. PICK n : n = Smaller(p.dupacks + 1, 3)
  OBVIOUS
<1>2. PICK r : r = [p EXCEPT !.dupacks = n]
  OBVIOUS
<1>3. q = p \/ q = r \/ q = tcp_rexmit_fast(r)
  BY <1>1, <1>2, Zenon DEF DuplicateAck
<1>4. /\ Kept(p, r) /\ SameQueues(p, r) /\ DOMAIN r = Fields
      /\ r.snd_nxt = p.snd_nxt /\ r.right_edge = p.right_edge /\ r.out = p.out
  BY <1>2, FieldSet DEF Kept, Kept0, SameQueues
<1>5. Alive(r, w, e)
  BY <1>4, AliveSame
<1>6. CASE q = p
  BY <1>6, ThroughSelf
<1>7. CASE q = r
  BY <1>4, <1>5, <1>7, ThroughTwice
<1>8. CASE q = tcp_rexmit_fast(r)
  <2>1. Alive(q, w, e) /\ Kept(r, q)
    BY <1>4, <1>5, <1>8, RexmitFastOK
  <2> QED
    BY <1>4, <2>1, KeptTwice, ThroughTwice
<1> QED
  BY <1>3, <1>6, <1>7, <1>8

LEMMA ReceiveAckOK ==
  ASSUME NEW in, NEW i, NEW p, NEW w \in 0..Down, NEW e \in Int, NEW seg \in SegType, seg.wnd <= PeerBuf,
         InRec(in), p = in.pcb, DOMAIN p = Fields, Alive(p, w, e), i = ReceiveAck(in, seg)
  PROVE  SameFlags(in, i) /\ Alive(i.pcb, w, e) /\ Through(p, i.pcb)
<1>1. PICK edge : edge = SeqAdd(p.snd_wl2, p.snd_wnd)
  OBVIOUS
<1>2. PICK q : q = WindowUpdate(p, seg)
  OBVIOUS
<1>3. PICK j : j = [in EXCEPT !.pcb = q]
  OBVIOUS
<1>4. PICK d : d = DuplicateAck(q, seg, edge)
  OBVIOUS
<1>5. PICK a : a = tcp_send_empty_ack(q)
  OBVIOUS
<1>6. SameFlags(in, j) /\ j.pcb = q /\ InRec(j)
  BY <1>3, PcbReplaced DEF SameFlags
<1>7. \/ i = in \/ i = [j EXCEPT !.pcb = d] \/ i = FreeAcked(j, seg.ack) \/ i = [j EXCEPT !.pcb = a]
  <2>1. j = [in EXCEPT !.pcb = WindowUpdate(@, seg)]
    BY <1>2, <1>3, Zenon
  <2>2. /\ [j EXCEPT !.pcb = DuplicateAck(@, seg, edge)] = [j EXCEPT !.pcb = d]
        /\ [j EXCEPT !.pcb = tcp_send_empty_ack(@)] = [j EXCEPT !.pcb = a]
    BY <1>4, <1>5, <1>6, Zenon
  <2>3. \/ i = in \/ i = [j EXCEPT !.pcb = DuplicateAck(@, seg, edge)] \/ i = FreeAcked(j, seg.ack)
        \/ i = [j EXCEPT !.pcb = tcp_send_empty_ack(@)]
    BY <1>1, <2>1, Zenon DEF ReceiveAck
  <2> QED
    BY <2>2, <2>3, Zenon
<1>8. Alive(q, w, e) /\ Through(p, q) /\ DOMAIN q = Fields
  BY <1>2, WindowUpdateOK DEF Through
<1>9. CASE i = in
  <2>1. SameFlags(in, in)
    BY DEF SameFlags
  <2> QED
    BY <1>9, <2>1, ThroughSelf
<1>10. CASE i = [j EXCEPT !.pcb = d]
  <2>1. SameFlags(j, i) /\ i.pcb = d
    BY <1>6, <1>10, PcbReplaced
  <2>2. Alive(d, w, e) /\ Through(q, d)
    BY <1>4, <1>8, DuplicateAckOK
  <2> QED
    BY <1>6, <1>8, <2>1, <2>2, ThroughTwice, SameFlagsTwice
<1>11. CASE i = FreeAcked(j, seg.ack)
  <2>1. seg.ack \in SeqNumbers
    BY SegmentFields
  <2>2. SameFlags(j, i) /\ Alive(i.pcb, w, e) /\ Through(q, i.pcb)
    BY <1>6, <1>8, <1>11, <2>1, FreeAckedOK
  <2> QED
    BY <1>6, <1>8, <2>2, ThroughTwice, SameFlagsTwice
<1>12. CASE i = [j EXCEPT !.pcb = a]
  <2>1. SameFlags(j, i) /\ i.pcb = a
    BY <1>6, <1>12, PcbReplaced
  <2>2. Alive(a, w, e) /\ Kept(q, a)
    BY <1>5, <1>8, EmptyAckOK
  <2> QED
    BY <1>6, <1>8, <2>1, <2>2, ThroughTwice, SameFlagsTwice
<1> QED
  BY <1>7, <1>9, <1>10, <1>11, <1>12

-----------------------------------------------------------------------------
(* The bytes of a segment.                                                 *)

LEMMA InsideSegment ==
  ASSUME NEW a \in SeqNumbers, NEW s \in SeqNumbers, NEW n \in Nat, n >= 1,
         UpPos(a) <= Up + 2, UpPos(s) + n <= Up + 2,
         TCP_SEQ_BETWEEN(a, SeqAdd(s, 1), SeqAdd(s, n - 1))
  PROVE  UpPos(s) + 1 <= UpPos(a) /\ UpPos(a) <= UpPos(s) + n - 1
<1>1. PICK b : b = SeqAdd(s, 1)
  OBVIOUS
<1>2. PICK m : m = n - 1
  OBVIOUS
<1>3. PICK c : c = SeqAdd(s, m)
  OBVIOUS
<1>4. PeerIss \in SeqNumbers /\ 1 \in Nat /\ m \in Nat
  BY <1>2, Constants
<1>5. UpPos(s) \in Nat /\ UpPos(a) \in Nat
  BY Positions
<1>6. UpPos(s) + 1 < SeqMod /\ UpPos(s) + m < SeqMod
  BY <1>2, <1>5, Constants
<1>7. b \in SeqNumbers /\ UpPos(b) = UpPos(s) + 1
  BY <1>1, <1>4, <1>6, AddPosition DEF UpPos
<1>8. c \in SeqNumbers /\ UpPos(c) = UpPos(s) + m
  BY <1>3, <1>4, <1>6, AddPosition DEF UpPos
<1>9. ~ TCP_SEQ_LT(a, b) /\ ~ TCP_SEQ_LT(c, a)
  BY <1>1, <1>2, <1>3 DEF TCP_SEQ_BETWEEN, TCP_SEQ_LEQ
<1>10. TCP_SEQ_LT(a, b) <=> UpPos(a) < UpPos(b)
  <2>1. SeqDiff(a, PeerIss) - SeqDiff(b, PeerIss) < Half /\ SeqDiff(b, PeerIss) - SeqDiff(a, PeerIss) <= Half
    BY <1>2, <1>5, <1>7, Constants DEF UpPos
  <2> QED
    BY <1>4, <1>7, <2>1, BeforePosition DEF UpPos
<1>11. TCP_SEQ_LT(c, a) <=> UpPos(c) < UpPos(a)
  <2>1. SeqDiff(c, PeerIss) - SeqDiff(a, PeerIss) < Half /\ SeqDiff(a, PeerIss) - SeqDiff(c, PeerIss) <= Half
    BY <1>2, <1>5, <1>8, Constants DEF UpPos
  <2> QED
    BY <1>4, <1>8, <2>1, BeforePosition DEF UpPos
<1> QED
  BY <1>2, <1>5, <1>7, <1>8, <1>9, <1>10, <1>11

(* Bytes and a FIN of the client's stream that begin at position u. *)
Fresh(d, f, u) ==
    /\ d \in Seq(Nat) /\ f \in BOOLEAN
    /\ \A j \in 1..Len(d) : d[j] = u + j - 1 /\ d[j] <= Up
    /\ f => u + Len(d) = Up + 1

LEMMA Shifted ==
  ASSUME NEW x \in Int, NEW u \in Int, NEW j \in Int
  PROVE  x + ((u - x) + j) - 1 = u + j - 1
  OBVIOUS

LEMMA TrimFrontOK ==
  ASSUME NEW p, NEW seg, NEW s, NEW u, u = UpPos(p.rcv_nxt), p.rcv_nxt \in SeqNumbers, u \in 1..(Up + 2),
         UpSeg(seg), ~ seg.rst, ~ seg.syn, TCP_TCPLEN(seg) > 0,
         s = TrimFront(p, seg), s.seq = p.rcv_nxt
  PROVE  s \in SegType /\ ~ s.syn /\ Fresh(s.data, s.fin, u)
<1>1. PICK x : x = UpPos(seg.seq)
  OBVIOUS
<1>2. /\ seg \in SegType /\ seg.seq \in SeqNumbers /\ seg.data \in Seq(Nat) /\ Len(seg.data) \in Nat
      /\ seg.fin \in BOOLEAN /\ TCP_TCPLEN(seg) \in Nat
      /\ TCP_TCPLEN(seg) = IF seg.syn \/ seg.fin THEN Len(seg.data) + 1 ELSE Len(seg.data)
  BY SegmentFields DEF UpSeg
<1>3. x \in Nat /\ x + TCP_TCPLEN(seg) <= Up + 2 /\ (seg.fin => x + Len(seg.data) = Up + 1)
  BY <1>1, <1>2, Positions DEF UpSeg
<1>4. \A i \in 1..Len(seg.data) : seg.data[i] = x + i - 1 /\ seg.data[i] \in 1..Up
  BY <1>1 DEF UpSeg, Carries, UpPos
<1>5. CASE s = seg
  <2>1. u = x
    BY <1>1, <1>5
  <2>2. \A j \in 1..Len(seg.data) : seg.data[j] = u + j - 1 /\ seg.data[j] <= Up
    BY <1>4, <2>1, Constants
  <2> QED
    BY <1>2, <1>3, <1>5, <2>1, <2>2 DEF Fresh
<1>6. CASE s # seg
  <2>1. PICK off : off = SeqDiff(p.rcv_nxt, seg.seq)
    OBVIOUS
  <2>2. PICK n : n = TCP_TCPLEN(seg)
    OBVIOUS
  <2>3. /\ TCP_SEQ_BETWEEN(p.rcv_nxt, SeqAdd(seg.seq, 1), SeqAdd(seg.seq, n - 1))
        /\ s = [seg EXCEPT !.seq = p.rcv_nxt, !.data = SubSeq(@, off + 1, Len(@))]
    BY <1>6, <2>1, <2>2, Zenon DEF TrimFront
  <2>4. x + 1 <= u /\ u <= x + n - 1
    <3>1. n \in Nat /\ n >= 1 /\ UpPos(p.rcv_nxt) <= Up + 2 /\ UpPos(seg.seq) + n <= Up + 2
      BY <1>1, <1>2, <1>3, <2>2, Constants
    <3> QED
      BY <1>1, <1>2, <2>3, <3>1, InsideSegment
  <2>5. off = u - x
    <3>1. SeqDiff(p.rcv_nxt, PeerIss) >= SeqDiff(seg.seq, PeerIss)
      BY <1>1, <1>3, <2>4, Constants DEF UpPos
    <3>2. off = SeqDiff(p.rcv_nxt, PeerIss) - SeqDiff(seg.seq, PeerIss)
      BY <1>2, <2>1, <3>1, DiffPosition, Constants
    <3> QED
      BY <1>1, <3>2 DEF UpPos
  <2>6. off \in 0..Len(seg.data)
    BY <1>2, <1>3, <2>2, <2>4, <2>5, SMTT(30)
  <2>7. PICK d : d = SubSeq(seg.data, off + 1, Len(seg.data))
    OBVIOUS
  <2>8. PICK b : b = p.rcv_nxt
    OBVIOUS
  <2>9. s = [seg EXCEPT !.seq = b, !.data = d]
    BY <2>3, <2>7, <2>8, Zenon
  <2>10. /\ d \in Seq(Nat) /\ Len(d) \in Nat /\ Len(d) = Len(seg.data) - off
         /\ \A i \in 1..Len(d) : d[i] = seg.data[off + i] /\ off + i \in 1..Len(seg.data)
    <3>1. seg.data \in Seq(Nat)
      BY <1>2, Zenon
    <3>2. IsSuffix(d, seg.data, off, Nat)
      BY <2>6, <2>7, <3>1, Suffix, Zenon
    <3> QED
      BY <3>2, Zenon DEF IsSuffix
  <2>11. s \in SegType /\ s.data = d /\ s.fin = seg.fin /\ s.syn = seg.syn
    BY <1>2, <2>8, <2>9, <2>10 DEF SegType
  <2>12. ~ s.syn /\ s.fin \in BOOLEAN
    BY <1>2, <2>11, Zenon
  <2>13. \A j \in 1..Len(d) : d[j] = u + j - 1 /\ d[j] <= Up
    <3> SUFFICES ASSUME NEW j \in 1..Len(d) PROVE d[j] = u + j - 1 /\ d[j] <= Up
      OBVIOUS
    <3>1. d[j] = seg.data[off + j] /\ off + j \in 1..Len(seg.data)
      BY <2>10
    <3>2. seg.data[off + j] = x + (off + j) - 1 /\ seg.data[off + j] \in 1..Up
      BY <1>4, <3>1
    <3>3. PICK v : v = d[j]
      OBVIOUS
    <3>4. v = x + (off + j) - 1 /\ v \in 1..Up
      BY <3>1, <3>2, <3>3, Zenon
    <3>6. j \in Int /\ x \in Int /\ u \in Int
      BY <1>3, <2>10, Constants
    <3>5. v = u + j - 1 /\ v <= Up
      <4>1. v = u + j - 1
        <5>1. v = x + ((u - x) + j) - 1
          BY <2>5, <3>4, Zenon
        <5>2. x + ((u - x) + j) - 1 = u + j - 1
          BY <3>6, Shifted, Zenon
        <5> QED
          BY <5>1, <5>2, Zenon
      <4>2. v <= Up
        <5>1. v \in 1..Up /\ Up \in Nat
          BY <3>4, Constants, Zenon
        <5> QED
          BY <5>1
      <4> QED
        BY <3>4, <4>1, <4>2, Zenon
    <3> QED
      BY <3>3, <3>5
  <2>14. ASSUME seg.fin PROVE u + Len(d) = Up + 1
    <3>1. PICK m : m = Len(seg.data)
      OBVIOUS
    <3>2. m \in Nat /\ x \in Nat /\ x + m = Up + 1 /\ off = u - x /\ Len(d) = m - off
      BY <1>2, <1>3, <2>5, <2>10, <2>14, <3>1, Zenon
    <3>3. u \in Int
      BY Constants
    <3> QED
      BY <3>2, <3>3, Constants, SMTT(30)
  <2>15. s.fin => u + Len(d) = Up + 1
    BY <2>11, <2>14, Zenon
  <2>16. Fresh(d, s.fin, u)
    BY <2>10, <2>12, <2>13, <2>15, Zenon DEF Fresh
  <2> QED
    BY <2>11, <2>12, <2>16
<1> QED
  BY <1>5, <1>6

Extent(d, f) == Len(d) + (IF f THEN 1 ELSE 0)

LEMMA FreshEnd ==
  ASSUME NEW d, NEW f, NEW u \in 1..(Up + 2), Fresh(d, f, u)
  PROVE  Extent(d, f) \in Nat /\ Len(d) \in Nat /\ u + Extent(d, f) <= Up + 2
<1>1. Len(d) \in Nat
  BY DEF Fresh
<1>2. CASE f
  BY <1>1, <1>2, Constants DEF Fresh, Extent
<1>3. CASE ~ f
  <2>1. Extent(d, f) = Len(d)
    BY <1>1, <1>3 DEF Extent
  <2>2. CASE Len(d) = 0
    BY <1>1, <2>1, <2>2, Constants
  <2>3. CASE Len(d) > 0
    <3>1. Len(d) \in 1..Len(d)
      BY <1>1, <2>3
    <3>2. PICK n : n = Len(d)
      OBVIOUS
    <3>3. d[n] = u + n - 1 /\ d[n] <= Up
      BY <3>1, <3>2 DEF Fresh
    <3> QED
      BY <1>1, <2>1, <3>2, <3>3, Constants
  <2> QED
    BY <1>1, <2>2, <2>3
<1> QED
  BY <1>1, <1>2, <1>3

LEMMA TrimBackOK ==
  ASSUME NEW p, NEW s \in SegType, NEW t, NEW u \in 1..(Up + 2), ~ s.syn, Fresh(s.data, s.fin, u),
         p.rcv_wnd \in 0..TCP_WND, t = TrimBack(p, s)
  PROVE  /\ t \in SegType /\ t.seq = s.seq /\ ~ t.syn /\ Fresh(t.data, t.fin, u)
         /\ TCP_TCPLEN(t) = Extent(t.data, t.fin) /\ Extent(t.data, t.fin) <= p.rcv_wnd
<1>1. /\ s.data \in Seq(Nat) /\ Len(s.data) \in Nat /\ s.fin \in BOOLEAN /\ TCP_TCPLEN(s) \in Nat
      /\ TCP_TCPLEN(s) = IF s.syn \/ s.fin THEN Len(s.data) + 1 ELSE Len(s.data)
  BY SegmentFields
<1>2. p.rcv_wnd \in Nat
  BY Constants
<1>3. CASE ~ (TCP_TCPLEN(s) > p.rcv_wnd)
  <2>1. t = s
    BY <1>3 DEF TrimBack
  <2>2. TCP_TCPLEN(s) = Extent(s.data, s.fin)
    <3>1. CASE s.fin
      BY <1>1, <3>1 DEF Extent
    <3>2. CASE ~ s.fin
      BY <1>1, <3>2 DEF Extent
    <3> QED
      BY <3>1, <3>2
  <2>3. Extent(s.data, s.fin) <= p.rcv_wnd
    BY <1>1, <1>2, <1>3, <2>2
  <2> QED
    BY <2>1, <2>2, <2>3, Zenon
<1>4. CASE TCP_TCPLEN(s) > p.rcv_wnd
  <2>1. PICK f : f = FALSE
    OBVIOUS
  <2>2. PICK d : d = SubSeq(s.data, 1, p.rcv_wnd)
    OBVIOUS
  <2>3. t = [s EXCEPT !.fin = f, !.data = d]
    BY <1>4, <2>1, <2>2, Zenon DEF TrimBack
  <2>4. p.rcv_wnd <= Len(s.data)
    BY <1>1, <1>2, <1>4
  <2>5. d \in Seq(Nat) /\ Len(d) = p.rcv_wnd /\ \A i \in 1..Len(d) : d[i] = s.data[i] /\ i \in 1..Len(s.data)
    <3>1. PICK g : g = s.data
      OBVIOUS
    <3>2. PICK m : m = p.rcv_wnd
      OBVIOUS
    <3>3. g \in Seq(Nat) /\ m \in Nat /\ m <= Len(g) /\ d = SubSeq(g, 1, m)
      BY <1>1, <1>2, <2>2, <2>4, <3>1, <3>2
    <3>4. d \in Seq(Nat) /\ Len(d) = m /\ \A i \in 1..Len(d) : d[i] = g[i] /\ i \in 1..Len(g)
      BY <3>3, SMTT(30)
    <3> QED
      BY <3>1, <3>2, <3>4
  <2>6. f \in BOOLEAN /\ ~ f
    BY <2>1
  <2>7. t \in SegType /\ t.data = d /\ t.fin = f /\ t.syn = s.syn /\ t.seq = s.seq
    BY <2>3, <2>5, <2>6 DEF SegType
  <2>8. ~ t.syn /\ ~ t.fin /\ t.fin \in BOOLEAN
    BY <2>6, <2>7, Zenon
  <2>9. \A i \in 1..Len(d) : d[i] = u + i - 1 /\ d[i] <= Up
    BY <2>5 DEF Fresh
  <2>10. Fresh(d, t.fin, u)
    BY <2>5, <2>8, <2>9, Zenon DEF Fresh
  <2>11. Extent(d, t.fin) = Len(d) /\ Len(d) \in Nat
    BY <1>2, <2>5, <2>8 DEF Extent
  <2>12. TCP_TCPLEN(t) = Len(t.data)
    <3>1. TCP_TCPLEN(t) = IF t.syn \/ t.fin THEN Len(t.data) + 1 ELSE Len(t.data)
      BY <2>7, SegmentFields
    <3> QED
      BY <2>8, <3>1
  <2> QED
    BY <1>2, <2>5, <2>7, <2>8, <2>10, <2>11, <2>12
<1> QED
  BY <1>3, <1>4

(* n positions of the client's stream were taken. *)
Took(p, q, n) ==
    /\ DOMAIN q = Fields /\ q.state = p.state /\ q.cb = p.cb
    /\ q.rxclosed = p.rxclosed /\ q.closepend = p.closepend
    /\ q.inInput = p.inInput /\ q.tfClosed = p.tfClosed
    /\ UpPos(q.rcv_nxt) = UpPos(p.rcv_nxt) + n /\ q.rcv_wnd = p.rcv_wnd - n
    /\ q.snd_lbb = p.snd_lbb

LEMMA TakeDataOK ==
  ASSUME NEW in, NEW i, NEW p, NEW w, NEW e \in Int, NEW s \in SegType, NEW u, u = UpPos(p.rcv_nxt),
         InRec(in), p = in.pcb, DOMAIN p = Fields, Alive(p, w, e),
         ~ s.syn, s.seq = p.rcv_nxt, Fresh(s.data, s.fin, u), i = TakeData(in, s)
  PROVE  /\ InRec(i) /\ i.reset = in.reset /\ i.aborted = in.aborted
         /\ Fresh(i.recv_data, i.got_fin, u)
         /\ Alive(i.pcb, w, e) /\ Took(p, i.pcb, Extent(i.recv_data, i.got_fin))
<1>1. /\ RcvOK(p) /\ SndOK(p, w) /\ OutOK(p, w, e) /\ u \in 1..(Up + 2) /\ u \in Nat
      /\ p.rcv_nxt \in SeqNumbers /\ p.rcv_wnd \in 0..TCP_WND /\ p.rcv_wnd \in Nat
  BY Constants DEF Alive, RcvOK
<1>2. PICK t : t = TrimBack(p, s)
  OBVIOUS
<1>3. PICK n : n = TCP_TCPLEN(t)
  OBVIOUS
<1>4. /\ t \in SegType /\ t.seq = s.seq /\ ~ t.syn /\ Fresh(t.data, t.fin, u)
      /\ n = Extent(t.data, t.fin) /\ n <= p.rcv_wnd
  BY <1>1, <1>2, <1>3, TrimBackOK
<1>5. n \in Nat /\ u + n <= Up + 2
  BY <1>1, <1>4, FreshEnd
<1>6. PICK nxt : nxt = SegEnd(t)
  OBVIOUS
<1>7. nxt \in SeqNumbers /\ UpPos(nxt) = u + n
  <2>1. nxt = SeqAdd(p.rcv_nxt, n)
    BY <1>3, <1>4, <1>6 DEF SegEnd
  <2>2. SeqDiff(p.rcv_nxt, PeerIss) + n < SeqMod /\ PeerIss \in SeqNumbers
    BY <1>1, <1>5, Constants DEF UpPos
  <2> QED
    BY <1>1, <1>5, <2>1, <2>2, AddPosition DEF UpPos
<1>8. PICK v : v = p.rcv_wnd - n
  OBVIOUS
<1>9. v \in 0..TCP_WND /\ v \in Nat
  BY <1>1, <1>4, <1>5, <1>8, Constants
<1>10. PICK p1 : p1 = [p EXCEPT !.rcv_nxt = nxt, !.rcv_wnd = v]
  OBVIOUS
<1>11. PICK p2 : p2 = tcp_update_rcv_ann_wnd(p1)
  OBVIOUS
<1>12. PICK q : q = [p2 EXCEPT !.ackNow = TRUE]
  OBVIOUS
<1>13. PICK d : d = t.data
  OBVIOUS
<1>14. PICK f : f = t.fin
  OBVIOUS
<1>15. i = [in EXCEPT !.pcb = q, !.recv_data = d, !.got_fin = f]
  <2>1. p1 = [p EXCEPT !.rcv_nxt = SegEnd(t), !.rcv_wnd = @ - TCP_TCPLEN(t)]
    BY <1>3, <1>6, <1>8, <1>10, Zenon
  <2> QED
    BY <1>2, <1>11, <1>12, <1>13, <1>14, <2>1, Zenon DEF TakeData
<1>16. InRec(i) /\ i.reset = in.reset /\ i.aborted = in.aborted /\ i.pcb = q /\ i.recv_data = d /\ i.got_fin = f
  BY <1>15 DEF InRec
<1>17. DOMAIN p1 = Fields /\ p1.rcv_nxt = nxt /\ p1.rcv_wnd = v /\ p1.right_edge = p.right_edge
  BY <1>10, FieldSet
<1>18. RcvPre(p1)
  <2>1. /\ p.right_edge \in SeqNumbers /\ p.rcv_ann_wnd \in 0..p.rcv_wnd
        /\ UpPos(p.right_edge) \in (1 + TCP_WND)..(u + p.rcv_ann_wnd)
    BY <1>1 DEF RcvOK
  <2>2. u + n \in 1..(Up + 2) /\ UpPos(p.right_edge) \in (1 + TCP_WND)..((u + n) + v)
    BY <1>1, <1>5, <1>8, <2>1, Constants
  <2> QED
    BY <1>7, <1>9, <1>17, <2>1, <2>2 DEF RcvPre
<1>19. RcvOK(p2) /\ \E x : p2 = [p1 EXCEPT !.rcv_ann_wnd = x]
  BY <1>11, <1>17, <1>18, AnnWndOK
<1>20. PICK x : p2 = [p1 EXCEPT !.rcv_ann_wnd = x]
  BY <1>19
<1>21. /\ DOMAIN q = Fields /\ q.state = p.state /\ q.cb = p.cb
       /\ q.rxclosed = p.rxclosed /\ q.closepend = p.closepend
       /\ q.inInput = p.inInput /\ q.tfClosed = p.tfClosed
       /\ q.rcv_nxt = nxt /\ q.rcv_wnd = v /\ q.snd_lbb = p.snd_lbb
  BY <1>10, <1>12, <1>20, FieldSet
<1>22. /\ SameQueues(p, q) /\ q.right_edge = p.right_edge /\ q.out = p.out /\ q.snd_nxt = p.snd_nxt
       /\ q.lastack = p.lastack /\ q.snd_wnd = p.snd_wnd /\ q.snd_wnd_max = p.snd_wnd_max
  BY <1>10, <1>12, <1>20, FieldSet DEF SameQueues
<1>23. /\ q.rcv_ann_wnd = p2.rcv_ann_wnd /\ p2.rcv_nxt = nxt /\ p2.rcv_wnd = v /\ p2.right_edge = p.right_edge
  BY <1>10, <1>12, <1>20, FieldSet
<1>24. RcvOK(q)
  BY <1>19, <1>21, <1>22, <1>23 DEF RcvOK
<1>25. SndOK(q, w)
  BY <1>1, <1>21, <1>22 DEF SndOK, Spare, SameQueues
<1>26. OutOK(q, w, e)
  <2>1. PICK r : r = UpPos(p.right_edge)
    OBVIOUS
  <2>2. r \in Int /\ u \in Int /\ u + n \in Int /\ u <= u + n
    BY <1>1, <1>5, <2>1, EdgeStep
  <2>3. DownSegs(p.out, w) /\ Announces(p.out, e) /\ Below(p.out, u, r) /\ e <= r /\ p.out \in Seq(SegType)
    BY <1>1, <2>1 DEF OutOK, DownSegs
  <2>4. Below(p.out, u + n, r)
    BY <2>2, <2>3, WiderBelow
  <2> QED
    BY <1>7, <1>21, <1>22, <2>1, <2>3, <2>4 DEF OutOK
<1>27. Took(p, q, n)
  BY <1>7, <1>8, <1>21 DEF Took
<1> QED
  BY <1>4, <1>13, <1>14, <1>16, <1>24, <1>25, <1>26, <1>27 DEF Alive

(* What tcp_receive leaves for the callbacks: i of the record in. *)
Received(in, i, a, u, e) ==
    /\ InRec(i) /\ i.reset = in.reset /\ i.aborted = in.aborted
    /\ Fresh(i.recv_data, i.got_fin, u)
    /\ Mid(i.pcb, a, Extent(i.recv_data, i.got_fin), e)
    /\ i.pcb.inInput = in.pcb.inInput /\ i.pcb.state # "SYN_RCVD"

LEMMA NothingFresh ==
  ASSUME NEW d, NEW f, NEW u, d = << >>, f = FALSE
  PROVE  Fresh(d, f, u) /\ Extent(d, f) = 0
<1>1. ~ f /\ f \in BOOLEAN /\ d \in Seq(Nat) /\ Len(d) = 0
  <2>1. ~ f /\ f \in BOOLEAN
    BY Zenon
  <2>2. d \in Seq(Nat) /\ Len(d) = 0
    OBVIOUS
  <2> QED
    BY <2>1, <2>2, Zenon
<1>2. Extent(d, f) = 0
  BY <1>1 DEF Extent
<1>3. \A j \in 1..Len(d) : d[j] = u + j - 1 /\ d[j] <= Up
  BY <1>1
<1> QED
  BY <1>1, <1>2, <1>3, Zenon DEF Fresh

LEMMA MidTook ==
  ASSUME NEW p, NEW q, NEW a, NEW n \in Nat, NEW e, Mid(p, a, 0, e), Alive(q, a.wrote, e), Took(p, q, n),
         p.state # "SYN_RCVD"
  PROVE  Mid(q, a, n, e)
<1>1. Ctl(q)
  BY DEF Mid, Ctl, Took
<1>2. q.cb <=> a.opened /\ ~ a.closed
  BY Zenon DEF Mid, Took
<1>3. HeldBy(q, a, n)
  <2>1. AppOK(a) /\ HeldBy(p, a, 0) /\ Alive(p, a.wrote, e)
    BY DEF Mid
  <2>2. Given(a) \in Int /\ a.owed \in Int /\ p.rcv_wnd \in Int
    <3>1. p.rcv_wnd \in 0..TCP_WND
      BY <2>1, AliveQueueFacts
    <3>2. a.owed \in Nat
      BY <2>1 DEF AppOK
    <3> QED
      BY <2>1, <3>1, <3>2, GivenIs, Constants
  <2>3. p.cb => UpPos(q.rcv_nxt) = Given(a) + n /\ q.rcv_wnd + a.owed + n = TCP_WND
    <3> SUFFICES ASSUME p.cb PROVE UpPos(q.rcv_nxt) = Given(a) + n /\ q.rcv_wnd + a.owed + n = TCP_WND
      OBVIOUS
    <3>1. UpPos(p.rcv_nxt) = Given(a) + 0 /\ p.rcv_wnd + a.owed + 0 = TCP_WND
      BY <2>1 DEF HeldBy
    <3>2. UpPos(q.rcv_nxt) = UpPos(p.rcv_nxt) + n /\ q.rcv_wnd = p.rcv_wnd - n
      BY DEF Took
    <3> QED
      BY <2>2, <3>1, <3>2
  <2>4. q.cb = p.cb /\ q.state = p.state /\ q.snd_lbb = p.snd_lbb
    BY DEF Took
  <2> QED
    BY <2>1, <2>3, <2>4 DEF HeldBy
<1>4. SynRcvd(q, a)
  BY DEF Mid, SynRcvd, Took
<1>5. q.state # "CLOSED" /\ AppOK(a)
  BY DEF Mid, Took
<1> QED
  BY <1>1, <1>2, <1>3, <1>4, <1>5, Zenon DEF Mid

(* Nothing was taken of the segment. *)
LEMMA NothingTaken ==
  ASSUME NEW in, NEW i, NEW p, NEW q, NEW a, NEW u, NEW e, InRec(in), p = in.pcb,
         Mid(p, a, 0, e), p.state # "SYN_RCVD", in.recv_data = << >>, in.got_fin = FALSE,
         i = [in EXCEPT !.pcb = q], Alive(q, a.wrote, e), Kept(p, q)
  PROVE  Received(in, i, a, u, e)
<1>1. SameFlags(in, i) /\ i.pcb = q
  BY PcbReplaced
<1>2. PICK d : d = i.recv_data
  OBVIOUS
<1>3. PICK f : f = i.got_fin
  OBVIOUS
<1>4. d = << >> /\ f = FALSE
  BY <1>1, <1>2, <1>3 DEF SameFlags
<1>5. Fresh(d, f, u) /\ Extent(d, f) = 0
  BY <1>4, NothingFresh
<1>6. Mid(q, a, 0, e)
  BY MidKept
<1>7. q.inInput = p.inInput /\ q.state # "SYN_RCVD"
  BY DEF Kept, Kept0
<1>8. Fresh(i.recv_data, i.got_fin, u) /\ Mid(i.pcb, a, Extent(i.recv_data, i.got_fin), e)
  BY <1>1, <1>2, <1>3, <1>5, <1>6, Zenon
<1> QED
  BY <1>1, <1>7, <1>8 DEF Received, SameFlags

LEMMA ReceiveDataOK ==
  ASSUME NEW in, NEW i, NEW p, NEW a, NEW u, NEW e \in Int, NEW seg, InRec(in), p = in.pcb,
         Mid(p, a, 0, e), p.state # "SYN_RCVD", in.recv_data = << >>, in.got_fin = FALSE,
         u = UpPos(p.rcv_nxt), UpSeg(seg), ~ seg.rst, ~ seg.syn, i = ReceiveData(in, seg)
  PROVE  Received(in, i, a, u, e)
<1>1. PICK s : s = TrimFront(p, seg)
  OBVIOUS
<1>2. PICK r : r = tcp_send_empty_ack(p)
  OBVIOUS
<1>3. PICK k : k = (p.ackNow \/ ~ InWindow(p, seg.seq))
  OBVIOUS
<1>4. PICK v : v = [p EXCEPT !.ackNow = k]
  OBVIOUS
<1>5. DOMAIN p = Fields /\ Alive(p, a.wrote, e)
  BY MidFacts
<1>6. \/ TCP_TCPLEN(seg) > 0 /\ s.seq = p.rcv_nxt /\ i = TakeData(in, s)
      \/ i = [in EXCEPT !.pcb = r]
      \/ i = [in EXCEPT !.pcb = v]
  <2>1. [in EXCEPT !.pcb = tcp_send_empty_ack(@)] = [in EXCEPT !.pcb = r]
    BY <1>2, Zenon
  <2>2. [in EXCEPT !.pcb.ackNow = @ \/ ~ InWindow(in.pcb, seg.seq)] = [in EXCEPT !.pcb = v]
    <3>1. [in EXCEPT !.pcb.ackNow = @ \/ ~ InWindow(in.pcb, seg.seq)] = [in EXCEPT !.pcb.ackNow = k]
      BY <1>3, Zenon
    <3>2. [in EXCEPT !.pcb.ackNow = k] = [in EXCEPT !.pcb = v]
      BY <1>4 DEF InRec
    <3> QED
      BY <3>1, <3>2, Zenon
  <2>3. \/ TCP_TCPLEN(seg) > 0 /\ s.seq = p.rcv_nxt /\ i = TakeData(in, s)
        \/ i = [in EXCEPT !.pcb = tcp_send_empty_ack(@)]
        \/ i = [in EXCEPT !.pcb.ackNow = @ \/ ~ InWindow(in.pcb, seg.seq)]
    BY <1>1, Zenon DEF ReceiveData
  <2> QED
    BY <2>1, <2>2, <2>3, Zenon
<1>7. CASE TCP_TCPLEN(seg) > 0 /\ s.seq = p.rcv_nxt /\ i = TakeData(in, s)
  <2>1. p.rcv_nxt \in SeqNumbers /\ u \in 1..(Up + 2)
    BY <1>5 DEF Alive, RcvOK
  <2>2. s \in SegType /\ ~ s.syn /\ Fresh(s.data, s.fin, u)
    BY <1>1, <1>7, <2>1, TrimFrontOK
  <2>3. /\ InRec(i) /\ i.reset = in.reset /\ i.aborted = in.aborted
        /\ Fresh(i.recv_data, i.got_fin, u)
        /\ Alive(i.pcb, a.wrote, e) /\ Took(p, i.pcb, Extent(i.recv_data, i.got_fin))
    BY <1>5, <1>7, <2>2, TakeDataOK
  <2>4. Extent(i.recv_data, i.got_fin) \in Nat
    BY <2>1, <2>3, FreshEnd
  <2>5. Mid(i.pcb, a, Extent(i.recv_data, i.got_fin), e)
    BY <2>3, <2>4, MidTook
  <2>6. i.pcb.inInput = in.pcb.inInput /\ i.pcb.state # "SYN_RCVD"
    BY <2>3 DEF Took
  <2> QED
    BY <2>3, <2>5, <2>6, Zenon DEF Received
<1>8. CASE i = [in EXCEPT !.pcb = r]
  <2>1. Alive(r, a.wrote, e) /\ Kept(p, r)
    BY <1>2, <1>5, EmptyAckOK
  <2> QED
    BY <1>8, <2>1, NothingTaken
<1>9. CASE i = [in EXCEPT !.pcb = v]
  <2>1. /\ Kept(p, v) /\ SameQueues(p, v)
        /\ v.snd_nxt = p.snd_nxt /\ v.right_edge = p.right_edge /\ v.out = p.out
    BY <1>4, <1>5, FieldSet DEF Kept, Kept0, SameQueues
  <2>2. Alive(v, a.wrote, e)
    BY <1>5, <2>1, AliveSame
  <2> QED
    BY <1>9, <2>1, <2>2, NothingTaken
<1> QED
  BY <1>6, <1>7, <1>8, <1>9

LEMMA ReceiveOK ==
  ASSUME NEW in, NEW i, NEW p, NEW a, NEW u, NEW e \in Int, NEW seg, InRec(in), p = in.pcb,
         Mid(p, a, 0, e), p.state # "SYN_RCVD", in.recv_data = << >>, in.got_fin = FALSE,
         u = UpPos(p.rcv_nxt), UpSeg(seg), ~ seg.rst, ~ seg.syn, i = tcp_receive(in, seg)
  PROVE  Received(in, i, a, u, e)
<1>1. PICK j : j = ReceiveAck(in, seg)
  OBVIOUS
<1>2. PICK q : q = j.pcb
  OBVIOUS
<1>3. DOMAIN p = Fields /\ Alive(p, a.wrote, e) /\ a.wrote \in 0..Down
  BY MidFacts
<1>4. seg \in SegType /\ seg.wnd <= PeerBuf
  BY DEF UpSeg
<1>5. SameFlags(in, j) /\ Alive(q, a.wrote, e) /\ Through(p, q)
  BY <1>1, <1>2, <1>3, <1>4, ReceiveAckOK
<1>6. Mid(q, a, 0, e)
  BY <1>5, MidThrough
<1>7. /\ InRec(j) /\ j.recv_data = << >> /\ j.got_fin = FALSE /\ j.reset = in.reset /\ j.aborted = in.aborted
      /\ u = UpPos(q.rcv_nxt) /\ q.state # "SYN_RCVD" /\ q.inInput = p.inInput
  BY <1>5 DEF SameFlags, Through
<1>8. i = ReceiveData(j, seg)
  BY <1>1 DEF tcp_receive
<1>9. Received(j, i, a, u, e)
  BY <1>2, <1>6, <1>7, <1>8, ReceiveDataOK
<1> QED
  BY <1>2, <1>7, <1>9 DEF Received

-----------------------------------------------------------------------------
(* The state machine.                                                      *)

(* A control block that moves to another state. *)
LEMMA MidMoves ==
  ASSUME NEW p, NEW q, NEW a, NEW k, NEW e, Mid(p, a, k, e), SameData(p, q),
         DOMAIN q = Fields, q.cb = p.cb, q.rxclosed = p.rxclosed, q.closepend = p.closepend,
         q.inInput = p.inInput, q.tfClosed \in BOOLEAN,
         q.state \in States, q.state # "CLOSED", q.state # "SYN_RCVD", p.state # "SYN_RCVD",
         p.cb => q.state \in {"ESTABLISHED", "CLOSE_WAIT"},
         q.state \in {"ESTABLISHED", "CLOSE_WAIT"} => p.state \in {"ESTABLISHED", "CLOSE_WAIT"}
  PROVE  Mid(q, a, k, e)
<1>1. Ctl(q)
  <2>1. p.cb \in BOOLEAN /\ p.rxclosed \in BOOLEAN /\ p.closepend \in BOOLEAN /\ p.inInput \in BOOLEAN
        /\ (p.cb => ~ p.rxclosed /\ ~ p.closepend)
    BY DEF Mid, Ctl
  <2> QED
    BY <2>1, Zenon DEF Ctl
<1>2. q.cb <=> a.opened /\ ~ a.closed
  BY Zenon DEF Mid
<1>3. HeldBy(q, a, k)
  BY DEF Mid, HeldBy, SameData
<1>4. SynRcvd(q, a) /\ AppOK(a)
  BY DEF Mid, SynRcvd
<1>5. Alive(q, a.wrote, e)
  BY AliveData DEF Mid
<1> QED
  BY <1>1, <1>2, <1>3, <1>4, <1>5, Zenon DEF Mid

LEMMA MovedOK ==
  ASSUME NEW in, NEW i, NEW j, NEW q, NEW a, NEW u, NEW e, Received(in, i, a, u, e),
         j = [i EXCEPT !.pcb = q], Mid(q, a, Extent(i.recv_data, i.got_fin), e),
         q.inInput = i.pcb.inInput, q.state # "SYN_RCVD"
  PROVE  Received(in, j, a, u, e)
<1>1. SameFlags(i, j) /\ j.pcb = q
  BY PcbReplaced DEF Received
<1>2. j.recv_data = i.recv_data /\ j.got_fin = i.got_fin /\ j.reset = i.reset /\ j.aborted = i.aborted /\ InRec(j)
  BY <1>1 DEF SameFlags
<1>3. Fresh(j.recv_data, j.got_fin, u) /\ Mid(j.pcb, a, Extent(j.recv_data, j.got_fin), e)
  BY <1>1, <1>2, Zenon DEF Received
<1> QED
  BY <1>1, <1>2, <1>3 DEF Received

LEMMA AdvanceOK ==
  ASSUME NEW in, NEW i, NEW j, NEW a, NEW u, NEW e, NEW seg, Received(in, i, a, u, e), j = Advance(i, seg)
  PROVE  Received(in, j, a, u, e)
<1>1. PICK p : p = i.pcb
  OBVIOUS
<1>2. PICK n : n = Extent(i.recv_data, i.got_fin)
  OBVIOUS
<1>3. Mid(p, a, n, e) /\ InRec(i) /\ p.state # "SYN_RCVD"
  BY <1>1, <1>2 DEF Received
<1>4. /\ DOMAIN p = Fields /\ Alive(p, a.wrote, e) /\ p.tfClosed \in BOOLEAN /\ p.state \in States /\ p.state # "CLOSED"
      /\ (p.cb => p.state \in {"ESTABLISHED", "CLOSE_WAIT"})
  BY <1>3, MidFacts
<1>5. PICK k : k = (p.ackNow \/ i.got_fin)
  OBVIOUS
<1>6. PICK t : t = TRUE
  OBVIOUS
<1> DEFINE To(s) == [i EXCEPT !.pcb = [p EXCEPT !.state = s, !.ackNow = k]]
<1>7. PICK z : z = [tcp_pcb_purge(p) EXCEPT !.state = "TIME_WAIT", !.ackNow = k]
  OBVIOUS
<1>8. PICK c : c = [p EXCEPT !.tfClosed = t]
  OBVIOUS
<1>9. \A s : [i EXCEPT !.pcb.state = s, !.pcb.ackNow = @ \/ i.got_fin] = To(s)
  <2> SUFFICES ASSUME NEW s PROVE [i EXCEPT !.pcb.state = s, !.pcb.ackNow = @ \/ i.got_fin] = To(s)
    OBVIOUS
  <2>1. [i EXCEPT !.pcb.state = s, !.pcb.ackNow = @ \/ i.got_fin] = [i EXCEPT !.pcb.state = s, !.pcb.ackNow = k]
    BY <1>1, <1>5, Zenon
  <2>2. [i EXCEPT !.pcb.state = s, !.pcb.ackNow = k] = To(s)
    BY <1>1, <1>3 DEF InRec
  <2> QED
    BY <2>1, <2>2, Zenon
<1>10. TimeWait(i) = [i EXCEPT !.pcb = z]
  <2>1. PICK r : r = tcp_pcb_purge(p)
    OBVIOUS
  <2>2. r.ackNow = p.ackNow
    BY <1>4, <2>1, FieldSet DEF tcp_pcb_purge
  <2>3. z = [r EXCEPT !.state = "TIME_WAIT", !.ackNow = k]
    BY <1>7, <2>1, Zenon
  <2>4. z = [r EXCEPT !.state = "TIME_WAIT", !.ackNow = @ \/ i.got_fin]
    BY <1>5, <2>2, <2>3, Zenon
  <2>5. TimeWait(i) = [i EXCEPT !.pcb = [tcp_pcb_purge(i.pcb) EXCEPT !.state = "TIME_WAIT", !.ackNow = @ \/ i.got_fin]]
    BY Zenon DEF TimeWait
  <2> QED
    BY <1>1, <2>1, <2>4, <2>5, Zenon
<1>11. [i EXCEPT !.pcb.tfClosed = TRUE] = [i EXCEPT !.pcb = c]
  BY <1>1, <1>3, <1>6, <1>8 DEF InRec
<1>12. \/ j = i
       \/ p.state \in {"ESTABLISHED", "CLOSE_WAIT"} /\ j = To("CLOSE_WAIT")
       \/ p.state = "FIN_WAIT_1" /\ (j = To("CLOSING") \/ j = To("FIN_WAIT_2"))
       \/ p.state \in {"FIN_WAIT_1", "FIN_WAIT_2", "CLOSING"} /\ j = [i EXCEPT !.pcb = z]
       \/ p.state = "LAST_ACK" /\ j = [i EXCEPT !.pcb = c]
  <2>1. \/ j = i
        \/ p.state \in {"ESTABLISHED", "CLOSE_WAIT"}
             /\ j = [i EXCEPT !.pcb.state = "CLOSE_WAIT", !.pcb.ackNow = @ \/ i.got_fin]
        \/ p.state = "FIN_WAIT_1" /\ j = [i EXCEPT !.pcb.state = "CLOSING", !.pcb.ackNow = @ \/ i.got_fin]
        \/ p.state = "FIN_WAIT_1" /\ j = [i EXCEPT !.pcb.state = "FIN_WAIT_2", !.pcb.ackNow = @ \/ i.got_fin]
        \/ p.state \in {"FIN_WAIT_1", "FIN_WAIT_2", "CLOSING"} /\ j = TimeWait(i)
        \/ p.state = "LAST_ACK" /\ j = [i EXCEPT !.pcb.tfClosed = TRUE]
    BY <1>1 DEF Advance
  <2> QED
    BY <1>9, <1>10, <1>11, <2>1, Zenon
<1>13. CASE j = i
  BY <1>13
<1>14. ASSUME NEW s \in States, j = To(s), s # "CLOSED", s # "SYN_RCVD",
              p.cb => s \in {"ESTABLISHED", "CLOSE_WAIT"},
              s \in {"ESTABLISHED", "CLOSE_WAIT"} => p.state \in {"ESTABLISHED", "CLOSE_WAIT"}
       PROVE  Received(in, j, a, u, e)
  <2>1. PICK q : q = [p EXCEPT !.state = s, !.ackNow = k]
    OBVIOUS
  <2>2. /\ SameData(p, q) /\ DOMAIN q = Fields /\ q.cb = p.cb /\ q.rxclosed = p.rxclosed
        /\ q.closepend = p.closepend /\ q.inInput = p.inInput /\ q.tfClosed = p.tfClosed /\ q.state = s
    BY <1>4, <2>1, FieldSet DEF SameData, SameQueues
  <2>3. q.tfClosed \in BOOLEAN
    BY <1>4, <2>2, Zenon
  <2>4. Mid(q, a, n, e)
    BY <1>3, <1>14, <2>2, <2>3, MidMoves
  <2>5. j = [i EXCEPT !.pcb = q]
    BY <1>14, <2>1
  <2> QED
    BY <1>1, <1>2, <1>14, <2>2, <2>4, <2>5, MovedOK
<1>15. CASE p.state \in {"FIN_WAIT_1", "FIN_WAIT_2", "CLOSING"} /\ j = [i EXCEPT !.pcb = z]
  <2>1. PICK r : r = tcp_pcb_purge(p)
    OBVIOUS
  <2>2. Alive(r, a.wrote, e) /\ Kept(p, r) /\ DOMAIN r = Fields
    BY <1>4, <2>1, PurgeOK DEF Kept, Kept0
  <2>3. Mid(r, a, n, e) /\ r.state = p.state /\ r.inInput = p.inInput
    BY <1>3, <2>2, MidKept DEF Kept, Kept0
  <2>4. /\ SameData(r, z) /\ DOMAIN z = Fields /\ z.cb = r.cb /\ z.rxclosed = r.rxclosed
        /\ z.closepend = r.closepend /\ z.inInput = r.inInput /\ z.tfClosed = r.tfClosed /\ z.state = "TIME_WAIT"
    BY <1>7, <2>1, <2>2, FieldSet DEF SameData, SameQueues
  <2>5. r.tfClosed \in BOOLEAN /\ ~ r.cb
    BY <1>15, <2>3, MidFacts
  <2>6. z.tfClosed \in BOOLEAN /\ z.state \in States
    BY <2>4, <2>5, Zenon DEF States
  <2>7. Mid(z, a, n, e)
    BY <1>15, <2>3, <2>4, <2>5, <2>6, MidMoves
  <2>8. z.inInput = p.inInput /\ z.state # "SYN_RCVD"
    BY <2>3, <2>4
  <2> QED
    BY <1>1, <1>2, <1>15, <2>7, <2>8, MovedOK
<1>16. CASE p.state = "LAST_ACK" /\ j = [i EXCEPT !.pcb = c]
  <2>1. /\ SameData(p, c) /\ DOMAIN c = Fields /\ c.cb = p.cb /\ c.rxclosed = p.rxclosed
        /\ c.closepend = p.closepend /\ c.inInput = p.inInput /\ c.tfClosed = t /\ c.state = p.state
    BY <1>4, <1>8, FieldSet DEF SameData, SameQueues
  <2>2. c.tfClosed \in BOOLEAN
    BY <1>6, <2>1, Zenon
  <2>3. Mid(c, a, n, e)
    BY <1>3, <1>4, <1>16, <2>1, <2>2, MidMoves
  <2> QED
    BY <1>1, <1>2, <1>3, <1>16, <2>1, <2>3, MovedOK
<1>17. CASE p.state \in {"ESTABLISHED", "CLOSE_WAIT"} /\ j = To("CLOSE_WAIT")
  BY <1>14, <1>17 DEF States
<1>18. CASE p.state = "FIN_WAIT_1" /\ (j = To("CLOSING") \/ j = To("FIN_WAIT_2"))
  BY <1>4, <1>14, <1>18 DEF States
<1> QED
  BY <1>12, <1>13, <1>15, <1>16, <1>17, <1>18


(* The tunnel accepts: w1 of tcp_input.                                    *)
Seen(p, a) == IF p.cb THEN [a EXCEPT !.opened = TRUE] ELSE a

SameApp(a, b) ==
    /\ AppOK(b) /\ Grown(a, b) /\ b.opened /\ b.closed = a.closed /\ b.wrote = a.wrote
    /\ b.owed = a.owed /\ b.got = a.got /\ b.fins = a.fins /\ Given(b) = Given(a)

LEMMA AppOpened ==
  ASSUME NEW a, NEW b, AppOK(a), b = [a EXCEPT !.opened = TRUE]
  PROVE  SameApp(a, b)
<1>1. PICK t : t = TRUE
  OBVIOUS
<1>2. b = [a EXCEPT !.opened = t]
  BY <1>1
<1>3. /\ DOMAIN b = DOMAIN a /\ b.wrote = a.wrote /\ b.opened = t /\ b.closed = a.closed
      /\ b.got = a.got /\ b.owed = a.owed /\ b.fins = a.fins /\ b.errs = a.errs
  BY <1>2, AppFields
<1>4. /\ b.closed \in BOOLEAN /\ b.opened /\ b.opened \in BOOLEAN /\ DOMAIN b = DOMAIN AppInit
      /\ (b.errs > 0 => b.closed)
  BY <1>1, <1>3, Zenon DEF AppOK
<1>5. /\ b.wrote \in 0..Down /\ b.owed \in Nat /\ b.got \in Seq(Nat) /\ b.fins \in 0..1 /\ b.errs \in 0..1
      /\ Len(b.got) <= Up /\ (\A i \in 1..Len(b.got) : b.got[i] = i) /\ (b.fins = 1 => Len(b.got) = Up)
  BY <1>3 DEF AppOK
<1>6. AppOK(b)
  BY <1>4, <1>5, Zenon DEF AppOK
<1>7. a.wrote \in Nat /\ Given(a) \in Int /\ Given(b) = Given(a)
  BY <1>3, GivenIs DEF Given
<1>8. a.wrote <= b.wrote /\ Given(a) <= Given(b)
  BY <1>3, <1>7
<1>9. Grown(a, b)
  BY <1>3, <1>4, <1>8, Zenon DEF Grown
<1> QED
  BY <1>3, <1>4, <1>6, <1>7, <1>9, Zenon DEF SameApp

LEMMA MidSameApp ==
  ASSUME NEW p, NEW a, NEW b, NEW k, NEW e, Mid(p, a, k, e), SameApp(a, b), a.opened
  PROVE  Mid(p, b, k, e)
<1>1. /\ AppOK(b) /\ b.opened /\ b.closed = a.closed /\ b.wrote = a.wrote
      /\ b.owed = a.owed /\ Given(b) = Given(a)
  BY Zenon DEF SameApp
<1>2. Ctl(p) /\ p.state # "CLOSED" /\ (p.cb <=> b.opened /\ ~ b.closed)
  BY <1>1, Zenon DEF Mid
<1>3. HeldBy(p, b, k)
  BY <1>1, Zenon DEF Mid, HeldBy
<1>4. p.state # "SYN_RCVD"
  BY DEF Mid, SynRcvd
<1>5. SynRcvd(p, b)
  BY <1>1, <1>4, Zenon DEF SynRcvd
<1>6. Alive(p, b.wrote, e)
  BY <1>1, Zenon DEF Mid
<1> QED
  BY <1>1, <1>2, <1>3, <1>5, <1>6, Zenon DEF Mid

LEMMA SeenOK ==
  ASSUME NEW p, NEW a, NEW k, NEW e, Mid(p, a, k, e)
  PROVE  /\ Mid(p, Seen(p, a), k, e) /\ Grown(a, Seen(p, a)) /\ Given(Seen(p, a)) = Given(a)
         /\ (Seen(p, a).opened => a.opened)
<1>1. AppOK(a) /\ (p.cb <=> a.opened /\ ~ a.closed)
  BY MidFacts
<1>2. CASE p.cb
  <2>1. PICK b : b = [a EXCEPT !.opened = TRUE]
    OBVIOUS
  <2>2. SameApp(a, b)
    BY <1>1, <2>1, AppOpened, Zenon
  <2>3. Mid(p, b, k, e) /\ Grown(a, b) /\ Given(b) = Given(a) /\ a.opened
    BY <1>1, <1>2, <2>2, MidSameApp DEF SameApp
  <2>4. Seen(p, a) = b
    BY <1>2, <2>1, Zenon DEF Seen
  <2> QED
    BY <2>3, <2>4, Zenon
<1>3. CASE ~ p.cb
  <2>1. Seen(p, a) = a
    BY <1>3, Zenon DEF Seen
  <2> QED
    BY <1>1, <2>1, GrownSelf, Zenon
<1> QED
  BY <1>2, <1>3


(* What tcp_process leaves: u is where the client's stream went on.        *)
Quiet(in) ==
    /\ InRec(in) /\ in.recv_data = << >> /\ in.got_fin = FALSE
    /\ in.reset = FALSE /\ in.aborted = FALSE

Ready(i, b, u, e) ==
    /\ InRec(i) /\ i.aborted = FALSE
    /\ Fresh(i.recv_data, i.got_fin, u) /\ Mid(i.pcb, b, Extent(i.recv_data, i.got_fin), e)
    /\ i.pcb.inInput /\ (i.pcb.cb => u = Given(b))
    /\ i.reset \/ i.pcb.state = "SYN_RCVD" => i.recv_data = << >> /\ i.got_fin = FALSE

AcksSyn(seg) == seg.isAck /\ ~ seg.rst /\ seg.ack # LwipIss

Processed(i, a, u, e, seg) ==
    \/ i.aborted /\ ~ i.pcb.cb /\ After(i.pcb, a, e)
    \/ /\ Ready(i, Seen(i.pcb, a), u, e) /\ Grown(a, Seen(i.pcb, a))
       /\ Seen(i.pcb, a).opened => a.opened \/ AcksSyn(seg)

LEMMA SeenReady ==
  ASSUME NEW i, NEW a, NEW u, NEW e, NEW seg, Ready(i, a, u, e)
  PROVE  Processed(i, a, u, e, seg)
<1>1. PICK p : p = i.pcb
  OBVIOUS
<1>2. PICK b : b = Seen(p, a)
  OBVIOUS
<1>3. PICK k : k = Extent(i.recv_data, i.got_fin)
  OBVIOUS
<1>4. Mid(p, a, k, e)
  BY <1>1, <1>3 DEF Ready
<1>5. Mid(p, b, k, e) /\ Grown(a, b) /\ Given(b) = Given(a) /\ (b.opened => a.opened)
  BY <1>2, <1>4, SeenOK
<1>6. Ready(i, b, u, e)
  BY <1>1, <1>3, <1>5, Zenon DEF Ready
<1> QED
  BY <1>1, <1>2, <1>5, <1>6, Zenon DEF Processed

(* Nothing was taken. *)
LEMMA QuietReady ==
  ASSUME NEW i, NEW q, NEW a, NEW u, NEW e, NEW seg, InRec(i), i.pcb = q, Mid(q, a, 0, e), q.inInput,
         u = UpPos(q.rcv_nxt), i.aborted = FALSE, i.recv_data = << >>, i.got_fin = FALSE
  PROVE  Processed(i, a, u, e, seg)
<1>1. Fresh(i.recv_data, i.got_fin, u) /\ Extent(i.recv_data, i.got_fin) = 0
  BY NothingFresh
<1>2. q.cb => u = Given(a)
  <2>1. q.cb => u = Given(a) + 0
    BY MidFacts
  <2>2. Given(a) \in Int
    BY GivenIs DEF Mid
  <2> QED
    BY <2>1, <2>2
<1>3. Ready(i, a, u, e)
  BY <1>1, <1>2, Zenon DEF Ready
<1> QED
  BY <1>3, SeenReady

LEMMA QuietKept ==
  ASSUME NEW in, NEW i, NEW p, NEW q, NEW a, NEW u, NEW e, NEW seg, Quiet(in), p = in.pcb, p.inInput,
         Mid(p, a, 0, e), u = UpPos(p.rcv_nxt), Alive(q, a.wrote, e), Kept(p, q), i = [in EXCEPT !.pcb = q]
  PROVE  Processed(i, a, u, e, seg)
<1>1. SameFlags(in, i) /\ i.pcb = q
  BY PcbReplaced DEF Quiet
<1>2. i.recv_data = << >> /\ i.got_fin = FALSE /\ i.aborted = FALSE /\ InRec(i)
  BY <1>1 DEF SameFlags, Quiet
<1>3. Mid(q, a, 0, e)
  BY MidKept
<1>4. q.inInput = p.inInput /\ q.rcv_nxt = p.rcv_nxt
  BY DEF Kept, Kept0
<1>5. q.inInput /\ u = UpPos(q.rcv_nxt)
  BY <1>4, Zenon
<1> QED
  BY <1>1, <1>2, <1>3, <1>5, QuietReady


(* An ACK is owed. *)
LEMMA AckOwed ==
  ASSUME NEW p, NEW q, NEW w, NEW e, NEW k, DOMAIN p = Fields, Alive(p, w, e), q = [p EXCEPT !.ackNow = k]
  PROVE  Alive(q, w, e) /\ Kept(p, q)
<1>1. /\ Kept(p, q) /\ SameQueues(p, q) /\ q.snd_nxt = p.snd_nxt
      /\ q.right_edge = p.right_edge /\ q.out = p.out
  BY FieldSet DEF Kept, Kept0, SameQueues
<1> QED
  BY <1>1, AliveSame

LEMMA ResetInputOK ==
  ASSUME NEW in, NEW i, NEW p, NEW a, NEW u, NEW e, NEW seg, Quiet(in), p = in.pcb, p.inInput,
         Mid(p, a, 0, e), u = UpPos(p.rcv_nxt), i = ResetInput(in, seg)
  PROVE  Processed(i, a, u, e, seg)
<1>1. PICK k : k = (p.ackNow \/ TCP_SEQ_BETWEEN(seg.seq, p.rcv_nxt, SeqAdd(p.rcv_nxt, p.rcv_wnd)))
  OBVIOUS
<1>2. PICK q : q = [p EXCEPT !.ackNow = k]
  OBVIOUS
<1>3. PICK t : t = TRUE
  OBVIOUS
<1>4. i = [in EXCEPT !.reset = t] \/ i = [in EXCEPT !.pcb.ackNow = k]
  BY <1>1, <1>3, Zenon DEF ResetInput
<1>5. [in EXCEPT !.pcb.ackNow = k] = [in EXCEPT !.pcb = q]
  BY <1>2 DEF Quiet, InRec
<1>6. CASE i = [in EXCEPT !.reset = t]
  <2>1. InRec(i) /\ i.pcb = p /\ i.aborted = in.aborted /\ i.recv_data = in.recv_data /\ i.got_fin = in.got_fin
    BY <1>6 DEF Quiet, InRec
  <2>2. i.aborted = FALSE /\ i.recv_data = << >> /\ i.got_fin = FALSE
    BY <2>1, Zenon DEF Quiet
  <2> QED
    BY <2>1, <2>2, QuietReady
<1>7. CASE i = [in EXCEPT !.pcb.ackNow = k]
  <2>1. i = [in EXCEPT !.pcb = q]
    BY <1>5, <1>7, Zenon
  <2>2. DOMAIN p = Fields /\ Alive(p, a.wrote, e)
    BY MidFacts
  <2>3. Alive(q, a.wrote, e) /\ Kept(p, q)
    BY <1>2, <2>2, AckOwed
  <2> QED
    BY <2>1, <2>3, QuietKept
<1> QED
  BY <1>4, <1>6, <1>7

(* The tunnel is given the connection. *)
Opened(p) == [p EXCEPT !.state = "ESTABLISHED", !.cb = TRUE]

LEMMA OpenedMid ==
  ASSUME NEW p, NEW q, NEW a, NEW b, NEW e, Mid(p, a, 0, e), p.state = "SYN_RCVD",
         q = Opened(p), SameApp(a, b)
  PROVE  Mid(q, b, 0, e) /\ q.state = "ESTABLISHED" /\ q.inInput = p.inInput /\ q.rcv_nxt = p.rcv_nxt
<1>0. PICK t : t = TRUE
  OBVIOUS
<1>1. DOMAIN p = Fields /\ Alive(p, a.wrote, e) /\ AppOK(a) /\ PosOf(p.snd_lbb) = a.wrote + 1
  BY MidFacts DEF Open
<1>2. /\ ~ p.rxclosed /\ ~ p.closepend /\ ~ a.opened /\ UpPos(p.rcv_nxt) = 1 /\ p.rcv_wnd = TCP_WND
      /\ ~ p.cb
  BY DEF Mid, SynRcvd, Ctl
<1>3. /\ DOMAIN q = Fields /\ q.state = "ESTABLISHED" /\ q.cb = t /\ q.rxclosed = p.rxclosed
      /\ q.closepend = p.closepend /\ q.inInput = p.inInput /\ q.tfClosed = p.tfClosed /\ SameData(p, q)
  <2>1. q = [p EXCEPT !.state = "ESTABLISHED", !.cb = t]
    BY <1>0 DEF Opened
  <2> QED
    BY <1>1, <2>1, FieldSet DEF SameData, SameQueues
<1>4. q.cb /\ q.cb \in BOOLEAN
  BY <1>0, <1>3, Zenon
<1>5. Ctl(q)
  <2>1. q.state \in States /\ q.state \in {"ESTABLISHED", "CLOSE_WAIT"}
    BY <1>3 DEF States
  <2> QED
    BY <1>2, <1>3, <1>4, <2>1, Zenon DEF Ctl, Mid
<1>6. /\ AppOK(b) /\ b.opened /\ b.closed = a.closed /\ b.wrote = a.wrote /\ b.owed = a.owed
      /\ Given(b) = Given(a)
  BY Zenon DEF SameApp
<1>7. ~ a.closed /\ a.owed = 0 /\ Given(a) = 1
  BY <1>1, <1>2, GivenIs DEF AppOK
<1>8. q.cb <=> b.opened /\ ~ b.closed
  BY <1>4, <1>6, <1>7, Zenon
<1>9. q.snd_lbb = p.snd_lbb /\ q.rcv_nxt = p.rcv_nxt /\ q.rcv_wnd = p.rcv_wnd
  BY <1>3 DEF SameData
<1>10. HeldBy(q, b, 0)
  BY <1>1, <1>2, <1>6, <1>7, <1>9, Constants DEF HeldBy
<1>11. SynRcvd(q, b) /\ q.state # "CLOSED"
  BY <1>3, <1>6 DEF SynRcvd
<1>12. Alive(q, a.wrote, e)
  BY <1>1, <1>3, AliveData
<1>13. Mid(q, b, 0, e)
  BY <1>5, <1>6, <1>8, <1>10, <1>11, <1>12, Zenon DEF Mid
<1> QED
  BY <1>3, <1>9, <1>13


LEMMA SynNotAcked ==
  ASSUME NEW ack \in SeqNumbers, NEW s, TCP_SEQ_BETWEEN(ack, SeqAdd(LwipIss, 1), s)
  PROVE  ack # LwipIss
<1> SUFFICES ASSUME ack = LwipIss PROVE FALSE
  OBVIOUS
<1>1. PICK b : b = SeqAdd(LwipIss, 1)
  OBVIOUS
<1>2. SeqDiff(LwipIss, LwipIss) = 0 /\ 1 < SeqMod /\ LwipIss \in SeqNumbers
  BY DiffNear, Constants DEF SeqNumbers
<1>3. b \in SeqNumbers /\ SeqDiff(b, LwipIss) = 1
  BY <1>1, <1>2, AddPosition
<1>4. TCP_SEQ_LT(LwipIss, b)
  BY <1>2, <1>3, BeforePosition, Constants
<1> QED
  BY <1>1, <1>4 DEF TCP_SEQ_BETWEEN, TCP_SEQ_LEQ

LEMMA SynRcvdInputOK ==
  ASSUME NEW in, NEW i, NEW p, NEW a, NEW u, NEW e \in Int, NEW seg, NEW acc, Quiet(in), p = in.pcb, p.inInput,
         Mid(p, a, 0, e), p.state = "SYN_RCVD", u = UpPos(p.rcv_nxt), UpSeg(seg), ~ seg.rst,
         i = SynRcvdInput(in, seg, acc)
  PROVE  Processed(i, a, u, e, seg)
<1>1. DOMAIN p = Fields /\ Alive(p, a.wrote, e) /\ a.wrote \in 0..Down /\ AppOK(a)
  BY MidFacts
<1>2. ~ p.cb /\ ~ a.opened /\ p.lastack = LwipIss /\ u = 1
  BY DEF Mid, SynRcvd, Ctl
<1>3. seg \in SegType /\ seg.ack \in SeqNumbers /\ SegEnd(seg) \in SeqNumbers
  BY SegmentFields, SegEndType DEF UpSeg
<1>4. PICK t : t = TRUE
  OBVIOUS
<1>5. PICK o : o = [in EXCEPT !.pcb.state = "ESTABLISHED", !.pcb.cb = TRUE]
  OBVIOUS
<1>6. PICK r : r = tcp_receive(o, seg)
  OBVIOUS
<1>7. \/ i = in
      \/ i = [in EXCEPT !.pcb = tcp_rexmit(p)]
      \/ i = [in EXCEPT !.pcb = tcp_rst(p, seg.ack, SegEnd(seg))]
      \/ i = [in EXCEPT !.pcb = tcp_abandon(p), !.aborted = t]
      \/ /\ ~ seg.syn /\ seg.isAck /\ TCP_SEQ_BETWEEN(seg.ack, SeqAdd(LwipIss, 1), p.snd_nxt)
         /\ i = Advance(r, seg)
  BY <1>2, <1>4, <1>5, <1>6, Zenon DEF SynRcvdInput
<1>8. CASE i = in
  <2>1. InRec(i) /\ i.aborted = FALSE /\ i.recv_data = << >> /\ i.got_fin = FALSE
    BY <1>8 DEF Quiet
  <2> QED
    BY <1>8, <2>1, QuietReady
<1>9. CASE i = [in EXCEPT !.pcb = tcp_rexmit(p)]
  <2>1. PICK q : q = tcp_rexmit(p)
    OBVIOUS
  <2>2. Alive(q, a.wrote, e) /\ Kept(p, q)
    BY <1>1, <2>1, RexmitOK
  <2> QED
    BY <1>9, <2>1, <2>2, QuietKept
<1>10. CASE i = [in EXCEPT !.pcb = tcp_rst(p, seg.ack, SegEnd(seg))]
  <2>1. PICK q : q = tcp_rst(p, seg.ack, SegEnd(seg))
    OBVIOUS
  <2>2. Alive(q, a.wrote, e) /\ Kept(p, q)
    BY <1>1, <1>3, <2>1, RstOK
  <2> QED
    BY <1>10, <2>1, <2>2, QuietKept
<1>11. CASE i = [in EXCEPT !.pcb = tcp_abandon(p), !.aborted = t]
  <2>1. PICK q : q = tcp_abandon(p)
    OBVIOUS
  <2>2. FreedFrom(p, q, a.wrote, e)
    BY <1>1, <2>1, AbandonOK
  <2>3. Settled(p, a)
    BY <1>2, MidAfter, UnheldSettled
  <2>4. After(q, a, e)
    BY <1>1, <2>2, <2>3, FreedOK
  <2>5. ~ q.cb
    <3>1. PICK x : q = Freed(x)
      BY <2>2 DEF FreedFrom
    <3>2. q.cb = FALSE
      BY <3>1, FreedIs
    <3> QED
      BY <3>2, Zenon
  <2>6. i.pcb = q /\ i.aborted = t
    BY <1>11, <2>1 DEF Quiet, InRec
  <2> QED
    BY <1>4, <2>4, <2>5, <2>6, Zenon DEF Processed
<1>12. CASE /\ ~ seg.syn /\ seg.isAck /\ TCP_SEQ_BETWEEN(seg.ack, SeqAdd(LwipIss, 1), p.snd_nxt)
            /\ i = Advance(r, seg)
  <2>1. PICK q : q = Opened(p)
    OBVIOUS
  <2>2. o = [in EXCEPT !.pcb = q]
    BY <1>5, <2>1 DEF Quiet, InRec, Opened
  <2>3. SameFlags(in, o) /\ o.pcb = q
    BY <2>2, PcbReplaced DEF Quiet
  <2>4. /\ InRec(o) /\ o.recv_data = << >> /\ o.got_fin = FALSE /\ o.reset = FALSE /\ o.aborted = FALSE
    BY <2>3 DEF SameFlags, Quiet
  <2>5. PICK b : b = [a EXCEPT !.opened = TRUE]
    OBVIOUS
  <2>6. SameApp(a, b)
    BY <1>1, <2>5, AppOpened, Zenon
  <2>7. Mid(q, b, 0, e) /\ q.state = "ESTABLISHED" /\ q.inInput = p.inInput /\ q.rcv_nxt = p.rcv_nxt
    BY <2>1, <2>6, OpenedMid
  <2>8. Received(o, r, b, u, e)
    <3>1. q.state # "SYN_RCVD" /\ u = UpPos(q.rcv_nxt)
      BY <2>7
    <3> QED
      BY <1>6, <1>12, <2>3, <2>4, <2>7, <3>1, ReceiveOK
  <2>9. Received(o, i, b, u, e)
    BY <1>12, <2>8, AdvanceOK
  <2>10. b.opened /\ Given(b) = Given(a) /\ Grown(a, b) /\ ~ b.closed
    BY <1>1, <1>2, <2>6, Zenon DEF SameApp, AppOK
  <2>11. Given(a) = 1
    BY <1>1, <1>2, GivenIs
  <2>12. /\ InRec(i) /\ i.reset = FALSE /\ i.aborted = FALSE /\ i.pcb.state # "SYN_RCVD"
         /\ i.pcb.inInput /\ u = Given(b)
    BY <1>2, <2>3, <2>4, <2>7, <2>9, <2>10, <2>11, Zenon DEF Received
  <2>13. Ready(i, b, u, e)
    BY <2>9, <2>12, Zenon DEF Ready, Received
  <2>14. i.pcb.cb
    BY <2>9, <2>10, Zenon DEF Received, Mid
  <2>15. Seen(i.pcb, a) = b
    BY <2>5, <2>14, Zenon DEF Seen
  <2>16. AcksSyn(seg)
    BY <1>3, <1>12, SynNotAcked DEF AcksSyn
  <2> QED
    BY <2>10, <2>13, <2>15, <2>16, Zenon DEF Processed
<1> QED
  BY <1>7, <1>8, <1>9, <1>10, <1>11, <1>12


LEMMA ProcessOK ==
  ASSUME NEW in, NEW i, NEW p, NEW a, NEW u, NEW e \in Int, NEW seg, NEW acc, Quiet(in), p = in.pcb, p.inInput,
         Mid(p, a, 0, e), u = UpPos(p.rcv_nxt), UpSeg(seg), i = tcp_process(in, seg, acc)
  PROVE  Processed(i, a, u, e, seg)
<1>1. PICK o : o = [in EXCEPT !.pcb.persist_probe = 0]
  OBVIOUS
<1>2. PICK t : t = TRUE
  OBVIOUS
<1>3. PICK r : r = tcp_receive(o, seg)
  OBVIOUS
<1>4. \/ i = ResetInput(in, seg)
      \/ i = [in EXCEPT !.pcb.ackNow = t]
      \/ p.state = "SYN_RCVD" /\ ~ seg.rst /\ i = SynRcvdInput(o, seg, acc)
      \/ p.state # "SYN_RCVD" /\ ~ seg.rst /\ ~ seg.syn /\ i = Advance(r, seg)
  BY <1>1, <1>2, <1>3, Zenon DEF tcp_process
<1>5. DOMAIN p = Fields /\ Alive(p, a.wrote, e)
  BY MidFacts
<1>6. CASE i = ResetInput(in, seg)
  BY <1>6, ResetInputOK
<1>7. CASE i = [in EXCEPT !.pcb.ackNow = t]
  <2>1. PICK q : q = [p EXCEPT !.ackNow = t]
    OBVIOUS
  <2>2. i = [in EXCEPT !.pcb = q]
    BY <1>7, <2>1 DEF Quiet, InRec
  <2>3. Alive(q, a.wrote, e) /\ Kept(p, q)
    BY <1>5, <2>1, AckOwed
  <2> QED
    BY <2>2, <2>3, QuietKept
<1>8. PICK q : q = [p EXCEPT !.persist_probe = 0]
  OBVIOUS
<1>9. o = [in EXCEPT !.pcb = q]
  BY <1>1, <1>8 DEF Quiet, InRec
<1>10. SameFlags(in, o) /\ o.pcb = q
  BY <1>9, PcbReplaced DEF Quiet
<1>11. Quiet(o)
  BY <1>10 DEF SameFlags, Quiet
<1>12. Mid(q, a, 0, e) /\ q.state = p.state /\ q.inInput = p.inInput /\ q.rcv_nxt = p.rcv_nxt
  <2>1. /\ Kept(p, q) /\ SameQueues(p, q) /\ q.snd_nxt = p.snd_nxt
        /\ q.right_edge = p.right_edge /\ q.out = p.out
    BY <1>5, <1>8, FieldSet DEF Kept, Kept0, SameQueues
  <2>2. Alive(q, a.wrote, e)
    BY <1>5, <2>1, AliveSame
  <2> QED
    BY <2>1, <2>2, MidKept DEF Kept, Kept0
<1>13. q.inInput /\ u = UpPos(q.rcv_nxt)
  BY <1>12, Zenon
<1>14. CASE p.state = "SYN_RCVD" /\ ~ seg.rst /\ i = SynRcvdInput(o, seg, acc)
  BY <1>10, <1>11, <1>12, <1>13, <1>14, SynRcvdInputOK
<1>15. CASE p.state # "SYN_RCVD" /\ ~ seg.rst /\ ~ seg.syn /\ i = Advance(r, seg)
  <2>1. InRec(o) /\ o.recv_data = << >> /\ o.got_fin = FALSE /\ o.reset = FALSE /\ o.aborted = FALSE
    BY <1>11 DEF Quiet
  <2>2. q.state # "SYN_RCVD"
    BY <1>12, <1>15
  <2>3. Received(o, r, a, u, e)
    BY <1>3, <1>10, <1>12, <1>13, <1>15, <2>1, <2>2, ReceiveOK
  <2>4. Received(o, i, a, u, e)
    BY <1>15, <2>3, AdvanceOK
  <2>5. /\ InRec(i) /\ i.reset = FALSE /\ i.aborted = FALSE /\ i.pcb.state # "SYN_RCVD" /\ i.pcb.inInput
    BY <1>10, <1>13, <2>1, <2>4, Zenon DEF Received
  <2>6. i.pcb.cb => u = Given(a)
    <3>1. i.pcb.cb <=> q.cb
      BY <1>12, <2>4, Zenon DEF Received, Mid
    <3>2. q.cb => u = Given(a) + 0
      BY <1>12, <1>13, MidFacts
    <3>3. Given(a) \in Int
      BY GivenIs DEF Mid
    <3> QED
      BY <3>1, <3>2, <3>3
  <2>7. Ready(i, a, u, e)
    BY <2>4, <2>5, <2>6, Zenon DEF Ready, Received
  <2> QED
    BY <2>7, SeenReady
<1> QED
  BY <1>4, <1>6, <1>7, <1>14, <1>15


-----------------------------------------------------------------------------
(* The callbacks of tcp_input.                                             *)

(* What the callbacks make of the tunnel's object. *)
Fed(a, b) == AppOK(a) /\ AppOK(b) /\ Grown(a, b) /\ (b.opened => a.opened)

LEMMA FedTwice ==
  ASSUME NEW a, NEW b, NEW c, Fed(a, b), Fed(b, c)
  PROVE  Fed(a, c)
<1>1. AppOK(a) /\ AppOK(b) /\ AppOK(c) /\ Grown(a, b) /\ Grown(b, c) /\ (c.opened => a.opened)
  BY Zenon DEF Fed
<1>2. Grown(a, c)
  BY <1>1, GrownTwice
<1> QED
  BY <1>1, <1>2, Zenon DEF Fed

LEMMA FedSelf ==
  ASSUME NEW a, AppOK(a)
  PROVE  Fed(a, a)
  BY GrownSelf, Zenon DEF Fed

(* Without the callbacks nothing is pending. *)
LEMMA MidUnheld ==
  ASSUME NEW p, NEW a, NEW k, NEW e, Mid(p, a, k, e), ~ p.cb
  PROVE  \A j : Mid(p, a, j, e)
<1> SUFFICES ASSUME NEW j PROVE Mid(p, a, j, e)
  OBVIOUS
<1>1. HeldBy(p, a, j)
  BY Zenon DEF Mid, HeldBy
<1> QED
  BY <1>1, Zenon DEF Mid

(* The tunnel is given bytes. *)
FedWith(a, b, d) ==
    /\ Fed(a, b) /\ b.opened = a.opened /\ b.closed = a.closed /\ b.wrote = a.wrote
    /\ b.owed = a.owed + Len(d) /\ Given(b) = Given(a) + Len(d)

LEMMA AppGiven ==
  ASSUME NEW a, NEW b, NEW d, NEW f, NEW u, AppOK(a), a.opened, u = Given(a), Fresh(d, f, u), d # << >>,
         b = [a EXCEPT !.got = @ \o d, !.owed = @ + Len(d)]
  PROVE  FedWith(a, b, d)
<1>1. /\ a.got \in Seq(Nat) /\ a.owed \in Nat /\ a.fins \in 0..1 /\ Len(a.got) <= Up
      /\ (\A i \in 1..Len(a.got) : a.got[i] = i) /\ (a.fins = 1 => Len(a.got) = Up)
      /\ a.wrote \in 0..Down /\ a.errs \in 0..1
  BY DEF AppOK
<1>2. d \in Seq(Nat) /\ (\A j \in 1..Len(d) : d[j] = u + j - 1 /\ d[j] <= Up)
  BY DEF Fresh
<1>3. Len(d) \in Nat /\ Len(d) > 0 /\ Len(a.got) \in Nat
  BY <1>1, <1>2
<1>4. PICK n : n = Len(a.got)
  OBVIOUS
<1>5. PICK m : m = Len(d)
  OBVIOUS
<1>6. u = 1 + n + a.fins
  BY <1>4 DEF Given
<1>7. a.fins = 0
  <2>1. PICK x : x = d[1]
    OBVIOUS
  <2>2. x = u + 1 - 1 /\ x <= Up
    BY <1>2, <1>3, <2>1
  <2>3. n \in Nat /\ a.fins \in 0..1 /\ (a.fins = 1 => n = Up) /\ Up \in Nat
    BY <1>1, <1>3, <1>4, Constants
  <2>4. PICK y : y = a.fins
    OBVIOUS
  <2>5. y = 0
    BY <1>6, <2>2, <2>3, <2>4
  <2> QED
    BY <2>4, <2>5
<1>8. n + m <= Up
  <2>1. PICK x : x = d[m]
    OBVIOUS
  <2>2. x = u + m - 1 /\ x <= Up
    BY <1>2, <1>3, <1>5, <2>1
  <2>3. n \in Nat /\ m \in Nat /\ u = 1 + n /\ Up \in Nat
    BY <1>3, <1>4, <1>5, <1>6, <1>7, Constants
  <2> QED
    BY <2>2, <2>3
<1>9. PICK g : g = a.got \o d
  OBVIOUS
<1>10. PICK o : o = a.owed + Len(d)
  OBVIOUS
<1>11. b = [a EXCEPT !.got = g, !.owed = o]
  BY <1>9, <1>10, Zenon
<1>12. g \in Seq(Nat) /\ Len(g) = n + m /\ \A i \in 1..Len(g) : g[i] = i
  <2>1. g \in Seq(Nat) /\ Len(g) = n + m
    BY <1>1, <1>2, <1>4, <1>5, <1>9
  <2>2. ASSUME NEW i \in 1..(n + m) PROVE g[i] = i
    <3>1. CASE i <= n
      BY <1>1, <1>2, <1>3, <1>4, <1>5, <1>9, <3>1
    <3>2. CASE i > n
      <4>1. i - n \in 1..m /\ g[i] = d[i - n]
        BY <1>1, <1>2, <1>3, <1>4, <1>5, <1>9, <3>2, SMTT(30)
      <4>2. d[i - n] = u + (i - n) - 1
        BY <1>2, <1>5, <4>1
      <4>3. n \in Nat /\ u = 1 + n
        BY <1>3, <1>4, <1>6, <1>7
      <4> QED
        BY <4>1, <4>2, <4>3
    <3> QED
      BY <1>3, <1>4, <3>1, <3>2
  <2> QED
    BY <2>1, <2>2
<1>13. /\ DOMAIN b = DOMAIN a /\ b.wrote = a.wrote /\ b.opened = a.opened /\ b.closed = a.closed
       /\ b.got = g /\ b.owed = o /\ b.fins = a.fins /\ b.errs = a.errs
  BY <1>11, AppFields
<1>14. /\ b.wrote \in 0..Down /\ b.owed \in Nat /\ b.got \in Seq(Nat) /\ b.fins \in 0..1 /\ b.errs \in 0..1
       /\ Len(b.got) <= Up /\ (\A i \in 1..Len(b.got) : b.got[i] = i) /\ (b.fins = 1 => Len(b.got) = Up)
  <2>1. o \in Nat /\ Len(g) <= Up /\ a.fins # 1
    BY <1>1, <1>3, <1>7, <1>8, <1>10, <1>12
  <2>2. b.wrote \in 0..Down /\ b.owed \in Nat /\ b.got \in Seq(Nat) /\ b.fins \in 0..1 /\ b.errs \in 0..1
    BY <1>1, <1>12, <1>13, <2>1, Zenon
  <2>3. Len(b.got) <= Up /\ (\A i \in 1..Len(b.got) : b.got[i] = i) /\ b.fins # 1
    BY <1>12, <1>13, <2>1, Zenon
  <2> QED
    BY <2>2, <2>3, Zenon
<1>15. /\ DOMAIN b = DOMAIN AppInit /\ b.opened \in BOOLEAN /\ b.closed \in BOOLEAN /\ b.opened
       /\ (b.closed => b.opened) /\ (b.errs > 0 => b.closed)
  BY <1>13, Zenon DEF AppOK
<1>16. AppOK(b)
  BY <1>14, <1>15, Zenon DEF AppOK
<1>17. Given(b) = Given(a) + Len(d)
  <2>1. Given(b) = 1 + (n + m) + a.fins
    BY <1>12, <1>13 DEF Given
  <2> QED
    BY <1>3, <1>4, <1>5, <1>6, <1>7, <2>1
<1>18. a.wrote <= b.wrote /\ Given(a) <= Given(b)
  <2>1. Given(a) \in Int /\ a.wrote \in Int
    BY GivenIs
  <2> QED
    BY <1>3, <1>13, <1>17, <2>1
<1>19. Grown(a, b)
  BY <1>13, <1>18, Zenon DEF Grown
<1> QED
  BY <1>10, <1>13, <1>16, <1>17, <1>19, Zenon DEF Fed, FedWith

(* The tunnel is told of the client's FIN. *)
LEMMA AppFinned ==
  ASSUME NEW a, NEW b, AppOK(a), a.opened, Given(a) = Up + 1, b = [a EXCEPT !.fins = @ + 1]
  PROVE  /\ Fed(a, b) /\ b.opened = a.opened /\ b.closed = a.closed /\ b.wrote = a.wrote
         /\ b.owed = a.owed /\ Given(b) = Given(a) + 1
<1>1. /\ a.got \in Seq(Nat) /\ a.owed \in Nat /\ a.fins \in 0..1 /\ Len(a.got) <= Up
      /\ (\A i \in 1..Len(a.got) : a.got[i] = i) /\ (a.fins = 1 => Len(a.got) = Up)
      /\ a.wrote \in 0..Down /\ a.errs \in 0..1
  BY DEF AppOK
<1>2. Len(a.got) \in Nat
  BY <1>1
<1>3. a.fins = 0 /\ Len(a.got) = Up
  <2>1. PICK y : y = a.fins
    OBVIOUS
  <2>2. PICK n : n = Len(a.got)
    OBVIOUS
  <2>3. 1 + n + y = Up + 1
    BY <2>1, <2>2 DEF Given
  <2>4. y \in 0..1 /\ n \in Nat /\ n <= Up /\ Up \in Nat /\ (y = 1 => n = Up)
    BY <1>1, <1>2, <2>1, <2>2, Constants
  <2> QED
    BY <2>1, <2>2, <2>3, <2>4
<1>4. b = [a EXCEPT !.fins = 1]
  BY <1>3
<1>5. /\ DOMAIN b = DOMAIN a /\ b.wrote = a.wrote /\ b.opened = a.opened /\ b.closed = a.closed
      /\ b.got = a.got /\ b.owed = a.owed /\ b.fins = 1 /\ b.errs = a.errs
  BY <1>4, AppFields
<1>6. /\ b.wrote \in 0..Down /\ b.owed \in Nat /\ b.got \in Seq(Nat) /\ b.fins \in 0..1 /\ b.errs \in 0..1
      /\ Len(b.got) <= Up /\ (\A i \in 1..Len(b.got) : b.got[i] = i) /\ (b.fins = 1 => Len(b.got) = Up)
  BY <1>1, <1>3, <1>5
<1>7. /\ DOMAIN b = DOMAIN AppInit /\ b.opened \in BOOLEAN /\ b.closed \in BOOLEAN /\ b.opened
      /\ (b.closed => b.opened) /\ (b.errs > 0 => b.closed)
  BY <1>5, Zenon DEF AppOK
<1>8. AppOK(b)
  BY <1>6, <1>7, Zenon DEF AppOK
<1>9. Given(b) = Given(a) + 1
  BY <1>2, <1>3, <1>5 DEF Given
<1>10. a.wrote <= b.wrote /\ Given(a) <= Given(b)
  BY <1>1, <1>5, <1>9, GivenIs, Constants, SMTT(30)
<1>11. Grown(a, b)
  BY <1>5, <1>10, Zenon DEF Grown
<1> QED
  BY <1>5, <1>8, <1>9, <1>11, Zenon DEF Fed


WRec(w) == DOMAIN w = {"in", "app"}

(* A step of tcp_input that replaces the control block and the object. *)
Stepped(w, v, q, b) == WRec(v) /\ SameFlags(w.in, v.in) /\ v.in.pcb = q /\ v.app = b

LEMMA ReadyStep ==
  ASSUME NEW w, NEW v, NEW p, NEW q, NEW a, NEW b, NEW u, NEW e, NEW k, Ready(w.in, a, u, e), Stepped(w, v, q, b),
         p = w.in.pcb, k = Extent(w.in.recv_data, w.in.got_fin), Mid(q, b, k, e), Given(b) = Given(a),
         q.state = p.state, q.inInput = p.inInput, q.cb = p.cb
  PROVE  Ready(v.in, b, u, e)
<1>1. PICK i : i = w.in
  OBVIOUS
<1>2. PICK j : j = v.in
  OBVIOUS
<1>3. /\ InRec(j) /\ j.pcb = q /\ j.recv_data = i.recv_data /\ j.got_fin = i.got_fin
      /\ j.reset = i.reset /\ j.aborted = i.aborted
  BY <1>1, <1>2 DEF Stepped, SameFlags
<1>4. Ready(i, a, u, e) /\ p = i.pcb /\ k = Extent(i.recv_data, i.got_fin)
  BY <1>1
<1>5. /\ j.aborted = FALSE /\ Fresh(j.recv_data, j.got_fin, u) /\ Mid(j.pcb, b, Extent(j.recv_data, j.got_fin), e)
  BY <1>3, <1>4, Zenon DEF Ready
<1>6. j.pcb.inInput /\ (j.pcb.cb => u = Given(b))
  BY <1>3, <1>4, Zenon DEF Ready
<1>7. j.reset \/ j.pcb.state = "SYN_RCVD" => j.recv_data = << >> /\ j.got_fin = FALSE
  BY <1>3, <1>4, Zenon DEF Ready
<1> QED
  BY <1>2, <1>3, <1>5, <1>6, <1>7, Zenon DEF Ready

(* tcp_sent_cb: the tunnel writes into the room. *)
LEMMA SentOK ==
  ASSUME NEW w, NEW v, NEW r, NEW u, NEW e \in Int, WRec(w), Ready(w.in, w.app, u, e), r.write \in Nat,
         v = tcp_sent_cb(w, r)
  PROVE  WRec(v) /\ Ready(v.in, v.app, u, e) /\ Fed(w.app, v.app)
<1>1. PICK i : i = w.in
  OBVIOUS
<1>2. PICK p : p = i.pcb
  OBVIOUS
<1>3. PICK a : a = w.app
  OBVIOUS
<1>4. PICK n : n = r.write
  OBVIOUS
<1>5. PICK q : q = Written(p, a, n)
  OBVIOUS
<1>6. PICK k : k = Extent(i.recv_data, i.got_fin)
  OBVIOUS
<1>7. Mid(p, a, k, e) /\ InRec(i) /\ AppOK(a)
  BY <1>1, <1>2, <1>3, <1>6 DEF Ready, Mid
<1>8. \/ v = w
      \/ /\ p.cb /\ CanWrite(p, a, n)
         /\ v = [w EXCEPT !.in.pcb = q, !.app.wrote = a.wrote + n]
  BY <1>1, <1>2, <1>3, <1>4, <1>5, Zenon DEF tcp_sent_cb
<1>9. CASE v = w
  BY <1>3, <1>7, <1>9, FedSelf
<1>10. CASE /\ p.cb /\ CanWrite(p, a, n)
            /\ v = [w EXCEPT !.in.pcb = q, !.app.wrote = a.wrote + n]
  <2>1. PICK b : b = [a EXCEPT !.wrote = @ + n]
    OBVIOUS
  <2>2. PICK j : j = [i EXCEPT !.pcb = q]
    OBVIOUS
  <2>3. v = [w EXCEPT !.in = j, !.app = b]
    BY <1>1, <1>3, <1>10, <2>1, <2>2 DEF WRec
  <2>4. WRec(v) /\ v.in = j /\ v.app = b
    BY <2>3 DEF WRec
  <2>5. SameFlags(i, j) /\ j.pcb = q
    BY <1>7, <2>2, PcbReplaced
  <2>6. Stepped(w, v, q, b)
    BY <1>1, <2>4, <2>5 DEF Stepped
  <2>7. a.wrote + n <= Down /\ a.opened /\ n \in Nat
    BY <1>4, <1>7, <1>10, MidFacts DEF CanWrite
  <2>8. WroteMore(a, b, n)
    BY <1>7, <2>1, <2>7, AppWrote, Zenon
  <2>9. Mid(q, b, k, e) /\ Kept0(p, q) /\ Grown(a, b) /\ b.opened = a.opened /\ Given(b) = Given(a)
    BY <1>5, <1>7, <1>10, <2>7, <2>8, MidWritten, ZenonT(30)
  <2>10. q.state = p.state /\ q.inInput = p.inInput /\ q.cb = p.cb
    BY <2>9 DEF Kept0
  <2>11. Ready(w.in, a, u, e) /\ p = w.in.pcb /\ k = Extent(w.in.recv_data, w.in.got_fin)
    BY <1>1, <1>2, <1>3, <1>6
  <2>12. Ready(v.in, b, u, e)
    BY <2>6, <2>9, <2>10, <2>11, ReadyStep
  <2>13. AppOK(b)
    BY <2>9 DEF Mid
  <2>14. Fed(a, b)
    BY <1>7, <2>9, <2>13, Zenon DEF Fed
  <2> QED
    BY <1>3, <2>4, <2>12, <2>14
<1> QED
  BY <1>8, <1>9, <1>10


(* The control block is freed and the tunnel knows. *)
Ended(v, e) == WRec(v) /\ InRec(v.in) /\ v.in.aborted /\ After(v.in.pcb, v.app, e)

LEMMA EndedIs ==
  ASSUME NEW w, NEW v, NEW q, NEW b, NEW t, NEW e, WRec(w), InRec(w.in), t = TRUE,
         v = [w EXCEPT !.app = b, !.in.pcb = q, !.in.aborted = t], After(q, b, e)
  PROVE  Ended(v, e) /\ v.app = b /\ v.in.pcb = q
<1>1. PICK i : i = w.in
  OBVIOUS
<1>2. PICK j : j = [i EXCEPT !.pcb = q, !.aborted = t]
  OBVIOUS
<1>3. v = [w EXCEPT !.app = b, !.in = j]
  BY <1>1, <1>2 DEF WRec
<1>4. WRec(v) /\ v.in = j /\ v.app = b
  BY <1>3 DEF WRec
<1>5. InRec(j) /\ j.pcb = q /\ j.aborted = t
  BY <1>1, <1>2 DEF InRec
<1>6. v.in.aborted
  BY <1>4, <1>5, Zenon
<1> QED
  BY <1>4, <1>5, <1>6, Zenon DEF Ended

LEMMA FreedMid ==
  ASSUME NEW p, NEW q, NEW a, NEW b, NEW k, NEW e \in Int, Mid(p, a, k, e), FreedFrom(p, q, a.wrote, e),
         AppOK(b), b.wrote = a.wrote, b.closed \/ (~ p.cb /\ b = a)
  PROVE  After(q, b, e)
<1>1. Settled(p, b)
  <2>1. CASE b.closed
    BY <2>1 DEF Settled
  <2>2. CASE ~ p.cb /\ b = a
    <3>1. Mid(p, a, 0, e)
      BY <2>2, MidUnheld
    <3>2. After(p, a, e) /\ p.state # "CLOSED"
      BY <3>1, MidAfter
    <3> QED
      BY <2>2, <3>2, UnheldSettled
  <2> QED
    BY <2>1, <2>2
<1> QED
  BY <1>1, FreedOK

LEMMA DelayedOK ==
  ASSUME NEW w, NEW v, NEW k, NEW e \in Int, WRec(w), InRec(w.in), Mid(w.in.pcb, w.app, k, e),
         v = tcp_input_delayed_close(w)
  PROVE  v = w \/ (Ended(v, e) /\ Fed(w.app, v.app))
<1>1. PICK i : i = w.in
  OBVIOUS
<1>2. PICK p : p = i.pcb
  OBVIOUS
<1>3. PICK a : a = w.app
  OBVIOUS
<1>4. PICK b : b = IF p.rxclosed THEN a ELSE tcp_err_cb(p, a)
  OBVIOUS
<1>5. PICK q : q = Freed(p)
  OBVIOUS
<1>6. PICK t : t = TRUE
  BY SMTT(30)
<1>7. v = w \/ v = [w EXCEPT !.app = b, !.in.pcb = q, !.in.aborted = t]
  BY <1>1, <1>2, <1>3, <1>4, <1>5, <1>6, ZenonT(30) DEF tcp_input_delayed_close
<1>8. CASE v = [w EXCEPT !.app = b, !.in.pcb = q, !.in.aborted = t]
  <2>1. Mid(p, a, k, e)
    BY <1>1, <1>2, <1>3
  <2>2. AppOK(a) /\ Alive(p, a.wrote, e) /\ (p.cb => ~ p.rxclosed) /\ (p.cb => a.opened /\ ~ a.closed)
    BY <2>1, MidFacts
  <2>3. AppOK(b) /\ Grown(a, b) /\ b.wrote = a.wrote /\ (b.opened => a.opened) /\ (b.closed \/ (~ p.cb /\ b = a))
    <3>1. CASE p.rxclosed
      BY <1>4, <2>2, <3>1, GrownSelf
    <3>2. CASE ~ p.rxclosed
      <4>1. b = tcp_err_cb(p, a)
        BY <1>4, <3>2
      <4>2. AppOK(b) /\ Grown(a, b) /\ b.wrote = a.wrote /\ (b.opened => a.opened) /\ (p.cb => b.closed)
            /\ (~ p.cb => b = a)
        BY <2>2, <4>1, ErrOK
      <4> QED
        BY <4>2, Zenon
    <3> QED
      BY <3>1, <3>2
  <2>4. FreedFrom(p, q, a.wrote, e)
    BY <1>5, <2>2 DEF FreedFrom, Alive
  <2>5. After(q, b, e)
    BY <2>1, <2>3, <2>4, FreedMid
  <2>6. Ended(v, e) /\ v.app = b
    BY <1>6, <1>8, <2>5, EndedIs, Zenon
  <2>7. Fed(a, b)
    BY <2>2, <2>3, Zenon DEF Fed
  <2> QED
    BY <1>3, <2>6, <2>7
<1> QED
  BY <1>7, <1>8


(* Of what a segment brought, the FIN is left. *)
Fin(f) == IF f THEN 1 ELSE 0

Finning(w, e) ==
    /\ WRec(w) /\ InRec(w.in) /\ w.in.aborted = FALSE /\ w.in.got_fin \in BOOLEAN
    /\ Mid(w.in.pcb, w.app, Fin(w.in.got_fin), e) /\ w.in.pcb.inInput
    /\ w.in.got_fin => /\ w.in.pcb.state # "SYN_RCVD"
                       /\ w.in.pcb.cb => Given(w.app) = Up + 1

LEMMA FinningStep ==
  ASSUME NEW w, NEW v, NEW q, NEW b, NEW e, NEW f, InRec(w.in), Stepped(w, v, q, b), f = w.in.got_fin,
         w.in.aborted = FALSE, f \in BOOLEAN, Mid(q, b, Fin(f), e), q.inInput,
         f => q.state # "SYN_RCVD" /\ (q.cb => Given(b) = Up + 1)
  PROVE  Finning(v, e)
<1>1. WRec(v) /\ InRec(v.in) /\ v.in.got_fin = f /\ v.in.aborted = w.in.aborted /\ v.in.pcb = q /\ v.app = b
  BY DEF Stepped, SameFlags
<1> QED
  BY <1>1, Zenon DEF Finning

(* rejectGracefully, in the receive callback. *)
LEMMA RejectMid ==
  ASSUME NEW p, NEW q, NEW b, NEW c, NEW k \in Nat, NEW e \in Int, NEW mem, Mid(p, b, k, e), p.cb, p.inInput,
         q = lwip_bridge_tcp_close(tcp_recved(p, b.owed), mem), c = [b EXCEPT !.closed = TRUE]
  PROVE  Mid(q, c, k, e) /\ q.inInput /\ Fed(b, c) /\ ~ q.cb /\ q.state # "SYN_RCVD"
<1>1. AppOK(b) /\ b.opened /\ p.state \in {"ESTABLISHED", "CLOSE_WAIT"} /\ b.owed \in Nat
  BY MidFacts DEF AppOK
<1>2. PICK n : n = b.owed
  OBVIOUS
<1>3. PICK z : z = [b EXCEPT !.owed = @ - n]
  OBVIOUS
<1>4. n \in Nat /\ n <= b.owed
  BY <1>1, <1>2
<1>5. /\ AppOK(z) /\ z.wrote = b.wrote /\ Given(z) = Given(b)
      /\ z.opened = b.opened /\ z.closed = b.closed /\ z.owed = b.owed - n
  <2>1. TookOf(b, z, n)
    BY <1>1, <1>3, <1>4, AppTakes, Zenon
  <2> QED
    BY <2>1, Zenon DEF TookOf
<1>6. PICK s : s = tcp_recved(p, n)
  OBVIOUS
<1>7. p.state # "SYN_RCVD"
  BY <1>1
<1>8. Mid(s, z, k, e) /\ KeptWnd(p, s)
  BY <1>4, <1>5, <1>6, <1>7, RecvedMid
<1>9. s.cb /\ s.inInput
  BY <1>8, Zenon DEF KeptWnd
<1>10. AppOK(c) /\ Grown(b, c) /\ c.closed /\ c.wrote = b.wrote /\ c.opened
  BY <1>1, AppShuts, Zenon
<1>11. q = lwip_bridge_tcp_close(s, mem)
  BY <1>2, <1>6
<1>12. CloseLeft(s, q, c, e)
  BY <1>5, <1>8, <1>9, <1>10, <1>11, CloseMid
<1>13. (\A j : Mid(q, c, j, e)) /\ q.inInput
  BY <1>9, <1>12, Zenon DEF CloseLeft
<1>14. ~ q.cb
  BY <1>10, <1>13, Zenon DEF Mid
<1>15. Fed(b, c)
  BY <1>1, <1>10, Zenon DEF Fed
<1>16. q.state # "SYN_RCVD"
  <2>1. Mid(q, c, k, e)
    BY <1>13
  <2> QED
    BY <1>10, <2>1 DEF Mid, SynRcvd
<1> QED
  BY <1>13, <1>14, <1>15, <1>16

LEMMA GivenMid ==
  ASSUME NEW p, NEW a, NEW b, NEW d, NEW k \in Nat, NEW m, NEW e, Mid(p, a, m, e), p.cb, Len(d) \in Nat,
         m = Len(d) + k, AppOK(b), b.opened = a.opened, b.closed = a.closed, b.wrote = a.wrote,
         b.owed = a.owed + Len(d), Given(b) = Given(a) + Len(d)
  PROVE  Mid(p, b, k, e)
<1>1. Ctl(p) /\ p.state # "CLOSED" /\ (p.cb <=> b.opened /\ ~ b.closed) /\ Alive(p, a.wrote, e)
  BY Zenon DEF Mid
<1>2. /\ UpPos(p.rcv_nxt) = Given(a) + m /\ p.rcv_wnd + a.owed + m = TCP_WND
      /\ PosOf(p.snd_lbb) = a.wrote + 1 /\ p.state \in {"ESTABLISHED", "CLOSE_WAIT"} /\ AppOK(a) /\ a.opened
  BY MidFacts
<1>3. a.owed \in Int /\ Given(a) \in Int /\ p.rcv_wnd \in Int
  <2>1. p.rcv_wnd \in 0..TCP_WND
    BY <1>1, AliveQueueFacts
  <2>2. a.owed \in Nat
    BY <1>2 DEF AppOK
  <2>3. Given(a) \in Int
    BY <1>2, GivenIs
  <2> QED
    BY <2>1, <2>2, <2>3, Constants
<1>4. UpPos(p.rcv_nxt) = Given(b) + k /\ p.rcv_wnd + b.owed + k = TCP_WND
  BY <1>2, <1>3, SMTT(30)
<1>5. HeldBy(p, b, k)
  BY <1>2, <1>4 DEF HeldBy
<1>6. SynRcvd(p, b)
  BY <1>2 DEF SynRcvd
<1> QED
  BY <1>1, <1>5, <1>6, Zenon DEF Mid


(* tcp_recv_cb. *)
LEMMA RecvCbOK ==
  ASSUME NEW w, NEW v, NEW r, NEW u, NEW e \in Int, WRec(w), Ready(w.in, w.app, u, e), v = tcp_recv_cb(w, r)
  PROVE  (Finning(v, e) \/ Ended(v, e)) /\ Fed(w.app, v.app)
<1>1. PICK i : i = w.in
  OBVIOUS
<1>2. PICK p : p = i.pcb
  OBVIOUS
<1>3. PICK a : a = w.app
  OBVIOUS
<1>4. PICK d : d = i.recv_data
  OBVIOUS
<1>5. PICK f : f = i.got_fin
  OBVIOUS
<1>6. PICK k : k = Fin(f)
  OBVIOUS
<1>7. PICK m : m = Len(d)
  OBVIOUS
<1>8. /\ InRec(i) /\ i.aborted = FALSE /\ Fresh(d, f, u) /\ Mid(p, a, Extent(d, f), e) /\ p.inInput
      /\ (p.cb => u = Given(a)) /\ (p.state = "SYN_RCVD" => d = << >> /\ f = FALSE)
  BY <1>1, <1>2, <1>3, <1>4, <1>5, Zenon DEF Ready
<1>9. d \in Seq(Nat) /\ f \in BOOLEAN /\ (f => u + Len(d) = Up + 1)
  BY <1>8 DEF Fresh
<1>10. k \in Nat /\ m \in Nat /\ Extent(d, f) = m + k
  BY <1>6, <1>7, <1>9 DEF Fin, Extent
<1>11. Mid(p, a, m + k, e) /\ AppOK(a) /\ DOMAIN p = Fields /\ Alive(p, a.wrote, e)
  BY <1>8, <1>10, MidFacts
<1>12. f => p.state # "SYN_RCVD"
  BY <1>8, Zenon
<1>13. PICK b : b = [a EXCEPT !.got = @ \o d, !.owed = @ + m]
  OBVIOUS
<1>14. PICK c : c = [b EXCEPT !.closed = TRUE]
  OBVIOUS
<1>15. PICK t : t = TRUE
  OBVIOUS
<1>16. PICK g : g = [w EXCEPT !.app.got = @ \o d, !.app.owed = @ + m]
  OBVIOUS
<1>17. \/ d = << >> /\ v = w
       \/ p.rxclosed /\ v = [w EXCEPT !.in.pcb = tcp_abandon(p), !.in.aborted = t]
       \/ d # << >> /\ ~ p.cb /\ v = [w EXCEPT !.in.pcb = tcp_recved(p, m)]
       \/ d # << >> /\ p.cb /\ v = Reject(g, r.mem)
       \/ d # << >> /\ p.cb /\ v = g
  BY <1>1, <1>2, <1>4, <1>7, <1>15, <1>16, Zenon DEF tcp_recv_cb
<1>18. CASE d = << >> /\ v = w
  <2>1. m + k = k
    BY <1>7, <1>10, <1>18
  <2>2. Mid(p, a, k, e)
    BY <1>11, <2>1
  <2>3. (f /\ p.cb) => Given(a) = Up + 1
    <3> SUFFICES ASSUME f, p.cb PROVE Given(a) = Up + 1
      OBVIOUS
    <3>1. Given(a) + Len(d) = Up + 1 /\ Given(a) \in Int
      BY <1>8, <1>9, <1>11, GivenIs
    <3> QED
      BY <1>18, <3>1
  <2>4. Finning(v, e)
    BY <1>1, <1>2, <1>3, <1>5, <1>6, <1>8, <1>9, <1>12, <1>18, <2>2, <2>3, Zenon DEF Finning
  <2> QED
    BY <1>3, <1>11, <1>18, <2>4, FedSelf
<1>19. CASE p.rxclosed /\ v = [w EXCEPT !.in.pcb = tcp_abandon(p), !.in.aborted = t]
  <2>1. PICK q : q = tcp_abandon(p)
    OBVIOUS
  <2>2. FreedFrom(p, q, a.wrote, e)
    BY <1>11, <2>1, AbandonOK
  <2>3. ~ p.cb
    BY <1>11, <1>19, MidFacts
  <2>4. After(q, a, e)
    BY <1>11, <2>2, <2>3, FreedMid
  <2>5. v = [w EXCEPT !.app = a, !.in.pcb = q, !.in.aborted = t]
    BY <1>3, <1>19, <2>1 DEF WRec
  <2>6. Ended(v, e) /\ v.app = a
    <3>1. InRec(w.in)
      BY <1>1, <1>8
    <3> QED
      BY <1>15, <2>4, <2>5, <3>1, EndedIs, Zenon
  <2> QED
    BY <1>3, <1>11, <2>6, FedSelf
<1>20. CASE d # << >> /\ ~ p.cb /\ v = [w EXCEPT !.in.pcb = tcp_recved(p, m)]
  <2>1. PICK q : q = tcp_recved(p, m)
    OBVIOUS
  <2>2. Mid(p, a, k, e) /\ p.state # "SYN_RCVD"
    BY <1>8, <1>11, <1>20, MidUnheld
  <2>3. Mid(q, a, k, e) /\ KeptWnd(p, q)
    <3>1. ~ p.cb
      BY <1>20
    <3> QED
      BY <1>10, <1>11, <2>1, <2>2, <3>1, RecvedMid, Zenon
  <2>4. q.cb = p.cb /\ q.inInput = p.inInput /\ q.state = p.state
    BY <2>3 DEF KeptWnd
  <2>5. PICK j : j = [i EXCEPT !.pcb = q]
    OBVIOUS
  <2>6. SameFlags(i, j) /\ j.pcb = q
    BY <1>8, <2>5, PcbReplaced
  <2>7. v = [w EXCEPT !.in = j]
    BY <1>1, <1>20, <2>1, <2>5 DEF WRec
  <2>8. WRec(v) /\ v.in = j /\ v.app = a
    BY <1>3, <2>7 DEF WRec
  <2>9. Stepped(w, v, q, a)
    BY <1>1, <2>6, <2>8 DEF Stepped
  <2>10. ~ q.cb /\ q.inInput /\ q.state # "SYN_RCVD"
    BY <1>8, <1>20, <2>2, <2>4, Zenon
  <2>11. InRec(w.in) /\ f = w.in.got_fin /\ w.in.aborted = FALSE /\ Mid(q, a, Fin(f), e)
    BY <1>1, <1>5, <1>6, <1>8, <2>3
  <2>12. Finning(v, e)
    BY <1>9, <2>9, <2>10, <2>11, FinningStep
  <2> QED
    BY <1>3, <1>11, <2>8, <2>12, FedSelf
<1>21. ASSUME d # << >>, p.cb
       PROVE  /\ Mid(p, b, k, e) /\ Fed(a, b) /\ (f => Given(b) = Up + 1)
              /\ WRec(g) /\ g.in = i /\ g.app = b
  <2>1. a.opened /\ u = Given(a)
    BY <1>8, <1>11, <1>21, MidFacts
  <2>2. b = [a EXCEPT !.got = @ \o d, !.owed = @ + Len(d)]
    BY <1>7, <1>13
  <2>3. /\ Fed(a, b) /\ b.opened = a.opened /\ b.closed = a.closed /\ b.wrote = a.wrote
        /\ b.owed = a.owed + Len(d) /\ Given(b) = Given(a) + Len(d)
    <3>1. FedWith(a, b, d)
      BY <1>8, <1>11, <1>21, <2>1, <2>2, AppGiven, Zenon
    <3> QED
      BY <3>1, Zenon DEF FedWith
  <2>4. AppOK(b)
    BY <2>3 DEF Fed
  <2>5. Mid(p, b, k, e)
    BY <1>7, <1>10, <1>11, <1>21, <2>3, <2>4, GivenMid
  <2>6. f => Given(b) = Up + 1
    BY <1>9, <2>1, <2>3
  <2>7. g = [w EXCEPT !.app = b]
    BY <1>3, <1>11, <1>13, <1>16, AppFields DEF WRec
  <2>8. WRec(g) /\ g.in = i /\ g.app = b
    BY <1>1, <2>7 DEF WRec
  <2> QED
    BY <2>3, <2>5, <2>6, <2>8
<1>22. CASE d # << >> /\ p.cb /\ v = g
  <2>1. Finning(v, e)
    BY <1>2, <1>5, <1>6, <1>8, <1>9, <1>12, <1>21, <1>22, Zenon DEF Finning
  <2> QED
    BY <1>3, <1>21, <1>22, <2>1
<1>23. CASE d # << >> /\ p.cb /\ v = Reject(g, r.mem)
  <2>1. WRec(g) /\ g.in = i /\ g.app = b /\ Mid(p, b, k, e) /\ Fed(a, b)
    BY <1>21, <1>23
  <2>2. PICK q : q = lwip_bridge_tcp_close(tcp_recved(p, b.owed), r.mem)
    OBVIOUS
  <2>3. Mid(q, c, k, e) /\ q.inInput /\ Fed(b, c) /\ ~ q.cb /\ q.state # "SYN_RCVD"
    BY <1>8, <1>10, <1>14, <1>23, <2>1, <2>2, RejectMid, Zenon
  <2>4. v = [g EXCEPT !.in.pcb = q, !.app.closed = t]
    BY <1>2, <1>15, <1>23, <2>1, <2>2, Zenon DEF Reject
  <2>5. PICK j : j = [i EXCEPT !.pcb = q]
    OBVIOUS
  <2>6. SameFlags(i, j) /\ j.pcb = q
    BY <1>8, <2>5, PcbReplaced
  <2>7. v = [g EXCEPT !.in = j, !.app = c]
    BY <1>14, <1>15, <2>1, <2>4, <2>5 DEF WRec
  <2>8. WRec(v) /\ v.in = j /\ v.app = c
    BY <2>1, <2>7 DEF WRec
  <2>9. Stepped(w, v, q, c)
    BY <1>1, <2>6, <2>8 DEF Stepped
  <2>10. q.state # "SYN_RCVD"
    BY <2>3
  <2>11. InRec(w.in) /\ f = w.in.got_fin /\ w.in.aborted = FALSE /\ Mid(q, c, Fin(f), e)
    BY <1>1, <1>5, <1>6, <1>8, <2>3
  <2>12. Finning(v, e)
    BY <1>9, <2>3, <2>9, <2>10, <2>11, FinningStep
  <2>13. Fed(a, c)
    BY <2>1, <2>3, FedTwice
  <2> QED
    BY <1>3, <2>8, <2>12, <2>13
<1> QED
  BY <1>17, <1>18, <1>19, <1>20, <1>22, <1>23


(* fin_cb: the FIN leaves the window, and is told. *)
LEMMA RoomMid ==
  ASSUME NEW p, NEW q, NEW a, NEW b, NEW e, Mid(p, a, 1, e), p.state # "SYN_RCVD",
         q = [p EXCEPT !.rcv_wnd = Smaller(@ + 1, TCP_WND)],
         AppOK(b), b.opened = a.opened, b.closed = a.closed, b.wrote = a.wrote, b.owed = a.owed,
         p.cb => Given(b) = Given(a) + 1
  PROVE  Mid(q, b, 0, e) /\ q.cb = p.cb /\ q.inInput = p.inInput
<1>1. DOMAIN p = Fields /\ Alive(p, a.wrote, e) /\ AppOK(a)
  BY MidFacts
<1>2. PICK x : x = p.rcv_wnd
  OBVIOUS
<1>3. PICK y : y = Smaller(x + 1, TCP_WND)
  OBVIOUS
<1>4. x \in 0..TCP_WND /\ y \in 0..TCP_WND /\ x <= y /\ (x < TCP_WND => y = x + 1)
  <2>1. x \in 0..TCP_WND
    BY <1>1, <1>2, AliveQueueFacts
  <2> QED
    BY <1>3, <2>1, Constants DEF Smaller
<1>5. q = [p EXCEPT !.rcv_wnd = y]
  BY <1>2, <1>3, Zenon
<1>6. /\ DOMAIN q = Fields /\ q.state = p.state /\ q.cb = p.cb /\ q.rxclosed = p.rxclosed
      /\ q.closepend = p.closepend /\ q.inInput = p.inInput /\ q.tfClosed = p.tfClosed
  BY <1>1, <1>5, FieldSet
<1>7. /\ q.rcv_nxt = p.rcv_nxt /\ q.rcv_wnd = y /\ q.rcv_ann_wnd = p.rcv_ann_wnd /\ q.right_edge = p.right_edge
      /\ q.snd_lbb = p.snd_lbb /\ q.out = p.out
  BY <1>1, <1>5, FieldSet
<1>8. /\ q.snd_nxt = p.snd_nxt /\ q.lastack = p.lastack /\ SameQueues(p, q) /\ q.snd_wnd = p.snd_wnd
      /\ q.snd_wnd_max = p.snd_wnd_max
  BY <1>1, <1>5, FieldSet DEF SameQueues
<1>9. RcvOK(q)
  <2>1. RcvOK(p)
    BY <1>1 DEF Alive
  <2>2. q.rcv_ann_wnd \in 0..q.rcv_wnd
    BY <1>2, <1>4, <1>7, <2>1, Constants DEF RcvOK
  <2> QED
    BY <1>4, <1>7, <2>1, <2>2, Zenon DEF RcvOK
<1>10. SndOK(q, a.wrote)
  BY <1>1, <1>7, <1>8 DEF Alive, SndOK, SameQueues, Spare
<1>11. OutOK(q, a.wrote, e)
  BY <1>1, <1>7, SameOut DEF Alive
<1>12. Alive(q, b.wrote, e)
  BY <1>9, <1>10, <1>11 DEF Alive
<1>13. Ctl(q)
  BY <1>6 DEF Mid, Ctl
<1>14. q.cb <=> b.opened /\ ~ b.closed
  BY <1>6, Zenon DEF Mid
<1>15. HeldBy(q, b, 0)
  <2>1. ASSUME p.cb PROVE UpPos(q.rcv_nxt) = Given(b) + 0 /\ q.rcv_wnd + b.owed + 0 = TCP_WND
    <3>1. UpPos(p.rcv_nxt) = Given(a) + 1 /\ x + a.owed + 1 = TCP_WND
      BY <1>2, <2>1, MidFacts
    <3>2. a.owed \in Nat
      BY <1>1 DEF AppOK
    <3>3. Given(a) \in Int /\ Given(b) = Given(a) + 1
      BY <1>1, <2>1, GivenIs
    <3>4. y = x + 1
      BY <1>4, <3>1, <3>2, Constants
    <3> QED
      BY <1>4, <1>7, <3>1, <3>2, <3>3, <3>4, Constants
  <2>2. p.state \in {"SYN_RCVD", "ESTABLISHED", "CLOSE_WAIT"} => PosOf(p.snd_lbb) = a.wrote + 1
    BY DEF Mid, HeldBy
  <2> QED
    BY <1>6, <1>7, <2>1, <2>2 DEF HeldBy
<1>16. SynRcvd(q, b) /\ q.state # "CLOSED"
  BY <1>6 DEF Mid, SynRcvd
<1>17. Mid(q, b, 0, e)
  BY <1>12, <1>13, <1>14, <1>15, <1>16, Zenon DEF Mid
<1> QED
  BY <1>6, <1>17

Done(w, e) == WRec(w) /\ InRec(w.in) /\ w.in.aborted = FALSE /\ Mid(w.in.pcb, w.app, 0, e)

LEMMA FinCbOK ==
  ASSUME NEW w, NEW v, NEW r, NEW e \in Int, Finning(w, e), v = fin_cb(w, r)
  PROVE  Done(v, e) /\ Fed(w.app, v.app)
<1>1. PICK i : i = w.in
  OBVIOUS
<1>2. PICK p : p = i.pcb
  OBVIOUS
<1>3. PICK a : a = w.app
  OBVIOUS
<1>4. PICK f : f = i.got_fin
  OBVIOUS
<1>5. PICK q : q = [p EXCEPT !.rcv_wnd = Smaller(@ + 1, TCP_WND)]
  OBVIOUS
<1>6. PICK t : t = TRUE
  OBVIOUS
<1>7. PICK g : g = [w EXCEPT !.in.pcb = q, !.app.fins = @ + 1]
  OBVIOUS
<1>8. PICK s : s = lwip_bridge_tcp_close(q, r.mem)
  OBVIOUS
<1>9. /\ WRec(w) /\ InRec(i) /\ i.aborted = FALSE /\ f \in BOOLEAN /\ Mid(p, a, Fin(f), e) /\ p.inInput
      /\ (f => p.state # "SYN_RCVD" /\ (p.cb => Given(a) = Up + 1))
  BY <1>1, <1>2, <1>3, <1>4, Zenon DEF Finning
<1>10. AppOK(a)
  BY <1>9 DEF Mid
<1>11. \/ ~ f /\ v = w
       \/ f /\ ~ q.cb /\ v = [w EXCEPT !.in.pcb = q]
       \/ f /\ q.cb /\ v = [g EXCEPT !.in.pcb = s, !.app.closed = t]
       \/ f /\ q.cb /\ v = g
  BY <1>1, <1>2, <1>4, <1>5, <1>6, <1>7, <1>8, Zenon DEF fin_cb
<1>12. CASE ~ f /\ v = w
  <2>1. Mid(p, a, 0, e)
    BY <1>9, <1>12 DEF Fin
  <2> QED
    BY <1>1, <1>2, <1>3, <1>9, <1>10, <1>12, <2>1, FedSelf DEF Done
<1>13. f => Mid(p, a, 1, e)
  BY <1>9 DEF Fin
<1>14. f => q.cb = p.cb
  <2>1. DOMAIN p = Fields
    BY <1>9, MidFacts
  <2> QED
    BY <1>5, <2>1, FieldSet
<1>15. PICK j : j = [i EXCEPT !.pcb = q]
  OBVIOUS
<1>16. SameFlags(i, j) /\ j.pcb = q
  BY <1>9, <1>15, PcbReplaced
<1>17. InRec(j) /\ j.aborted = FALSE
  BY <1>9, <1>16 DEF SameFlags
<1>18. CASE f /\ ~ q.cb /\ v = [w EXCEPT !.in.pcb = q]
  <2>1. ~ p.cb
    BY <1>14, <1>18, Zenon
  <2>2. Mid(q, a, 0, e)
    BY <1>5, <1>9, <1>10, <1>13, <1>18, <2>1, RoomMid, Zenon
  <2>3. v = [w EXCEPT !.in = j]
    BY <1>1, <1>9, <1>15, <1>18 DEF WRec
  <2>4. WRec(v) /\ v.in = j /\ v.app = a
    BY <1>3, <1>9, <2>3 DEF WRec
  <2>5. Done(v, e)
    BY <1>16, <1>17, <2>2, <2>4, Zenon DEF Done
  <2> QED
    BY <1>3, <1>10, <2>4, <2>5, FedSelf
<1>19. PICK b : b = [a EXCEPT !.fins = @ + 1]
  OBVIOUS
<1>20. ASSUME f, q.cb
       PROVE  /\ Mid(q, b, 0, e) /\ q.inInput /\ Fed(a, b) /\ b.opened
              /\ WRec(g) /\ g.in = j /\ g.app = b
  <2>1. p.cb /\ Given(a) = Up + 1
    BY <1>9, <1>14, <1>20, Zenon
  <2>2. a.opened
    BY <1>9, <2>1, MidFacts
  <2>3. /\ Fed(a, b) /\ b.opened = a.opened /\ b.closed = a.closed /\ b.wrote = a.wrote
        /\ b.owed = a.owed /\ Given(b) = Given(a) + 1
    BY <1>10, <1>19, <2>1, <2>2, AppFinned, Zenon
  <2>4. AppOK(b)
    BY <2>3 DEF Fed
  <2>5. Mid(q, b, 0, e) /\ q.inInput = p.inInput
    BY <1>5, <1>9, <1>13, <1>20, <2>3, <2>4, RoomMid, Zenon
  <2>6. g = [w EXCEPT !.in = j, !.app = b]
    BY <1>1, <1>3, <1>7, <1>9, <1>15, <1>19 DEF WRec
  <2>7. WRec(g) /\ g.in = j /\ g.app = b
    BY <1>9, <2>6 DEF WRec
  <2>8. q.inInput /\ b.opened
    BY <1>9, <2>2, <2>3, <2>5, Zenon
  <2> QED
    BY <2>3, <2>5, <2>7, <2>8
<1>21. CASE f /\ q.cb /\ v = g
  <2>1. Done(v, e)
    BY <1>16, <1>17, <1>20, <1>21, Zenon DEF Done
  <2> QED
    BY <1>3, <1>20, <1>21, <2>1
<1>22. CASE f /\ q.cb /\ v = [g EXCEPT !.in.pcb = s, !.app.closed = t]
  <2>1. /\ Mid(q, b, 0, e) /\ q.inInput /\ Fed(a, b) /\ b.opened /\ AppOK(b)
        /\ WRec(g) /\ g.in = j /\ g.app = b
    BY <1>20, <1>22 DEF Fed
  <2>2. PICK c : c = [b EXCEPT !.closed = TRUE]
    OBVIOUS
  <2>3. AppOK(c) /\ Grown(b, c) /\ c.closed /\ c.wrote = b.wrote /\ c.opened
    <3>1. AppOK(b) /\ b.opened
      BY <2>1
    <3> QED
      BY <2>2, <3>1, AppShuts, Zenon
  <2>4. CloseLeft(q, s, c, e)
    BY <1>8, <1>22, <2>1, <2>3, CloseMid
  <2>5. Mid(s, c, 0, e)
    BY <2>1, <2>4, Zenon DEF CloseLeft
  <2>6. PICK l : l = [j EXCEPT !.pcb = s]
    OBVIOUS
  <2>7. SameFlags(j, l) /\ l.pcb = s
    BY <1>17, <2>6, PcbReplaced
  <2>8. v = [g EXCEPT !.in = l, !.app = c]
    BY <1>6, <1>22, <2>1, <2>2, <2>6 DEF WRec
  <2>9. WRec(v) /\ v.in = l /\ v.app = c
    BY <2>1, <2>8 DEF WRec
  <2>10. InRec(l) /\ l.aborted = FALSE
    BY <1>17, <2>7 DEF SameFlags
  <2>11. Done(v, e)
    BY <2>5, <2>7, <2>9, <2>10, Zenon DEF Done
  <2>12. Fed(b, c)
    BY <2>1, <2>3, Zenon DEF Fed
  <2>13. Fed(a, c)
    BY <2>1, <2>12, FedTwice
  <2> QED
    BY <1>3, <2>9, <2>11, <2>13
<1> QED
  BY <1>11, <1>12, <1>18, <1>21, <1>22


-----------------------------------------------------------------------------
(* tcp_input.                                                              *)

LEMMA AfterFlag ==
  ASSUME NEW p, NEW q, NEW a, NEW e, NEW t \in BOOLEAN, After(p, a, e), q = [p EXCEPT !.inInput = t]
  PROVE  After(q, a, e) /\ q.state = p.state /\ q.inInput = t /\ q.rcv_nxt = p.rcv_nxt /\ q.cb = p.cb
<1>1. DOMAIN p = Fields
  BY DEF After, Ctl
<1>2. /\ SameData(p, q) /\ DOMAIN q = Fields /\ q.state = p.state /\ q.cb = p.cb /\ q.rxclosed = p.rxclosed
      /\ q.closepend = p.closepend /\ q.inInput = t /\ q.tfClosed = p.tfClosed
  BY <1>1, FieldSet DEF SameData, SameQueues
<1>3. Ctl(q)
  BY <1>2, Zenon DEF After, Ctl
<1>4. q.cb <=> a.opened /\ ~ a.closed
  BY <1>2, Zenon DEF After
<1>5. /\ q.rcv_nxt = p.rcv_nxt /\ q.rcv_wnd = p.rcv_wnd /\ q.rcv_ann_wnd = p.rcv_ann_wnd
      /\ q.snd_lbb = p.snd_lbb /\ q.lastack = p.lastack /\ q.out = p.out
  BY <1>1, FieldSet
<1>6. Held(q, a) /\ SynRcvd(q, a)
  <2>1. Held(p, a) /\ SynRcvd(p, a)
    BY Zenon DEF After
  <2> QED
    BY <1>2, <1>5, <2>1 DEF Held, SynRcvd
<1>7. q.state # "CLOSED" => Alive(q, a.wrote, e)
  <2> SUFFICES ASSUME q.state # "CLOSED" PROVE Alive(q, a.wrote, e)
    OBVIOUS
  <2>1. Alive(p, a.wrote, e)
    BY <1>2 DEF After
  <2> QED
    BY <1>2, <2>1, AliveData
<1>8. q.state = "CLOSED" => Gone(q, a, e)
  BY <1>2, <1>5 DEF After, Gone
<1>9. AppOK(a)
  BY SMTT(30) DEF After
<1> QED
  BY <1>2, <1>3, <1>4, <1>5, <1>6, <1>7, <1>8, <1>9, Zenon DEF After

(* The end of tcp_input: what the callbacks left is closed or sent. *)
LEMMA TailOK ==
  ASSUME NEW w, NEW x, NEW v, NEW z, NEW e \in Int, Done(w, e) \/ Ended(w, e),
         x = [w EXCEPT !.in.pcb.inInput = FALSE], v = tcp_input_delayed_close(x),
         z = Unless(v, [v EXCEPT !.in.pcb = tcp_output(@)])
  PROVE  After(z.in.pcb, z.app, e) /\ Fed(w.app, z.app)
<1>1. PICK f : f = FALSE
  OBVIOUS
<1>2. PICK i : i = w.in
  OBVIOUS
<1>3. PICK p : p = i.pcb
  OBVIOUS
<1>4. PICK q : q = [p EXCEPT !.inInput = f]
  OBVIOUS
<1>5. PICK j : j = [i EXCEPT !.pcb = q]
  OBVIOUS
<1>6. PICK a : a = w.app
  OBVIOUS
<1>7. WRec(w) /\ InRec(i) /\ After(p, a, e) /\ AppOK(a)
  <2>1. CASE Done(w, e)
    <3>1. Mid(p, a, 0, e) /\ WRec(w) /\ InRec(i)
      BY <1>2, <1>3, <1>6, <2>1 DEF Done
    <3> QED
      BY <3>1, MidAfter DEF Mid
  <2>2. CASE Ended(w, e)
    BY <1>2, <1>3, <1>6, <2>2 DEF Ended, After
  <2> QED
    BY <2>1, <2>2
<1>8. x = [w EXCEPT !.in = j]
  BY <1>1, <1>2, <1>3, <1>4, <1>5, <1>7 DEF WRec, InRec
<1>9. WRec(x) /\ x.in = j /\ x.app = a
  BY <1>6, <1>7, <1>8 DEF WRec
<1>10. SameFlags(i, j) /\ j.pcb = q
  BY <1>5, <1>7, PcbReplaced
<1>11. InRec(j) /\ j.aborted = i.aborted
  BY <1>10 DEF SameFlags
<1>12. After(q, a, e) /\ q.state = p.state
  <2>1. f \in BOOLEAN
    BY <1>1, ZenonT(30)
  <2> QED
    BY <1>4, <1>7, <2>1, AfterFlag
<1>13. CASE Ended(w, e)
  <2>1. x.in.aborted
    BY <1>2, <1>9, <1>11, <1>13, Zenon DEF Ended
  <2>2. v = x
    BY <2>1 DEF tcp_input_delayed_close
  <2>3. z = x
    BY <2>1, <2>2 DEF Unless
  <2> QED
    BY <1>6, <1>7, <1>9, <1>10, <1>12, <2>3, FedSelf
<1>14. CASE Done(w, e)
  <2>1. q.state # "CLOSED"
    BY <1>2, <1>3, <1>12, <1>14 DEF Done, Mid
  <2>2. Mid(q, a, 0, e)
    BY <1>12, <2>1, MidAfter, SMTT(30)
  <2>3. Mid(x.in.pcb, x.app, 0, e) /\ InRec(x.in)
    BY <1>9, <1>10, <1>11, <2>2
  <2>4. v = x \/ (Ended(v, e) /\ Fed(x.app, v.app))
    BY <1>9, <2>3, DelayedOK
  <2>5. CASE Ended(v, e) /\ Fed(x.app, v.app)
    <3>1. z = v
      BY <2>5, Zenon DEF Ended, Unless
    <3> QED
      BY <1>6, <1>9, <2>5, <3>1, Zenon DEF Ended
  <2>6. CASE v = x
    <3>1. PICK s : s = tcp_output(q)
      OBVIOUS
    <3>2. After(s, a, e)
      BY <1>12, <2>1, <3>1, AfterOutput
    <3>3. z = [x EXCEPT !.in.pcb = s]
      <4>1. x.in.pcb = q /\ ~ x.in.aborted
        <5>1. x.in.aborted = FALSE
          BY <1>2, <1>9, <1>11, <1>14, Zenon DEF Done
        <5> QED
          BY <1>9, <1>10, <5>1, Zenon
      <4> QED
        BY <2>6, <3>1, <4>1, Zenon DEF Unless
    <3>4. z.in.pcb = s /\ z.app = a
      <4>1. PICK l : l = [j EXCEPT !.pcb = s]
        OBVIOUS
      <4>2. z = [x EXCEPT !.in = l]
        BY <1>9, <3>3, <4>1 DEF WRec
      <4>3. z.in = l /\ z.app = a
        BY <1>9, <4>2 DEF WRec
      <4>4. l.pcb = s
        BY <1>11, <4>1, PcbReplaced
      <4> QED
        BY <4>3, <4>4
    <3> QED
      BY <1>6, <1>7, <3>2, <3>4, FedSelf
  <2> QED
    BY <2>4, <2>5, <2>6
<1> QED
  BY <1>13, <1>14


(* The segment is processed and the callbacks are made. *)
LEMMA CallbacksOK ==
  ASSUME NEW w, NEW w2, NEW w3, NEW w4, NEW r, NEW u, NEW e \in Int, WRec(w), Ready(w.in, w.app, u, e),
         r.write \in Nat, w2 = tcp_input_delayed_close(tcp_sent_cb(w, r)),
         w3 = Unless(w2, tcp_recv_cb(w2, r)), w4 = Unless(w3, fin_cb(w3, r))
  PROVE  (Done(w4, e) \/ Ended(w4, e)) /\ Fed(w.app, w4.app)
<1>1. PICK s : s = tcp_sent_cb(w, r)
  OBVIOUS
<1>2. WRec(s) /\ Ready(s.in, s.app, u, e) /\ Fed(w.app, s.app)
  BY <1>1, SentOK
<1>3. PICK k : k = Extent(s.in.recv_data, s.in.got_fin)
  OBVIOUS
<1>4. InRec(s.in) /\ Mid(s.in.pcb, s.app, k, e) /\ s.in.aborted = FALSE
  BY <1>2, <1>3 DEF Ready
<1>5. w2 = tcp_input_delayed_close(s)
  BY <1>1
<1>6. w2 = s \/ (Ended(w2, e) /\ Fed(s.app, w2.app))
  BY <1>2, <1>4, <1>5, DelayedOK
<1>7. ASSUME NEW v, Ended(v, e), Fed(w.app, v.app), v = w2 \/ v = w3
      PROVE  (Done(w4, e) \/ Ended(w4, e)) /\ Fed(w.app, w4.app)
  <2>1. v.in.aborted
    BY <1>7 DEF Ended
  <2>2. v = w3
    BY <1>7, <2>1, Zenon DEF Unless
  <2>3. v = w4
    BY <2>1, <2>2, Zenon DEF Unless
  <2> QED
    BY <1>7, <2>3
<1>8. CASE Ended(w2, e) /\ Fed(s.app, w2.app)
  <2>1. Fed(w.app, w2.app)
    BY <1>2, <1>8, FedTwice
  <2> QED
    BY <1>7, <1>8, <2>1
<1>9. CASE w2 = s
  <2>1. ~ w2.in.aborted
    BY <1>4, <1>9, Zenon
  <2>2. w3 = tcp_recv_cb(s, r)
    BY <1>9, <2>1, Zenon DEF Unless
  <2>3. (Finning(w3, e) \/ Ended(w3, e)) /\ Fed(s.app, w3.app)
    BY <1>2, <2>2, RecvCbOK
  <2>4. Fed(w.app, w3.app)
    BY <1>2, <2>3, FedTwice
  <2>5. CASE Ended(w3, e)
    BY <1>7, <2>4, <2>5
  <2>6. CASE Finning(w3, e)
    <3>1. ~ w3.in.aborted
      BY <2>6, Zenon DEF Finning
    <3>2. w4 = fin_cb(w3, r)
      BY <3>1, Zenon DEF Unless
    <3>3. Done(w4, e) /\ Fed(w3.app, w4.app)
      BY <2>6, <3>2, FinCbOK
    <3> QED
      BY <2>4, <3>3, FedTwice
  <2> QED
    BY <2>3, <2>5, <2>6
<1> QED
  BY <1>6, <1>8, <1>9

LEMMA InputOK ==
  ASSUME NEW p, NEW a, NEW e \in Int, NEW seg, NEW r, NEW w, After(p, a, e), p.state # "CLOSED", UpSeg(seg),
         r.write \in Nat, w = tcp_input(p, a, seg, r)
  PROVE  /\ After(w.in.pcb, w.app, e) /\ Grown(a, w.app)
         /\ w.app.opened => a.opened \/ AcksSyn(seg)
<1>1. PICK t : t = TRUE
  OBVIOUS
<1> DEFINE q == [p EXCEPT !.inInput = TRUE]
           i0 == [pcb |-> q, recv_acked |-> 0, recv_data |-> << >>,
                  got_fin |-> FALSE, reset |-> FALSE, aborted |-> FALSE]
           i1 == tcp_process(i0, seg, r.accept)
           c == Seen(i1.pcb, a)
           w1 == [in |-> i1, app |-> c]
           w2 == tcp_input_delayed_close(tcp_sent_cb(w1, r))
           w3 == Unless(w2, tcp_recv_cb(w2, r))
           w4 == Unless(w3, fin_cb(w3, r))
           x == [w4 EXCEPT !.in.pcb.inInput = FALSE]
           w5 == tcp_input_delayed_close(x)
<1>2. q = [p EXCEPT !.inInput = t]
  BY <1>1
<1>3. i0 = [pcb |-> q, recv_acked |-> 0, recv_data |-> << >>,
            got_fin |-> FALSE, reset |-> FALSE, aborted |-> FALSE]
  OBVIOUS
<1> HIDE DEF q
<1>4. i1 = tcp_process(i0, seg, r.accept)
  OBVIOUS
<1> HIDE DEF i0
<1>5. c = Seen(i1.pcb, a)
  OBVIOUS
<1>6. w1 = [in |-> i1, app |-> c]
  OBVIOUS
<1> HIDE DEF i1, c
<1>7. w2 = tcp_input_delayed_close(tcp_sent_cb(w1, r))
  OBVIOUS
<1> HIDE DEF w1
<1>8. w3 = Unless(w2, tcp_recv_cb(w2, r))
  OBVIOUS
<1> HIDE DEF w2
<1>9. w4 = Unless(w3, fin_cb(w3, r))
  OBVIOUS
<1> HIDE DEF w3
<1>10. x = [w4 EXCEPT !.in.pcb.inInput = FALSE]
  OBVIOUS
<1> HIDE DEF w4
<1>11. w5 = tcp_input_delayed_close(x)
  OBVIOUS
<1> HIDE DEF x, w5
<1>12. w = IF i1.aborted THEN w1
           ELSE IF i1.reset
           THEN [w1 EXCEPT !.app = tcp_err_cb(i1.pcb, @), !.in.pcb = Freed(@)]
           ELSE Unless(w5, [w5 EXCEPT !.in.pcb = tcp_output(@)])
  BY Zenon DEF tcp_input, Seen, q, i0, i1, c, w1, w2, w3, w4, x, w5
<1>13. Quiet(i0) /\ i0.pcb = q
  BY <1>3 DEF Quiet, InRec
<1>14. After(q, a, e) /\ q.state # "CLOSED" /\ q.inInput
  <2>1. t \in BOOLEAN
    BY <1>1, Zenon
  <2>2. After(q, a, e) /\ q.state = p.state /\ q.inInput = t
    BY <1>2, <2>1, AfterFlag
  <2>3. q.inInput
    BY <1>1, <2>2, Zenon
  <2> QED
    BY <2>2, <2>3
<1>15. PICK u : u = UpPos(q.rcv_nxt)
  OBVIOUS
<1>16. Mid(q, a, 0, e)
  BY <1>14, MidAfter
<1>17. Processed(i1, a, u, e, seg)
  BY <1>4, <1>13, <1>14, <1>15, <1>16, ProcessOK
<1>18. WRec(w1) /\ w1.in = i1 /\ w1.app = c
  BY <1>6 DEF WRec
<1>19. AppOK(a)
  BY DEF After
<1>20. CASE i1.aborted /\ ~ i1.pcb.cb /\ After(i1.pcb, a, e)
  <2>1. w = w1 /\ c = a
    BY <1>5, <1>12, <1>20, Zenon DEF Seen
  <2> QED
    BY <1>18, <1>19, <1>20, <2>1, GrownSelf
<1>21. CASE /\ Ready(i1, Seen(i1.pcb, a), u, e) /\ Grown(a, Seen(i1.pcb, a))
            /\ Seen(i1.pcb, a).opened => a.opened \/ AcksSyn(seg)
  <2>1. Ready(i1, c, u, e) /\ Grown(a, c) /\ (c.opened => a.opened \/ AcksSyn(seg))
    BY <1>5, <1>21, Zenon
  <2>2. ASSUME NEW b, Fed(c, b)
        PROVE  Grown(a, b) /\ (b.opened => a.opened \/ AcksSyn(seg))
    <3>1. AppOK(c) /\ AppOK(b) /\ Grown(c, b) /\ (b.opened => c.opened)
      BY <2>2, Zenon DEF Fed
    <3>2. Grown(a, b)
      BY <1>19, <2>1, <3>1, GrownTwice
    <3> QED
      BY <2>1, <3>1, <3>2, Zenon
  <2>3. ~ i1.aborted /\ InRec(i1)
    BY <2>1, Zenon DEF Ready
  <2>4. CASE i1.reset
    <3>1. PICK p1 : p1 = i1.pcb
      OBVIOUS
    <3>2. PICK b : b = tcp_err_cb(p1, c)
      OBVIOUS
    <3>3. PICK z : z = Freed(p1)
      OBVIOUS
    <3>4. i1.recv_data = << >> /\ i1.got_fin = FALSE
      BY <2>1, <2>4, Zenon DEF Ready
    <3>5. Mid(p1, c, 0, e)
      <4>1. Mid(p1, c, Extent(i1.recv_data, i1.got_fin), e)
        BY <2>1, <3>1 DEF Ready
      <4>2. Extent(i1.recv_data, i1.got_fin) = 0
        BY <3>4, NothingFresh
      <4> QED
        BY <4>1, <4>2
    <3>6. After(p1, c, e) /\ p1.state # "CLOSED" /\ AppOK(c) /\ Alive(p1, c.wrote, e)
      BY <3>5, MidAfter DEF Mid
    <3>7. FreedFrom(p1, z, c.wrote, e)
      BY <3>3, <3>6 DEF FreedFrom, Alive
    <3>8. After(z, b, e) /\ Grown(c, b) /\ (b.opened => c.opened)
      BY <3>2, <3>6, <3>7, FreedWithError
    <3>9. AppOK(b)
      BY <3>8 DEF After
    <3>10. Fed(c, b)
      BY <3>6, <3>8, <3>9, Zenon DEF Fed
    <3>11. w = [w1 EXCEPT !.app = b, !.in.pcb = z]
      BY <1>12, <1>18, <2>3, <2>4, <3>1, <3>2, <3>3, Zenon
    <3>12. w.in.pcb = z /\ w.app = b
      <4>1. PICK l : l = [i1 EXCEPT !.pcb = z]
        OBVIOUS
      <4>2. w = [w1 EXCEPT !.app = b, !.in = l]
        BY <1>18, <3>11, <4>1 DEF WRec
      <4>3. w.in = l /\ w.app = b
        BY <1>18, <4>2 DEF WRec
      <4>4. l.pcb = z
        BY <2>3, <4>1, PcbReplaced
      <4> QED
        BY <4>3, <4>4
    <3> QED
      BY <2>2, <3>8, <3>10, <3>12
  <2>5. CASE ~ i1.reset
    <3>1. w = Unless(w5, [w5 EXCEPT !.in.pcb = tcp_output(@)])
      BY <1>12, <2>3, <2>5, Zenon
    <3>2. Ready(w1.in, w1.app, u, e)
      BY <1>18, <2>1
    <3>3. (Done(w4, e) \/ Ended(w4, e)) /\ Fed(w1.app, w4.app)
      BY <1>7, <1>8, <1>9, <1>18, <3>2, CallbacksOK
    <3>4. After(w.in.pcb, w.app, e) /\ Fed(w4.app, w.app)
      BY <1>10, <1>11, <3>1, <3>3, TailOK, Zenon
    <3>5. Fed(c, w.app)
      BY <1>18, <3>3, <3>4, FedTwice
    <3> QED
      BY <2>2, <3>4, <3>5
  <2> QED
    BY <2>4, <2>5
<1> QED
  BY <1>17, <1>20, <1>21 DEF Processed


(* The packet Input takes. *)
LEMMA TakenUp ==
  ASSUME LwipInv, up # << >>, up' = Tail(up)
  PROVE  /\ UpSeg(Head(up)) /\ Head(up) \in SegType /\ peer.st # "closed"
         /\ AcksSyn(Head(up)) => peer.st \in {"open", "reset"} /\ NoSyn(up')
         /\ app.opened => ~ Head(up).syn
<1>1. UpInv /\ up \in Seq(SegType) /\ peer.st # "closed"
  BY DEF LwipInv, UpInv, PeerInv
<1>2. /\ Head(up) = up[1] /\ Head(up) \in SegType /\ Len(up) \in Nat /\ Len(up) >= 1 /\ 1 \in 1..Len(up)
      /\ Len(up') = Len(up) - 1 /\ \A i \in 1..(Len(up) - 1) : up'[i] = up[i + 1]
  BY <1>1, HeadTail
<1>3. UpSeg(up[1]) /\ (app.opened => ~ up[1].syn)
  BY <1>1, <1>2 DEF UpInv
<1>4. ASSUME AcksSyn(up[1]) PROVE peer.st \in {"open", "reset"} /\ NoSyn(up')
  <2>1. peer.st \in {"open", "reset"} /\ \A j \in 1..Len(up) : ~ up[j].syn
    BY <1>1, <1>2, <1>4 DEF UpInv, AcksSyn
  <2>2. ASSUME NEW i \in 1..Len(up') PROVE ~ up'[i].syn
    <3>1. i \in 1..(Len(up) - 1) /\ i + 1 \in 1..Len(up)
      BY <1>2
    <3> QED
      BY <1>2, <2>1, <3>1
  <2> QED
    BY <2>1, <2>2 DEF NoSyn
<1> QED
  BY <1>1, <1>2, <1>3, <1>4

LEMMA InputActiveKeeps ==
  ASSUME LwipInv, up # << >>, up' = Tail(up), UNCHANGED peer, Active,
         NEW r \in Reactions(Head(up)), NEW w, w = tcp_input(pcb, app, Head(up), r),
         Leave(w.in.pcb, w.app)
  PROVE  LwipInv'
<1>1. PICK e : e = UpPos(pcb.right_edge)
  OBVIOUS
<1>2. PICK seg : seg = Head(up)
  OBVIOUS
<1>3. pcb.state # "CLOSED"
  BY DEF Active
<1>4. After(pcb, app, e) /\ e \in Int
  BY <1>1, <1>3, BeforeCall
<1>5. UpSeg(seg) /\ (AcksSyn(seg) => peer.st \in {"open", "reset"} /\ NoSyn(up'))
  BY <1>2, TakenUp
<1>6. r.write \in Nat
  <2>1. r.write \in 0..Smaller(Down - app.wrote, TCP_SND_BUF)
    BY DEF Reactions
  <2>2. app.wrote \in 0..Down
    BY GivenIs DEF LwipInv, PcbInv
  <2> QED
    BY <2>1, <2>2, Constants DEF Smaller
<1>7. w = tcp_input(pcb, app, seg, r)
  BY <1>2
<1>8. PICK q : q = w.in.pcb
  OBVIOUS
<1>9. PICK a : a = w.app
  OBVIOUS
<1>10. After(q, a, e) /\ Grown(app, a) /\ (a.opened => app.opened \/ AcksSyn(seg))
  BY <1>3, <1>4, <1>5, <1>6, <1>7, <1>8, <1>9, InputOK
<1>11. Leave(q, a) /\ (a.opened => app.opened \/ (peer.st \in {"open", "reset"} /\ NoSyn(up')))
  BY <1>5, <1>8, <1>9, <1>10, Zenon
<1> QED
  BY <1>1, <1>3, <1>10, <1>11, LeaveActive

LEMMA InputTimeWaitKeeps ==
  ASSUME LwipInv, up # << >>, up' = Tail(up), UNCHANGED peer, pcb.state = "TIME_WAIT",
         NEW q, q = tcp_timewait_input(pcb, Head(up)), Leave(q, app)
  PROVE  LwipInv'
<1>1. PICK e : e = UpPos(pcb.right_edge)
  OBVIOUS
<1>2. PICK seg : seg = Head(up)
  OBVIOUS
<1>3. PICK t : t = TRUE
  OBVIOUS
<1>4. After(pcb, app, e) /\ e \in Int /\ pcb.state # "CLOSED"
  BY <1>1, BeforeCall
<1>5. /\ DOMAIN pcb = Fields /\ Alive(pcb, app.wrote, e) /\ AppOK(app)
  BY <1>4, AfterFacts
<1>6. seg.ack \in SeqNumbers /\ SegEnd(seg) \in SeqNumbers
  <2>1. seg \in SegType
    BY <1>2, TakenUp
  <2> QED
    BY <2>1, SegmentFields, SegEndType
<1>7. PICK p : p = [pcb EXCEPT !.ackNow = t]
  OBVIOUS
<1>8. \/ q = pcb
      \/ q = tcp_rst(pcb, seg.ack, SegEnd(seg))
      \/ q = tcp_output(p)
  BY <1>2, <1>3, <1>7, Zenon DEF tcp_timewait_input
<1>9. ASSUME q = pcb PROVE After(q, app, e)
  BY <1>4, <1>9
<1>10. ASSUME q = tcp_rst(pcb, seg.ack, SegEnd(seg)) PROVE After(q, app, e)
  <2>1. Alive(q, app.wrote, e) /\ Kept(pcb, q)
    BY <1>4, <1>5, <1>6, <1>10, RstOK
  <2> QED
    BY <1>4, <2>1, AfterKept
<1>11. ASSUME q = tcp_output(p) PROVE After(q, app, e)
  <2>1. Kept(pcb, p) /\ Alive(p, app.wrote, e)
    BY <1>5, <1>7, AckOwed
  <2>2. After(p, app, e)
    BY <1>4, <2>1, AfterKept
  <2>3. p.state # "CLOSED"
    BY <1>4, <2>1 DEF Kept, Kept0
  <2> QED
    BY <1>4, <1>11, <2>2, <2>3, AfterOutput
<1>12. After(q, app, e) /\ Grown(app, app)
  BY <1>5, <1>8, <1>9, <1>10, <1>11, GrownSelf
<1> QED
  BY <1>1, <1>4, <1>12, LeaveActive



(* Resets announce nothing. *)
Resets(list) == list \in Seq(SegType) /\ \A i \in 1..Len(list) : list[i].rst /\ list[i].data = << >>

LEMMA ResetsOK ==
  ASSUME NEW list, Resets(list), NEW w, NEW k, NEW e
  PROVE  DownSegs(list, w) /\ Announces(list, e) /\ Below(list, k, e) /\ Acks(list, k)
<1>1. \A i \in 1..Len(list) : DownSeg(list[i], w)
  BY EmptyDownSeg DEF Resets
<1> QED
  BY <1>1 DEF Resets, DownSegs, Announces, Below, Acks

LEMMA JoinResets ==
  ASSUME NEW s \in Seq(SegType), NEW t, Resets(t), NEW d, Announces(s, d)
  PROVE  Announces(s \o t, d)
<1>1. t \in Seq(SegType)
  BY DEF Resets
<1>2. PICK u : u = s \o t
  OBVIOUS
<1>3. /\ u \in Seq(SegType) /\ Len(u) = Len(s) + Len(t) /\ Len(s) \in Nat /\ Len(t) \in Nat
      /\ \A i \in 1..(Len(s) + Len(t)) :
              \/ i \in 1..Len(s) /\ u[i] = s[i]
              \/ i - Len(s) \in 1..Len(t) /\ u[i] = t[i - Len(s)]
  BY <1>1, <1>2, Joined
<1>4. ASSUME NEW i \in 1..Len(u), ~ u[i].rst PROVE i \in 1..Len(s) /\ u[i] = s[i]
  BY <1>3, <1>4 DEF Resets
<1> QED
  BY <1>2, <1>4 DEF Announces

LEMMA ListenResets ==
  ASSUME LwipInv, up # << >>, up' = Tail(up), UNCHANGED peer, pcb.state = "CLOSED",
         NEW q, DOMAIN q = Fields, q.state = "CLOSED", ~ q.cb, q.cb \in BOOLEAN,
         q.rxclosed \in BOOLEAN, q.closepend \in BOOLEAN, q.inInput \in BOOLEAN,
         q.tfClosed \in BOOLEAN, Resets(q.out), Leave(q, app)
  PROVE  LwipInv'
<1>1. PICK o : o = q.out
  OBVIOUS
<1>2. /\ AppOK(app) /\ Ctl(pcb) /\ (pcb.cb <=> app.opened /\ ~ app.closed)
      /\ DownSegs(down, app.wrote) /\ Announces(down, 0) /\ down \in Seq(SegType)
      /\ peer.st = "open" => Announces(down, peer.top)
      /\ ~ app.opened => Below(down, 1, 1 + TCP_WND) /\ peer.top <= 1 + TCP_WND
      /\ ~ app.closed => peer.una <= Given(app)
      /\ ~ app.closed => Acks(down, Given(app))
  BY DEF LwipInv, PcbInv, DownInv, DownSegs, Acks
<1>3. ~ pcb.cb
  BY <1>2 DEF Ctl
<1>4. Ctl(q)
  BY Zenon DEF Ctl, States
<1>5. /\ q.cb <=> app.opened /\ ~ app.closed
      /\ Held(q, app) /\ SynRcvd(q, app)
  BY <1>2, <1>3 DEF Held, SynRcvd
<1>6. Gone(q, app, 0)
  BY ResetsOK DEF Gone
<1>7. After(q, app, 0)
  BY <1>2, <1>4, <1>5, <1>6, Zenon DEF After
<1>8. PcbInv' /\ pcb'.state = q.state
  <2>1. 0 \in Int
    OBVIOUS
  <2> QED
    BY <1>7, <2>1, LeavePcb
<1>9. app' = app /\ down' = down \o o /\ peer' = peer /\ peer.st # "closed" /\ Grown(app, app)
  BY <1>1, <1>2, TakenUp, GrownSelf DEF Leave
<1>10. PeerInv'
  BY <1>2, <1>9, LeavePeer
<1>11. UpInv'
  BY <1>9, LeaveUp
<1>12. PICK l : l = down \o o
  OBVIOUS
<1>13. Resets(o) /\ o \in Seq(SegType)
  BY <1>1 DEF Resets
<1>14. DownSegs(l, app.wrote)
  BY <1>2, <1>12, <1>13, ResetsOK, JoinDownSegs
<1>15. Announces(l, 0) /\ (peer.st = "open" => Announces(l, peer.top))
  BY <1>2, <1>12, <1>13, JoinResets
<1>16. ASSUME ~ app.opened PROVE Below(l, 1, 1 + TCP_WND)
  <2>1. Below(down, 1, 1 + TCP_WND) /\ Below(o, 1, 1 + TCP_WND)
    BY <1>2, <1>13, <1>16, ResetsOK
  <2> QED
    BY <1>2, <1>12, <1>13, <2>1, JoinBelow
<1>17. ASSUME ~ app.closed PROVE Acks(l, Given(app))
  <2>1. PICK g : g = Given(app)
    OBVIOUS
  <2>2. g \in Int /\ g <= g
    BY <1>2, <2>1, GivenIs
  <2>3. Acks(down, g) /\ Acks(o, g)
    BY <1>2, <1>13, <1>17, <2>1, ResetsOK
  <2>4. Acks(l, g)
    BY <1>2, <1>12, <1>13, <2>2, <2>3, JoinAcks
  <2> QED
    BY <2>1, <2>4
<1>18. /\ DownSegs(down', app'.wrote) /\ Announces(down', 0) /\ pcb'.state = "CLOSED"
       /\ peer'.st = "open" => Announces(down', peer'.top)
       /\ ~ app'.opened => Below(down', 1, 1 + TCP_WND) /\ peer'.top <= 1 + TCP_WND
       /\ ~ app'.closed => peer'.una <= Given(app')
       /\ ~ app'.closed => Acks(down', Given(app'))
  BY <1>2, <1>8, <1>9, <1>12, <1>14, <1>15, <1>16, <1>17, Zenon
<1>19. DownInv'
  BY <1>18, Zenon DEF DownInv, Acks
<1> QED
  BY <1>8, <1>10, <1>11, <1>19 DEF LwipInv



(* The control block of a SYN.  The first segment announces the window, so *)
(* tcp_output does the same with the edge already where it leads.          *)
Listened(nxt, seg) ==
    [tcp_alloc EXCEPT
       !.state = "SYN_RCVD", !.rcv_nxt = nxt, !.right_edge = nxt,
       !.snd_wl1 = SeqAdd(seg.seq, -1), !.snd_wl2 = LwipIss, !.snd_nxt = LwipIss,
       !.lastack = LwipIss, !.snd_lbb = LwipIss,
       !.snd_wnd = seg.wnd, !.snd_wnd_max = seg.wnd]

Blank(m, nxt, re) ==
    /\ DOMAIN m = Fields /\ m.state = "SYN_RCVD" /\ m.rcv_nxt = nxt /\ m.right_edge = re
    /\ m.snd_nxt = LwipIss /\ m.lastack = LwipIss /\ m.snd_lbb = LwipIss
    /\ m.snd_wnd = PeerBuf /\ m.snd_wnd_max = PeerBuf
    /\ ~ m.cb /\ m.cb \in BOOLEAN /\ ~ m.rxclosed /\ m.rxclosed \in BOOLEAN
    /\ ~ m.closepend /\ m.closepend \in BOOLEAN /\ ~ m.inInput /\ m.inInput \in BOOLEAN
    /\ m.tfClosed \in BOOLEAN
    /\ m.unsent = << >> /\ m.unacked = << >> /\ m.oversize = 0 /\ m.out = << >>
    /\ m.rcv_wnd = TCP_WND /\ m.rcv_ann_wnd = TCP_WND

LEMMA ListenedIs ==
  ASSUME NEW nxt, NEW seg, seg.wnd = PeerBuf, NEW n, n = Listened(nxt, seg)
  PROVE  Blank(n, nxt, nxt)
<1>1. PICK a : a = SeqAdd(seg.seq, -1)
  OBVIOUS
<1>2. PICK b : b = seg.wnd
  OBVIOUS
<1>3. n = [tcp_alloc EXCEPT
             !.state = "SYN_RCVD", !.rcv_nxt = nxt, !.right_edge = nxt,
             !.snd_wl1 = a, !.snd_wl2 = LwipIss, !.snd_nxt = LwipIss,
             !.lastack = LwipIss, !.snd_lbb = LwipIss, !.snd_wnd = b, !.snd_wnd_max = b]
  BY <1>1, <1>2, Zenon DEF Listened
<1>4. PICK z : z = tcp_alloc
  OBVIOUS
<1>5. /\ z.cb = FALSE /\ z.rxclosed = FALSE /\ z.closepend = FALSE /\ z.inInput = FALSE
      /\ z.tfClosed = FALSE /\ z.ackNow = FALSE /\ DOMAIN z = Fields
      /\ z.unsent = << >> /\ z.unacked = << >> /\ z.oversize = 0 /\ z.out = << >>
      /\ z.rcv_wnd = TCP_WND /\ z.rcv_ann_wnd = TCP_WND
  BY <1>4 DEF tcp_alloc, Fields
<1>6. n = [z EXCEPT
             !.state = "SYN_RCVD", !.rcv_nxt = nxt, !.right_edge = nxt,
             !.snd_wl1 = a, !.snd_wl2 = LwipIss, !.snd_nxt = LwipIss,
             !.lastack = LwipIss, !.snd_lbb = LwipIss, !.snd_wnd = b, !.snd_wnd_max = b]
  BY <1>3, <1>4
<1>7. /\ DOMAIN n = Fields /\ n.state = "SYN_RCVD" /\ n.rcv_nxt = nxt /\ n.right_edge = nxt
      /\ n.snd_nxt = LwipIss /\ n.lastack = LwipIss /\ n.snd_lbb = LwipIss
      /\ n.snd_wnd = b /\ n.snd_wnd_max = b
      /\ n.cb = z.cb /\ n.rxclosed = z.rxclosed /\ n.closepend = z.closepend /\ n.inInput = z.inInput
      /\ n.tfClosed = z.tfClosed /\ n.ackNow = z.ackNow
      /\ n.unsent = z.unsent /\ n.unacked = z.unacked /\ n.oversize = z.oversize /\ n.out = z.out
      /\ n.rcv_wnd = z.rcv_wnd /\ n.rcv_ann_wnd = z.rcv_ann_wnd
  BY <1>5, <1>6, FieldSet, ZenonT(30)
<1> QED
  BY <1>2, <1>5, <1>7, Zenon DEF Blank

(* SendSegments, by what it reads of the control block. *)
SentWith(k, us, ua, segs, n) ==
    LET sent == SubSeq(us, 1, n)
        unackedAfter[i \in 0..n] ==
            IF i = 0 THEN ua ELSE InsertUnacked(unackedAfter[i - 1], sent[i])
        end == SegEnd(sent[n])
    IN  [k EXCEPT
           !.unsent = SubSeq(@, n + 1, Len(@)),
           !.unacked = unackedAfter[n],
           !.out = @ \o segs,
           !.snd_nxt = IF TCP_SEQ_LT(@, end) THEN end ELSE @,
           !.oversize = IF n = Len(us) THEN 0 ELSE @,
           !.ackNow = FALSE, !.rtime = TRUE, !.persist = FALSE]

LEMMA SendForgetsEdge ==
  ASSUME NEW p, DOMAIN p = Fields, NEW v, NEW q, q = [p EXCEPT !.right_edge = v], NEW n
  PROVE  SendSegments(p, n) = SendSegments(q, n)
<1>1. q.unsent = p.unsent /\ q.unacked = p.unacked /\ q.rcv_nxt = p.rcv_nxt /\ q.rcv_ann_wnd = p.rcv_ann_wnd
  BY FieldSet
<1>2. PICK s : s = SeqAdd(p.rcv_nxt, p.rcv_ann_wnd)
  OBVIOUS
<1>3. Announced(p) = [p EXCEPT !.right_edge = s] /\ Announced(q) = [q EXCEPT !.right_edge = s]
  BY <1>1, <1>2 DEF Announced
<1>4. Announced(p) = Announced(q)
  BY <1>3, FieldSet
<1>5. \A x : Announce(p, x) = Announce(q, x)
  <2>1. \A x : WndField(p, x) = WndField(q, x)
    BY <1>1, Zenon DEF WndField
  <2> QED
    BY <1>1, <2>1, Zenon DEF Announce
<1>6. PICK segs : segs = [i \in 1..n |-> Announce(p, SubSeq(p.unsent, 1, n)[i])]
  OBVIOUS
<1>7. segs = [i \in 1..n |-> Announce(q, SubSeq(q.unsent, 1, n)[i])]
  BY <1>1, <1>5, <1>6
<1>8. SendSegments(p, n) = SentWith(Announced(p), p.unsent, p.unacked, segs, n)
  BY <1>6, Zenon DEF SendSegments, SentWith
<1>9. SendSegments(q, n) = SentWith(Announced(q), q.unsent, q.unacked, segs, n)
  BY <1>7, Zenon DEF SendSegments, SentWith
<1> QED
  BY <1>1, <1>4, <1>8, <1>9, Zenon


LEMMA ListenedBlank ==
  ASSUME NEW nxt, NEW re, NEW seg, seg.wnd = PeerBuf, NEW n, n = Listened(nxt, seg),
         NEW m, m = [n EXCEPT !.right_edge = re]
  PROVE  Blank(m, nxt, re) /\ DOMAIN n = Fields
<1>1. Blank(n, nxt, nxt)
  BY ListenedIs
<1>2. /\ DOMAIN m = Fields /\ m.state = n.state /\ m.rcv_nxt = n.rcv_nxt /\ m.right_edge = re
      /\ m.snd_nxt = n.snd_nxt /\ m.lastack = n.lastack /\ m.snd_lbb = n.snd_lbb
      /\ m.snd_wnd = n.snd_wnd /\ m.snd_wnd_max = n.snd_wnd_max
      /\ m.cb = n.cb /\ m.rxclosed = n.rxclosed /\ m.closepend = n.closepend /\ m.inInput = n.inInput
      /\ m.tfClosed = n.tfClosed
      /\ m.unsent = n.unsent /\ m.unacked = n.unacked /\ m.oversize = n.oversize /\ m.out = n.out
      /\ m.rcv_wnd = n.rcv_wnd /\ m.rcv_ann_wnd = n.rcv_ann_wnd
  BY <1>1, FieldSet DEF Blank
<1> QED
  BY <1>1, <1>2, Zenon DEF Blank

LEMMA BlankAlive ==
  ASSUME NEW nxt, nxt = SeqAdd(PeerIss, 1), NEW re, re = SeqAdd(nxt, TCP_WND),
         NEW m, Blank(m, nxt, re)
  PROVE  Alive(m, 0, 1 + TCP_WND) /\ UpPos(nxt) = 1
<1>1. nxt \in SeqNumbers /\ UpPos(nxt) = 1
  BY BasePosition, Small, Constants DEF UpPos
<1>2. re \in SeqNumbers /\ UpPos(re) = 1 + TCP_WND
  <2>1. TCP_WND \in Nat /\ SeqDiff(nxt, PeerIss) + TCP_WND < SeqMod
    BY <1>1, Constants DEF UpPos
  <2> QED
    BY <1>1, <2>1, AddPosition, Constants DEF UpPos
<1>3. RcvOK(m)
  <2>1. m.rcv_nxt = nxt /\ m.right_edge = re /\ m.rcv_wnd = TCP_WND /\ m.rcv_ann_wnd = TCP_WND
    BY DEF Blank
  <2> QED
    BY <1>1, <1>2, <2>1, Constants DEF RcvOK
<1>4. SndOK(m, 0)
  <2>1. << >> \in Seq(QueueSet(0))
    OBVIOUS
  <2>2. Spare(m, 0)
    BY DEF Spare, Blank
  <2> QED
    BY <2>1, <2>2, Constants DEF SndOK, Blank
<1>5. OutOK(m, 0, 1 + TCP_WND)
  <2>1. m.out = << >> /\ m.rcv_nxt = nxt /\ m.right_edge = re
    BY DEF Blank
  <2>2. Len(m.out) = 0 /\ m.out \in Seq(SegType)
    BY <2>1
  <2> QED
    BY <1>2, <2>1, <2>2, Constants DEF OutOK, DownSegs, Announces, Below
<1> QED
  BY <1>1, <1>3, <1>4, <1>5 DEF Alive

LEMMA EnqueueForgetsEdge ==
  ASSUME NEW n, DOMAIN n = Fields, NEW re, NEW m, m = [n EXCEPT !.right_edge = re],
         NEW p, p = tcp_enqueue_flags(n, TRUE, FALSE), NEW q, q = tcp_enqueue_flags(m, TRUE, FALSE)
  PROVE  DOMAIN p = Fields /\ q = [p EXCEPT !.right_edge = re]
<1>1. m.unsent = n.unsent /\ m.snd_lbb = n.snd_lbb /\ DOMAIN m = Fields
  BY FieldSet
<1>2. PICK l : l = Append(n.unsent, Segment(n.snd_lbb, << >>, TRUE, FALSE))
  OBVIOUS
<1>3. PICK s : s = SeqAdd(n.snd_lbb, 1)
  OBVIOUS
<1>4. p = [n EXCEPT !.unsent = l, !.oversize = 0, !.snd_lbb = s]
  BY <1>2, <1>3, Zenon DEF tcp_enqueue_flags
<1>5. q = [m EXCEPT !.unsent = l, !.oversize = 0, !.snd_lbb = s]
  BY <1>1, <1>2, <1>3, Zenon DEF tcp_enqueue_flags
<1> QED
  BY <1>4, <1>5, FieldSet

(* tcp_output sends the one segment of the queue when it fits. *)
LEMMA OutputOne ==
  ASSUME NEW p, ~ p.inInput, NEW x, p.unsent = << x >>, FitsWindow(p, x)
  PROVE  tcp_output(p) = SendSegments(p, 1)
<1> DEFINE fits == {n \in 1..Len(p.unsent) : \A i \in 1..n : FitsWindow(p, p.unsent[i])}
<1>1. Len(p.unsent) = 1 /\ p.unsent[1] = x
  OBVIOUS
<1>2. fits = {1}
  BY <1>1
<1>3. Cardinality(fits) = 1 /\ fits # {}
  BY <1>2, FS_Singleton
<1> QED
  BY <1>3, Zenon DEF tcp_output


LEMMA ListenSynOK ==
  ASSUME NEW seg, UpSeg(seg), seg.syn, NEW a, AppOK(a), ~ a.opened,
         NEW q, q = tcp_listen_input(seg, LwipIss)
  PROVE  After(q, a, 1 + TCP_WND)
<1>1. PICK nxt : nxt = SeqAdd(PeerIss, 1)
  OBVIOUS
<1>2. PICK re : re = SeqAdd(nxt, TCP_WND)
  OBVIOUS
<1>3. PICK n : n = Listened(nxt, seg)
  OBVIOUS
<1>4. PICK m : m = [n EXCEPT !.right_edge = re]
  OBVIOUS
<1>5. PICK p : p = tcp_enqueue_flags(n, TRUE, FALSE)
  OBVIOUS
<1>6. PICK r : r = tcp_enqueue_flags(m, TRUE, FALSE)
  OBVIOUS
<1>7. PICK e : e = 1 + TCP_WND
  OBVIOUS
<1>8. seg.seq = PeerIss /\ seg.wnd = PeerBuf
  BY DEF UpSeg
<1>9. q = tcp_output(p)
  BY <1>1, <1>3, <1>5, <1>8, Zenon DEF tcp_listen_input, Listened
<1>10. Blank(m, nxt, re) /\ DOMAIN n = Fields
  BY <1>3, <1>4, <1>8, ListenedBlank
<1>11. Alive(m, 0, e) /\ UpPos(nxt) = 1 /\ e \in Int
  BY <1>1, <1>2, <1>7, <1>10, BlankAlive, Constants
<1>12. DOMAIN p = Fields /\ r = [p EXCEPT !.right_edge = re]
  BY <1>4, <1>5, <1>6, <1>10, EnqueueForgetsEdge, ZenonT(30)
<1>13. /\ DOMAIN m = Fields /\ m.state = "SYN_RCVD" /\ m.rcv_nxt = nxt /\ m.lastack = LwipIss
       /\ m.snd_lbb = LwipIss /\ m.snd_wnd = PeerBuf /\ m.unsent = << >>
       /\ ~ m.cb /\ m.cb \in BOOLEAN /\ ~ m.rxclosed /\ m.rxclosed \in BOOLEAN
       /\ ~ m.closepend /\ m.closepend \in BOOLEAN /\ ~ m.inInput /\ m.inInput \in BOOLEAN
       /\ m.tfClosed \in BOOLEAN /\ m.rcv_wnd = TCP_WND /\ m.rcv_ann_wnd = TCP_WND
  BY <1>10, Zenon DEF Blank
<1>14. PosOf(LwipIss) = 0 /\ PosOf(SeqAdd(LwipIss, 1)) = 1
  BY BasePosition, Small, Constants DEF PosOf
<1>15. Alive(r, 0, e) /\ KeptRcv(m, r) /\ r.snd_lbb = SeqAdd(LwipIss, 1)
  <2>1. 0 \in 0..Down /\ PosOf(m.snd_lbb) <= 0 + 1
    BY <1>13, <1>14, Constants
  <2>2. PICK t : t = TRUE
    OBVIOUS
  <2>3. PICK f : f = FALSE
    OBVIOUS
  <2>4. t \in BOOLEAN /\ f \in BOOLEAN /\ r = tcp_enqueue_flags(m, t, f)
    BY <1>6, <2>2, <2>3, Zenon
  <2> QED
    BY <1>11, <1>13, <2>1, <2>4, EnqueueOK, ZenonT(30)
<1>16. /\ DOMAIN r = Fields /\ r.state = "SYN_RCVD" /\ UpPos(r.rcv_nxt) = 1 /\ r.lastack = LwipIss
       /\ r.snd_wnd = PeerBuf /\ r.rcv_wnd = TCP_WND /\ r.rcv_ann_wnd = TCP_WND
       /\ r.cb = m.cb /\ r.rxclosed = m.rxclosed /\ r.closepend = m.closepend /\ r.inInput = m.inInput
       /\ r.tfClosed = m.tfClosed
  BY <1>11, <1>13, <1>15, Zenon DEF KeptRcv, Kept0
<1>17. /\ ~ r.cb /\ r.cb \in BOOLEAN /\ ~ r.rxclosed /\ r.rxclosed \in BOOLEAN
       /\ ~ r.closepend /\ r.closepend \in BOOLEAN /\ ~ r.inInput /\ r.inInput \in BOOLEAN
       /\ r.tfClosed \in BOOLEAN
  BY <1>13, <1>16, Zenon
<1>18. a.wrote = 0
  BY DEF AppOK
<1>19. After(r, a, e)
  <2>1. Ctl(r)
    BY <1>16, <1>17 DEF Ctl, States
  <2>2. Held(r, a)
    BY <1>14, <1>15, <1>16, <1>17, <1>18 DEF Held
  <2>3. SynRcvd(r, a)
    BY <1>16, <1>17 DEF SynRcvd
  <2>4. Alive(r, a.wrote, e) /\ r.state # "CLOSED"
    BY <1>15, <1>16, <1>18
  <2> QED
    BY <1>17, <2>1, <2>2, <2>3, <2>4, Zenon DEF After
<1>20. PICK x : x = Segment(LwipIss, << >>, TRUE, FALSE)
  OBVIOUS
<1>21. p.unsent = << x >> /\ p.lastack = LwipIss /\ p.snd_wnd = PeerBuf /\ p.inInput = FALSE
       /\ r.unsent = << x >>
  <2>1. Blank(n, nxt, nxt)
    BY <1>3, <1>8, ListenedIs
  <2>2. n.unsent = << >> /\ n.snd_lbb = LwipIss /\ n.lastack = LwipIss /\ n.snd_wnd = PeerBuf
        /\ ~ n.inInput /\ n.inInput \in BOOLEAN
    BY <2>1, Zenon DEF Blank
  <2>3. PICK l : l = << x >>
    OBVIOUS
  <2>4. PICK s : s = SeqAdd(LwipIss, 1)
    OBVIOUS
  <2>5. Append(<< >>, x) = l
    BY <2>3
  <2>6. p = [n EXCEPT !.unsent = l, !.oversize = 0, !.snd_lbb = s]
    BY <1>5, <1>20, <2>2, <2>4, <2>5, Zenon DEF tcp_enqueue_flags
  <2>7. p.unsent = l /\ p.lastack = n.lastack /\ p.snd_wnd = n.snd_wnd /\ p.inInput = n.inInput
    BY <1>10, <2>6, FieldSet
  <2>8. r.unsent = p.unsent
    BY <1>12, FieldSet
  <2>9. n.inInput = FALSE
    BY <2>2, Zenon
  <2> QED
    BY <2>2, <2>3, <2>7, <2>8, <2>9, Zenon
<1>22. FitsWindow(p, x)
  <2>1. x.seq = LwipIss /\ Len(x.data) = 0
    BY <1>20 DEF Segment
  <2>2. 0 \in SeqNumbers
    BY Small
  <2>3. SeqDiff(SeqAdd(LwipIss, 0), LwipIss) = 0
    BY <2>2, BasePosition, Constants
  <2> QED
    BY <1>21, <2>1, <2>3, Constants DEF FitsWindow
<1>23. q = SendSegments(p, 1)
  BY <1>9, <1>21, <1>22, OutputOne
<1>24. q = SendSegments(r, 1)
  BY <1>12, <1>23, SendForgetsEdge
<1>25. 1 \in 1..Len(r.unsent)
  BY <1>21
<1>26. Alive(q, 0, e) /\ Kept(r, q)
  BY <1>11, <1>15, <1>16, <1>24, <1>25, SendSegmentsOK
<1>27. After(q, a, e)
  <2>1. Alive(q, a.wrote, e) /\ r.state # "CLOSED"
    BY <1>16, <1>18, <1>26
  <2> QED
    BY <1>19, <1>26, <2>1, AfterKept
<1> QED
  BY <1>7, <1>27


LEMMA InputClosedKeeps ==
  ASSUME LwipInv, up # << >>, up' = Tail(up), UNCHANGED peer, pcb.state = "CLOSED",
         NEW q, q = ListenInput(Head(up)), Leave(q, app)
  PROVE  LwipInv'
<1>1. PICK seg : seg = Head(up)
  OBVIOUS
<1>2. UpSeg(seg) /\ seg \in SegType /\ peer.st # "closed" /\ (app.opened => ~ seg.syn)
  BY <1>1, TakenUp
<1>3. /\ seg.ack \in SeqNumbers /\ SegEnd(seg) \in SeqNumbers
      /\ seg.rst \in BOOLEAN /\ seg.syn \in BOOLEAN /\ seg.isAck \in BOOLEAN
  BY <1>2, SegmentFields, SegEndType
<1>4. seg.syn \/ seg.isAck
  BY <1>2, Zenon DEF UpSeg
<1>5. PICK z : z = tcp_alloc
  OBVIOUS
<1>6. /\ DOMAIN z = Fields /\ z.state = "CLOSED" /\ z.cb = FALSE /\ z.rxclosed = FALSE
      /\ z.closepend = FALSE /\ z.inInput = FALSE /\ z.tfClosed = FALSE /\ z.out = << >>
  BY <1>5 DEF tcp_alloc, Fields
<1>7. CASE seg.rst
  <2>1. q = z
    BY <1>1, <1>5, <1>7 DEF ListenInput
  <2>2. Resets(q.out)
    <3>1. q.out = << >>
      BY <1>6, <2>1, Zenon
    <3>2. PICK o : o = << >>
      OBVIOUS
    <3>3. o \in Seq(SegType) /\ Len(o) = 0
      BY <3>2
    <3>4. Resets(o)
      BY <3>3 DEF Resets
    <3> QED
      BY <3>1, <3>2, <3>4, Zenon
  <2>3. /\ DOMAIN q = Fields /\ q.state = "CLOSED" /\ ~ q.cb /\ q.cb \in BOOLEAN
        /\ q.rxclosed \in BOOLEAN /\ q.closepend \in BOOLEAN /\ q.inInput \in BOOLEAN
        /\ q.tfClosed \in BOOLEAN
    BY <1>6, <2>1, Zenon
  <2> QED
    BY <2>2, <2>3, ListenResets
<1>8. CASE seg.isAck /\ ~ seg.rst
  <2>1. PICK x : x = RstSegment(seg.ack, SegEnd(seg))
    OBVIOUS
  <2>2. x \in SegType /\ x.rst /\ x.data = << >>
    BY <1>3, <2>1, RstIs
  <2>3. PICK o : o = << x >>
    OBVIOUS
  <2>4. q = [z EXCEPT !.out = o]
    <3>1. q = tcp_rst(z, seg.ack, SegEnd(seg))
      BY <1>1, <1>5, <1>8 DEF ListenInput
    <3>2. Append(z.out, x) = o
      BY <1>6, <2>3
    <3> QED
      BY <2>1, <3>1, <3>2, Zenon DEF tcp_rst
  <2>5. /\ DOMAIN q = Fields /\ q.state = z.state /\ q.cb = z.cb /\ q.rxclosed = z.rxclosed
        /\ q.closepend = z.closepend /\ q.inInput = z.inInput /\ q.tfClosed = z.tfClosed /\ q.out = o
    BY <1>6, <2>4, FieldSet
  <2>6. Resets(o)
    BY <2>2, <2>3 DEF Resets
  <2>7. /\ DOMAIN q = Fields /\ q.state = "CLOSED" /\ ~ q.cb /\ q.cb \in BOOLEAN
        /\ q.rxclosed \in BOOLEAN /\ q.closepend \in BOOLEAN /\ q.inInput \in BOOLEAN
        /\ q.tfClosed \in BOOLEAN /\ Resets(q.out)
    BY <1>6, <2>5, <2>6, Zenon
  <2> QED
    BY <2>7, ListenResets
<1>9. CASE seg.syn /\ ~ seg.isAck /\ ~ seg.rst
  <2>1. q = tcp_listen_input(seg, LwipIss)
    BY <1>1, <1>9 DEF ListenInput
  <2>2. PICK e : e = 1 + TCP_WND
    OBVIOUS
  <2>3. AppOK(app) /\ ~ app.opened
    BY <1>2, <1>9 DEF LwipInv, PcbInv
  <2>4. After(q, app, e)
    BY <1>2, <1>9, <2>1, <2>2, <2>3, ListenSynOK
  <2>5. e \in Nat /\ Below(down, 1, e) /\ peer.top <= e /\ down \in Seq(SegType)
    BY <2>2, <2>3, Constants DEF LwipInv, DownInv, DownSegs
  <2>6. Below(down, Up + 2, e)
    <3>1. PICK k : k = Up + 2
      OBVIOUS
    <3>2. 1 \in Int /\ k \in Int /\ e \in Int /\ 1 <= k /\ e <= e
      BY <2>5, <3>1, Constants
    <3>3. Below(down, k, e)
      BY <2>5, <3>2, WiderBelow
    <3> QED
      BY <3>1, <3>3
  <2>7. Grown(app, app)
    BY <2>3, GrownSelf
  <2> QED
    BY <1>2, <2>3, <2>4, <2>5, <2>6, <2>7, LeaveOK
<1> QED
  BY <1>3, <1>4, <1>7, <1>8, <1>9

LEMMA InputKeeps ==
  ASSUME LwipInv, Input
  PROVE  LwipInv'
<1>1. up # << >> /\ up' = Tail(up) /\ UNCHANGED peer
  BY DEF Input
<1>2. CASE pcb.state = "CLOSED" /\ Leave(ListenInput(Head(up)), app)
  BY <1>1, <1>2, InputClosedKeeps
<1>3. CASE pcb.state = "TIME_WAIT" /\ Leave(tcp_timewait_input(pcb, Head(up)), app)
  BY <1>1, <1>3, InputTimeWaitKeeps
<1>4. CASE /\ Active
           /\ \E r \in Reactions(Head(up)) :
                LET w == tcp_input(pcb, app, Head(up), r)
                IN  Leave(w.in.pcb, w.app)
  <2>1. PICK r \in Reactions(Head(up)) :
                LET w == tcp_input(pcb, app, Head(up), r)
                IN  Leave(w.in.pcb, w.app)
    BY <1>4
  <2>2. PICK w : w = tcp_input(pcb, app, Head(up), r)
    OBVIOUS
  <2>3. Leave(w.in.pcb, w.app)
    BY <2>1, <2>2
  <2> QED
    BY <1>1, <1>4, <2>2, <2>3, InputActiveKeeps
<1> QED
  BY <1>2, <1>3, <1>4 DEF Input


-----------------------------------------------------------------------------
(* The client's kernel and the link.                                       *)

LEMMA SamePcb ==
  ASSUME PcbInv, UNCHANGED << pcb, app >>
  PROVE  PcbInv'
<1>1. pcb' = pcb /\ app' = app
  OBVIOUS
<1> QED
  BY <1>1, Zenon DEF PcbInv

(* What is left of a queue when its head is taken. *)
LEMMA TailDown ==
  ASSUME NEW s \in Seq(SegType), s # << >>, NEW t, t = Tail(s), NEW w, NEW k, NEW e
  PROVE  /\ t \in Seq(SegType)
         /\ DownSegs(s, w) => DownSegs(t, w)
         /\ Announces(s, e) => Announces(t, e)
         /\ Below(s, k, e) => Below(t, k, e)
         /\ Acks(s, k) => Acks(t, k)
<1>1. /\ t \in Seq(SegType) /\ Len(s) \in Nat /\ Len(s) >= 1 /\ Len(t) = Len(s) - 1
      /\ \A i \in 1..(Len(s) - 1) : t[i] = s[i + 1]
  BY HeadTail
<1>2. \A i \in 1..Len(t) : i + 1 \in 1..Len(s) /\ t[i] = s[i + 1] /\ i \in Int
  BY <1>1
<1>3. DownSegs(s, w) => DownSegs(t, w)
  BY <1>1, <1>2 DEF DownSegs
<1>4. Announces(s, e) => Announces(t, e)
  <2> SUFFICES ASSUME Announces(s, e) PROVE Announces(t, e)
    OBVIOUS
  <2>1. ASSUME NEW i \in 1..Len(t), ~ t[i].rst
        PROVE  UpPos(t[i].ack) \in 1..(Up + 2) /\ (~ t[i].syn => EdgeOf(t[i]) + WndUnit > e)
    BY <1>2, <2>1 DEF Announces
  <2>2. ASSUME NEW i \in 1..Len(t), NEW j \in 1..Len(t), i < j, ~ t[i].rst, ~ t[j].rst, ~ t[j].syn
        PROVE  EdgeOf(t[i]) < EdgeOf(t[j]) + WndUnit
    <3>1. PICK a : a = i + 1
      OBVIOUS
    <3>2. PICK b : b = j + 1
      OBVIOUS
    <3>3. a \in 1..Len(s) /\ b \in 1..Len(s) /\ a < b /\ t[i] = s[a] /\ t[j] = s[b]
      BY <1>2, <2>2, <3>1, <3>2
    <3> QED
      BY <2>2, <3>3 DEF Announces
  <2> QED
    BY <2>1, <2>2 DEF Announces
<1>5. Below(s, k, e) => Below(t, k, e)
  BY <1>2 DEF Below
<1>6. Acks(s, k) => Acks(t, k)
  BY <1>2 DEF Acks
<1> QED
  BY <1>1, <1>3, <1>4, <1>5, <1>6

(* down keeps its promises when the kernel's record says no more than before. *)
LEMMA DownSame ==
  ASSUME LwipInv, UNCHANGED << pcb, app >>, down' = down \/ (down # << >> /\ down' = Tail(down)),
         peer'.top = peer.top, peer'.una = peer.una, peer'.st = "open" => peer.st = "open"
  PROVE  PcbInv' /\ DownInv'
<1>1. PcbInv'
  BY SamePcb DEF LwipInv
<1>2. DownInv /\ down \in Seq(SegType)
  BY DEF LwipInv, DownInv, DownSegs
<1>3. PICK d : d = down'
  OBVIOUS
<1>4. /\ \A w : DownSegs(down, w) => DownSegs(d, w)
      /\ \A e : Announces(down, e) => Announces(d, e)
      /\ \A k, e : Below(down, k, e) => Below(d, k, e)
      /\ \A k : Acks(down, k) => Acks(d, k)
  <2>1. CASE down' = down
    BY <1>3, <2>1, Zenon
  <2>2. CASE down # << >> /\ down' = Tail(down)
    BY <1>2, <1>3, <2>2, TailDown
  <2> QED
    BY <2>1, <2>2
<1>5. pcb' = pcb /\ app' = app
  OBVIOUS
<1>6. /\ DownSegs(down, app.wrote) /\ Announces(down, 0)
      /\ pcb.state # "CLOSED" => Below(down, Up + 2, UpPos(pcb.right_edge))
      /\ peer.st = "open" => Announces(down, peer.top)
      /\ peer.st = "open" /\ pcb.state # "CLOSED" => peer.top <= UpPos(pcb.right_edge)
      /\ ~ app.opened => Below(down, 1, 1 + TCP_WND) /\ peer.top <= 1 + TCP_WND
      /\ ~ app.closed => peer.una <= Given(app)
      /\ ~ app.closed => Acks(down, Given(app))
  BY <1>2, Zenon DEF DownInv, Acks
<1>7. /\ DownSegs(down', app'.wrote) /\ Announces(down', 0)
      /\ pcb'.state # "CLOSED" => Below(down', Up + 2, UpPos(pcb'.right_edge))
      /\ peer'.st = "open" => Announces(down', peer'.top)
      /\ peer'.st = "open" /\ pcb'.state # "CLOSED" => peer'.top <= UpPos(pcb'.right_edge)
      /\ ~ app'.opened => Below(down', 1, 1 + TCP_WND) /\ peer'.top <= 1 + TCP_WND
      /\ ~ app'.closed => peer'.una <= Given(app')
      /\ ~ app'.closed => Acks(down', Given(app'))
  BY <1>3, <1>4, <1>5, <1>6, Zenon
<1>8. DownInv'
  BY <1>7, Zenon DEF DownInv, Acks
<1> QED
  BY <1>1, <1>8

LEMMA LoseKeeps ==
  ASSUME LwipInv, Lose
  PROVE  LwipInv'
<1>1. /\ UNCHANGED << pcb, app >> /\ peer' = peer /\ pcb' = pcb /\ app' = app
      /\ \/ up # << >> /\ up' = Tail(up) /\ down' = down
         \/ down # << >> /\ down' = Tail(down) /\ up' = up
  BY DEF Lose
<1>2. PcbInv' /\ DownInv'
  BY <1>1, DownSame
<1>3. UpInv'
  BY <1>1, LeaveUp
<1>4. PeerInv
  BY DEF LwipInv
<1>5. peer.st # "closed"
  BY <1>1, <1>4 DEF PeerInv
<1>6. AppOK(app) /\ Grown(app, app)
  BY GrownSelf DEF LwipInv, PcbInv
<1>7. PeerInv'
  BY <1>1, <1>5, <1>6, LeavePeer
<1> QED
  BY <1>2, <1>3, <1>7 DEF LwipInv


(* The packets of the kernel. *)
Stamp(y, p) ==
    [y EXCEPT !.isAck = TRUE, !.ack = SeqAdd(LwipIss, p.rcv), !.wnd = PeerBuf - p.unread]

LEMMA Stamped ==
  ASSUME NEW p, p.rcv \in Nat, p.unread \in 0..PeerBuf, NEW y \in SegType, NEW x,
         x = Stamp(y, p)
  PROVE  /\ x \in SegType /\ x.seq = y.seq /\ x.data = y.data /\ x.fin = y.fin /\ x.syn = y.syn
         /\ x.rst = y.rst /\ x.isAck /\ x.wnd <= PeerBuf
<1>1. PICK a : a = SeqAdd(LwipIss, p.rcv)
  OBVIOUS
<1>2. PICK n : n = PeerBuf - p.unread
  OBVIOUS
<1>3. a \in SeqNumbers
  <2>1. LwipIss \in Int /\ p.rcv \in Int
    BY Constants DEF SeqNumbers
  <2> QED
    BY <1>1, <2>1, AnySeq
<1>4. n \in Nat /\ n <= PeerBuf
  BY <1>2, Constants
<1>5. x = [y EXCEPT !.isAck = TRUE, !.ack = a, !.wnd = n]
  BY <1>1, <1>2, Zenon DEF Stamp
<1> QED
  BY <1>3, <1>4, <1>5 DEF SegType

LEMMA PeerSegmentIs ==
  ASSUME NEW pos \in 0..(Up + 2), NEW d \in Seq(Nat), NEW f \in BOOLEAN, NEW p,
         p.rcv \in Nat, p.unread \in 0..PeerBuf, NEW x, x = PeerSegment(pos, d, f, p)
  PROVE  /\ x \in SegType /\ UpPos(x.seq) = pos /\ x.data = d /\ x.fin = f /\ ~ x.syn /\ ~ x.rst
         /\ x.isAck /\ x.wnd <= PeerBuf
<1>1. PICK s : s = SeqAdd(PeerIss, pos)
  OBVIOUS
<1>2. s \in SeqNumbers /\ UpPos(s) = pos
  BY <1>1, Small, BasePosition, Constants DEF UpPos
<1>3. PICK y : y = Segment(s, d, FALSE, f)
  OBVIOUS
<1>4. /\ y \in SegType /\ y.seq = s /\ y.data = d /\ ~ y.syn /\ y.fin = f /\ ~ y.rst
  BY <1>2, <1>3, Small DEF Segment, SegType
<1>5. x = Stamp(y, p)
  BY <1>1, <1>3, Zenon DEF PeerSegment, Stamp
<1>6. /\ x \in SegType /\ x.seq = y.seq /\ x.data = y.data /\ x.fin = y.fin /\ x.syn = y.syn
      /\ x.rst = y.rst /\ x.isAck /\ x.wnd <= PeerBuf
  BY <1>4, <1>5, Stamped
<1> QED
  BY <1>2, <1>4, <1>6, Zenon

LEMMA EmptyUpSeg ==
  ASSUME NEW x \in SegType, x.data = << >>, ~ x.fin, ~ x.syn, x.isAck, x.wnd <= PeerBuf,
         NEW pos \in 0..(Up + 2), UpPos(x.seq) = pos
  PROVE  UpSeg(x)
<1>1. Len(x.data) = 0
  OBVIOUS
<1>2. Carries(x, PeerIss, Up)
  BY <1>1 DEF Carries
<1>3. TCP_TCPLEN(x) = 0
  BY <1>1 DEF TCP_TCPLEN
<1> QED
  BY <1>2, <1>3, Constants DEF UpSeg

LEMMA PeerAckIs ==
  ASSUME NEW p, p.rcv \in Nat, p.unread \in 0..PeerBuf,
         NEW pos \in 0..(Up + 2), NEW x, x = PeerSegment(pos, << >>, FALSE, p)
  PROVE  UpSeg(x) /\ ~ x.syn
<1>1. PICK s : s = SeqAdd(PeerIss, pos)
  OBVIOUS
<1>2. s \in SeqNumbers /\ UpPos(s) = pos
  BY <1>1, Small, BasePosition, Constants DEF UpPos
<1>3. PICK y : y = Segment(s, << >>, FALSE, FALSE)
  OBVIOUS
<1>4. /\ y \in SegType /\ y.seq = s /\ y.data = << >> /\ y.syn = FALSE /\ y.fin = FALSE /\ y.rst = FALSE
  BY <1>2, <1>3, EmptySegmentIs
<1>5. x = Stamp(y, p)
  BY <1>1, <1>3, Zenon DEF PeerSegment, Stamp
<1>6. /\ x \in SegType /\ x.seq = y.seq /\ x.data = y.data /\ x.fin = y.fin /\ x.syn = y.syn
      /\ x.rst = y.rst /\ x.isAck /\ x.wnd <= PeerBuf
  BY <1>4, <1>5, Stamped
<1>7. x.data = << >> /\ ~ x.fin /\ ~ x.syn /\ UpPos(x.seq) = pos
  BY <1>2, <1>4, <1>6, Zenon
<1> QED
  BY <1>6, <1>7, EmptyUpSeg

LEMMA RstUpSeg ==
  ASSUME NEW s \in SeqNumbers, NEW a \in SeqNumbers, NEW x, x = RstSegment(s, a)
  PROVE  UpSeg(x) /\ ~ x.syn /\ x.rst
<1>1. /\ x \in SegType /\ x.seq = s /\ x.data = << >> /\ ~ x.syn /\ ~ x.fin
      /\ x.rst /\ x.isAck /\ x.wnd = 0
  BY RstIs
<1>2. Len(x.data) = 0
  BY <1>1
<1>3. Carries(x, PeerIss, Up)
  BY <1>2 DEF Carries
<1> QED
  BY <1>1, <1>3, Constants DEF UpSeg

LEMMA UpGrows ==
  ASSUME LwipInv, app' = app, peer.st \in {"open", "reset"} => peer'.st \in {"open", "reset"},
         NEW x, up' = Append(up, x), UpSeg(x), ~ x.syn,
         AcksSyn(x) => peer'.st \in {"open", "reset"}
  PROVE  UpInv'
<1>1. UpInv /\ up \in Seq(SegType) /\ x \in SegType
  BY DEF LwipInv, UpInv, UpSeg
<1>2. PICK n : n = Len(up)
  OBVIOUS
<1>3. PICK l : l = Append(up, x)
  OBVIOUS
<1>4. n \in Nat /\ l \in Seq(SegType) /\ Len(l) = n + 1 /\ l[n + 1] = x /\ \A i \in 1..n : l[i] = up[i]
  BY <1>1, <1>2, <1>3
<1>5. \A i \in 1..Len(l) : i \in 1..n \/ i = n + 1
  BY <1>4
<1>6. \A i \in 1..Len(l) : UpSeg(l[i])
  BY <1>1, <1>2, <1>4, <1>5 DEF UpInv
<1>7. ASSUME NEW i \in 1..Len(l), l[i].isAck /\ ~ l[i].rst /\ l[i].ack # LwipIss
      PROVE  peer'.st \in {"open", "reset"} /\ \A j \in i..Len(l) : ~ l[j].syn
  <2>1. CASE i \in 1..n
    <3>1. peer.st \in {"open", "reset"} /\ \A j \in i..n : ~ up[j].syn
      BY <1>1, <1>2, <1>4, <1>7, <2>1 DEF UpInv
    <3>2. ASSUME NEW j \in i..Len(l) PROVE ~ l[j].syn
      <4>1. CASE j = n + 1
        BY <1>4, <4>1
      <4>2. CASE j \in i..n
        <5>1. j \in 1..n
          BY <2>1, <4>2
        <5> QED
          BY <1>4, <3>1, <4>2, <5>1
      <4> QED
        BY <1>4, <2>1, <4>1, <4>2
    <3> QED
      BY <3>1, <3>2
  <2>2. CASE i = n + 1
    <3>1. AcksSyn(x)
      BY <1>4, <1>7, <2>2 DEF AcksSyn
    <3>2. \A j \in i..Len(l) : j = n + 1
      BY <1>4, <2>2
    <3> QED
      BY <1>4, <3>1, <3>2
  <2> QED
    BY <1>5, <2>1, <2>2
<1>8. ASSUME app.opened PROVE peer'.st \in {"open", "reset"} /\ \A i \in 1..Len(l) : ~ l[i].syn
  <2>1. peer.st \in {"open", "reset"} /\ \A i \in 1..n : ~ up[i].syn
    BY <1>1, <1>2, <1>8 DEF UpInv
  <2> QED
    BY <1>4, <1>5, <2>1
<1>9. up' = l
  BY <1>3
<1> QED
  BY <1>4, <1>6, <1>7, <1>8, <1>9 DEF UpInv


LEMMA PeerSynKeeps ==
  ASSUME LwipInv, PeerSyn
  PROVE  LwipInv'
<1>1. PICK y : y = Segment(PeerIss, << >>, TRUE, FALSE)
  OBVIOUS
<1>2. PICK x : x = [y EXCEPT !.wnd = PeerBuf]
  OBVIOUS
<1>3. PICK p : p = [peer EXCEPT !.st = "syn"]
  OBVIOUS
<1>4. /\ peer.st \in {"closed", "syn"} /\ peer' = p /\ up' = << x >>
      /\ UNCHANGED << pcb, app >> /\ down' = down /\ pcb' = pcb /\ app' = app
  BY <1>1, <1>2, <1>3, Zenon DEF PeerSyn
<1>5. PeerInv /\ UpInv
  BY DEF LwipInv
<1>6. DOMAIN peer = {"st", "una", "nxt", "rcv", "edge", "top", "got", "unread", "fin"}
  BY <1>5 DEF PeerInv
<1>7. /\ DOMAIN p = DOMAIN peer /\ p.st = "syn" /\ p.una = peer.una /\ p.nxt = peer.nxt
      /\ p.rcv = peer.rcv /\ p.top = peer.top /\ p.edge = peer.edge /\ p.got = peer.got /\ p.unread = peer.unread
      /\ p.fin = peer.fin
  BY <1>3, <1>6
<1>8. PcbInv' /\ DownInv'
  BY <1>4, <1>7, DownSame
<1>9. PeerInv'
  BY <1>4, <1>5, <1>7 DEF PeerInv
<1>10. PICK l : l = << x >>
  OBVIOUS
<1>11. /\ y \in SegType /\ y.seq = PeerIss /\ y.data = << >> /\ y.syn = TRUE /\ y.fin = FALSE
       /\ y.rst = FALSE /\ y.isAck = FALSE
  BY <1>1, Small, Constants DEF Segment, SegType
<1>12. /\ x \in SegType /\ x.seq = y.seq /\ x.data = y.data /\ x.syn = y.syn /\ x.fin = y.fin
       /\ x.rst = y.rst /\ x.isAck = y.isAck /\ x.wnd = PeerBuf
  BY <1>2, <1>11, Constants DEF SegType
<1>13. /\ x.seq = PeerIss /\ x.data = << >> /\ x.syn /\ ~ x.fin /\ ~ x.rst /\ ~ x.isAck
  BY <1>11, <1>12, Zenon
<1>14. UpSeg(x)
  <2>1. Len(x.data) = 0 /\ UpPos(x.seq) = 0
    BY <1>13, BasePosition, Constants DEF UpPos
  <2>2. Carries(x, PeerIss, Up)
    BY <2>1 DEF Carries
  <2>3. TCP_TCPLEN(x) = 1
    BY <1>13, <2>1 DEF TCP_TCPLEN
  <2> QED
    BY <1>12, <1>13, <2>1, <2>2, <2>3, Constants DEF UpSeg
<1>15. l \in Seq(SegType) /\ Len(l) = 1 /\ l[1] = x
  BY <1>10, <1>12
<1>16. \A i \in 1..Len(l) : l[i] = x
  BY <1>15
<1>17. ~ app.opened
  BY <1>4, <1>5 DEF UpInv
<1>18. UpInv'
  <2>1. up' = l /\ ~ app'.opened
    BY <1>4, <1>10, <1>17, Zenon
  <2> QED
    BY <1>13, <1>14, <1>15, <1>16, <2>1 DEF UpInv
<1> QED
  BY <1>8, <1>9, <1>18 DEF LwipInv

(* An open kernel sends one packet and stays open, or resets. *)
LEMMA PeerSends ==
  ASSUME LwipInv, UNCHANGED << pcb, app >>, down' = down, peer.st = "open",
         NEW p, peer' = p, DOMAIN p = DOMAIN peer, p.st \in {"open", "reset"}, p.una = peer.una,
         p.rcv = peer.rcv, p.top = peer.top, p.edge = peer.edge, p.got = peer.got, p.fin = peer.fin,
         p.unread \in 0..PeerBuf, p.nxt \in p.una..(Up + 2),
         NEW x, up' = Append(up, x), UpSeg(x), ~ x.syn
  PROVE  LwipInv'
<1>1. PeerInv
  BY DEF LwipInv
<1>2. PcbInv' /\ DownInv'
  BY DownSame
<1>3. UpInv'
  BY UpGrows
<1>4. PeerInv'
  BY <1>1 DEF PeerInv
<1> QED
  BY <1>2, <1>3, <1>4 DEF LwipInv

LEMMA PeerFacts ==
  ASSUME LwipInv
  PROVE  /\ DOMAIN peer = {"st", "una", "nxt", "rcv", "edge", "top", "got", "unread", "fin"}
         /\ peer.rcv \in Nat /\ peer.unread \in 0..PeerBuf
         /\ peer.una \in 0..(Up + 2) /\ peer.nxt \in peer.una..(Up + 2)
         /\ peer.st = "open" => peer.una >= 1
  BY DEF LwipInv, PeerInv


LEMMA PeerSendKeeps ==
  ASSUME LwipInv, NEW n \in 0..TCP_MSS, NEW fin \in BOOLEAN, PeerSend(n, fin)
  PROVE  LwipInv'
<1>1. PICK f : f = IF fin THEN 1 ELSE 0
  OBVIOUS
<1>2. PICK m : m = peer.nxt
  OBVIOUS
<1>3. PICK d : d = Bytes(m, m + n - 1)
  OBVIOUS
<1>4. PICK x : x = PeerSegment(m, d, fin, peer)
  OBVIOUS
<1>5. PICK k : k = m + n + f
  OBVIOUS
<1>6. PICK p : p = [peer EXCEPT !.nxt = k]
  OBVIOUS
<1>7. /\ peer.st = "open" /\ n + f > 0 /\ m <= Up + 1 /\ m + n <= Up + 1 /\ (fin => m + n = Up + 1)
      /\ up' = Append(up, x) /\ peer' = p /\ UNCHANGED << pcb, app >> /\ down' = down
  BY <1>1, <1>2, <1>3, <1>4, <1>5, <1>6 DEF PeerSend, FinAt
<1>8. /\ DOMAIN peer = {"st", "una", "nxt", "rcv", "edge", "top", "got", "unread", "fin"}
      /\ peer.rcv \in Nat /\ peer.unread \in 0..PeerBuf
      /\ peer.una \in 0..(Up + 2) /\ m \in peer.una..(Up + 2) /\ peer.una >= 1
  BY <1>2, <1>7, PeerFacts
<1>9. n \in Nat /\ m \in Nat /\ m >= 1 /\ f \in 0..1
  BY <1>1, <1>8, Constants
<1>10. d \in Seq(Nat) /\ Len(d) = n /\ \A i \in 1..n : d[i] = m + i - 1
  <2>1. (m + n - 1) - m + 1 = n
    BY <1>9
  <2>2. d = [i \in 1..n |-> m + i - 1]
    BY <1>3, <2>1 DEF Bytes
  <2> QED
    BY <1>9, <2>2
<1>11. /\ x \in SegType /\ UpPos(x.seq) = m /\ x.data = d /\ x.fin = fin /\ ~ x.syn /\ ~ x.rst
       /\ x.isAck /\ x.wnd <= PeerBuf
  <2>1. m \in 0..(Up + 2)
    BY <1>7, <1>9, Constants
  <2> QED
    BY <1>4, <1>8, <1>10, <2>1, PeerSegmentIs, SMTT(30)
<1>12. UpSeg(x)
  <2>1. Carries(x, PeerIss, Up)
    <3>1. SeqDiff(x.seq, PeerIss) = m
      BY <1>11 DEF UpPos
    <3> QED
      BY <1>7, <1>9, <1>10, <1>11, <3>1, Constants DEF Carries
  <2>2. TCP_TCPLEN(x) = n + f
    BY <1>1, <1>9, <1>10, <1>11 DEF TCP_TCPLEN
  <2>3. x.fin => m + n = Up + 1
    BY <1>7, <1>11, Zenon
  <2>4. m + (n + f) <= Up + 2
    BY <1>7, <1>9, Constants
  <2> QED
    BY <1>10, <1>11, <2>1, <2>2, <2>3, <2>4 DEF UpSeg
<1>13. /\ DOMAIN p = DOMAIN peer /\ p.st = peer.st /\ p.una = peer.una /\ p.nxt = k
       /\ p.rcv = peer.rcv /\ p.top = peer.top /\ p.edge = peer.edge /\ p.got = peer.got /\ p.unread = peer.unread
       /\ p.fin = peer.fin
  BY <1>6, <1>8
<1>14. p.nxt \in p.una..(Up + 2) /\ p.unread \in 0..PeerBuf /\ p.st \in {"open", "reset"}
  BY <1>5, <1>7, <1>8, <1>9, <1>13, Constants
<1> QED
  BY <1>7, <1>11, <1>12, <1>13, <1>14, PeerSends

LEMMA PeerTimeoutKeeps ==
  ASSUME LwipInv, PeerTimeout
  PROVE  LwipInv'
<1>1. PICK m : m = peer.una
  OBVIOUS
<1>2. PICK pos : pos = m - 1
  OBVIOUS
<1>3. PICK x : x = PeerSegment(pos, << >>, FALSE, peer)
  OBVIOUS
<1>4. PICK p : p = [peer EXCEPT !.nxt = m]
  OBVIOUS
<1>5. /\ peer.st = "open" /\ up = << >> /\ up' = << x >> /\ peer' = p
      /\ UNCHANGED << pcb, app >> /\ down' = down
  BY <1>1, <1>2, <1>3, <1>4, Zenon DEF PeerTimeout
<1>6. /\ DOMAIN peer = {"st", "una", "nxt", "rcv", "edge", "top", "got", "unread", "fin"}
      /\ peer.rcv \in Nat /\ peer.unread \in 0..PeerBuf /\ m \in 0..(Up + 2) /\ m >= 1
  BY <1>1, <1>5, PeerFacts
<1>7. pos \in 0..(Up + 2) /\ m \in m..(Up + 2)
  BY <1>2, <1>6, Constants
<1>8. UpSeg(x) /\ ~ x.syn
  BY <1>3, <1>6, <1>7, PeerAckIs
<1>9. up' = Append(up, x)
  BY <1>5
<1>10. /\ DOMAIN p = DOMAIN peer /\ p.st = peer.st /\ p.una = peer.una /\ p.nxt = m
       /\ p.rcv = peer.rcv /\ p.top = peer.top /\ p.edge = peer.edge /\ p.got = peer.got /\ p.unread = peer.unread
       /\ p.fin = peer.fin
  BY <1>4, <1>6
<1>11. p.nxt \in p.una..(Up + 2) /\ p.unread \in 0..PeerBuf /\ p.st \in {"open", "reset"}
  BY <1>1, <1>5, <1>6, <1>7, <1>10
<1> QED
  BY <1>5, <1>8, <1>9, <1>10, <1>11, PeerSends

LEMMA PeerReadKeeps ==
  ASSUME LwipInv, NEW n \in 1..PeerBuf, PeerRead(n)
  PROVE  LwipInv'
<1>1. PICK m : m = peer.unread - n
  OBVIOUS
<1>2. PICK p : p = [peer EXCEPT !.unread = m]
  OBVIOUS
<1>3. PICK x : x = PeerSegment(p.nxt, << >>, FALSE, p)
  OBVIOUS
<1>4. /\ peer.st = "open" /\ n <= peer.unread /\ up' = Append(up, x) /\ peer' = p
      /\ UNCHANGED << pcb, app >> /\ down' = down
  BY <1>1, <1>2, <1>3, Zenon DEF PeerRead, PeerAck
<1>5. /\ DOMAIN peer = {"st", "una", "nxt", "rcv", "edge", "top", "got", "unread", "fin"}
      /\ peer.rcv \in Nat /\ peer.unread \in 0..PeerBuf
      /\ peer.una \in 0..(Up + 2) /\ peer.nxt \in peer.una..(Up + 2)
  BY PeerFacts
<1>6. /\ DOMAIN p = DOMAIN peer /\ p.st = peer.st /\ p.una = peer.una /\ p.nxt = peer.nxt
      /\ p.rcv = peer.rcv /\ p.top = peer.top /\ p.edge = peer.edge /\ p.got = peer.got /\ p.unread = m
      /\ p.fin = peer.fin
  BY <1>2, <1>5
<1>7. m \in 0..PeerBuf /\ peer.nxt \in 0..(Up + 2)
  BY <1>1, <1>4, <1>5, Constants
<1>8. UpSeg(x) /\ ~ x.syn
  BY <1>3, <1>5, <1>6, <1>7, PeerAckIs
<1>9. p.nxt \in p.una..(Up + 2) /\ p.unread \in 0..PeerBuf /\ p.st \in {"open", "reset"}
  BY <1>4, <1>5, <1>6, <1>7
<1> QED
  BY <1>4, <1>6, <1>8, <1>9, PeerSends

LEMMA PeerResetKeeps ==
  ASSUME LwipInv, PeerReset
  PROVE  LwipInv'
<1>1. PICK s : s = SeqAdd(PeerIss, peer.nxt)
  OBVIOUS
<1>2. PICK a : a = SeqAdd(LwipIss, peer.rcv)
  OBVIOUS
<1>3. PICK x : x = RstSegment(s, a)
  OBVIOUS
<1>4. PICK p : p = [peer EXCEPT !.st = "reset"]
  OBVIOUS
<1>5. /\ peer.st = "open" /\ up' = Append(up, x) /\ peer' = p
      /\ UNCHANGED << pcb, app >> /\ down' = down
  BY <1>1, <1>2, <1>3, <1>4, Zenon DEF PeerReset
<1>6. /\ DOMAIN peer = {"st", "una", "nxt", "rcv", "edge", "top", "got", "unread", "fin"}
      /\ peer.rcv \in Nat /\ peer.unread \in 0..PeerBuf
      /\ peer.una \in 0..(Up + 2) /\ peer.nxt \in peer.una..(Up + 2)
  BY PeerFacts
<1>7. s \in SeqNumbers /\ a \in SeqNumbers
  <2>1. PeerIss \in Int /\ LwipIss \in Int /\ peer.nxt \in Int /\ peer.rcv \in Int
    BY <1>6, Constants DEF SeqNumbers
  <2> QED
    BY <1>1, <1>2, <2>1, AnySeq
<1>8. UpSeg(x) /\ ~ x.syn
  BY <1>3, <1>7, RstUpSeg
<1>9. /\ DOMAIN p = DOMAIN peer /\ p.st = "reset" /\ p.una = peer.una /\ p.nxt = peer.nxt
      /\ p.rcv = peer.rcv /\ p.top = peer.top /\ p.edge = peer.edge /\ p.got = peer.got /\ p.unread = peer.unread
      /\ p.fin = peer.fin
  BY <1>4, <1>6
<1>10. p.nxt \in p.una..(Up + 2) /\ p.unread \in 0..PeerBuf /\ p.st \in {"open", "reset"}
  BY <1>6, <1>9
<1> QED
  BY <1>5, <1>8, <1>9, <1>10, PeerSends


(* What the kernel has of the tunnel's stream, of w bytes written. *)
PeerGot(p, w) ==
    /\ p.rcv \in Nat /\ p.got \in Seq(Nat) /\ p.fin \in BOOLEAN /\ p.unread \in 0..PeerBuf
    /\ Len(p.got) <= w /\ \A i \in 1..Len(p.got) : p.got[i] = i
    /\ p.rcv = 1 + Len(p.got) + (IF p.fin THEN 1 ELSE 0)

(* What it has been told of its own stream; d is what it will be told. *)
PeerTold(p, d) ==
    /\ p.una \in 1..(Up + 2) /\ p.nxt \in p.una..(Up + 2)
    /\ p.edge \in Nat /\ p.top \in Nat /\ p.edge + WndUnit > p.top
    /\ Announces(d, p.top)
    /\ pcb.state # "CLOSED" => p.top <= UpPos(pcb.right_edge)
    /\ ~ app.opened => p.top <= 1 + TCP_WND
    /\ ~ app.closed => p.una <= Given(app)

PeerFields == {"st", "una", "nxt", "rcv", "edge", "top", "got", "unread", "fin"}

LEMMA TakenDown ==
  ASSUME LwipInv, down # << >>, NEW seg, seg = Head(down), NEW d, d = Tail(down)
  PROVE  /\ seg \in SegType /\ DownSeg(seg, app.wrote) /\ d \in Seq(SegType) /\ peer.st # "closed"
         /\ UpPos(seg.ack) \in Nat /\ EdgeOf(seg) \in Nat
         /\ ~ seg.rst =>
              /\ UpPos(seg.ack) \in 1..(Up + 2)
              /\ \A v \in Nat : v <= EdgeOf(seg) => Announces(d, v)
              /\ peer.st = "open" => Announces(d, peer.top) /\ (~ seg.syn => peer.top < EdgeOf(seg) + WndUnit)
              /\ pcb.state # "CLOSED" => EdgeOf(seg) <= UpPos(pcb.right_edge)
              /\ ~ app.opened => EdgeOf(seg) <= 1 + TCP_WND
              /\ ~ app.closed => UpPos(seg.ack) <= Given(app)
<1>1. DownInv /\ down \in Seq(SegType) /\ DownSegs(down, app.wrote) /\ peer.st # "closed"
  BY DEF LwipInv, DownInv, DownSegs, PeerInv
<1>2. /\ seg = down[1] /\ d \in Seq(SegType) /\ Len(down) \in Nat /\ Len(down) >= 1
      /\ Len(d) = Len(down) - 1 /\ \A i \in 1..(Len(down) - 1) : d[i] = down[i + 1]
  BY <1>1, HeadTail
<1>3. 1 \in 1..Len(down)
  BY <1>2
<1>4. seg \in SegType /\ DownSeg(seg, app.wrote)
  BY <1>1, <1>2, <1>3 DEF DownSegs
<1>5. UpPos(seg.ack) \in Nat /\ EdgeOf(seg) \in Nat
  BY <1>1, <1>2, <1>3, SegEdges
<1>6. ASSUME ~ seg.rst
      PROVE  /\ UpPos(seg.ack) \in 1..(Up + 2)
             /\ peer.st = "open" => Announces(d, peer.top) /\ (~ seg.syn => peer.top < EdgeOf(seg) + WndUnit)
             /\ pcb.state # "CLOSED" => EdgeOf(seg) <= UpPos(pcb.right_edge)
             /\ ~ app.opened => EdgeOf(seg) <= 1 + TCP_WND
             /\ ~ app.closed => UpPos(seg.ack) <= Given(app)
  <2>1. UpPos(seg.ack) \in 1..(Up + 2)
    BY <1>1, <1>2, <1>3, <1>6 DEF DownInv, Announces
  <2>2. peer.st = "open" => Announces(d, peer.top) /\ (~ seg.syn => peer.top < EdgeOf(seg) + WndUnit)
    <3>1. peer.st = "open" => Announces(down, peer.top)
      BY <1>1 DEF DownInv
    <3>2. Announces(down, peer.top) => Announces(d, peer.top)
      BY <1>1, TailDown
    <3>3. Announces(down, peer.top) => (~ seg.syn => EdgeOf(seg) + WndUnit > peer.top)
      BY <1>2, <1>3, <1>6 DEF Announces
    <3>4. peer.top \in Nat
      BY DEF LwipInv, PeerInv
    <3> QED
      BY <1>5, <3>1, <3>2, <3>3, <3>4, Constants
  <2>3. pcb.state # "CLOSED" => EdgeOf(seg) <= UpPos(pcb.right_edge)
    BY <1>1, <1>2, <1>3, <1>6 DEF DownInv, Below
  <2>4. ~ app.opened => EdgeOf(seg) <= 1 + TCP_WND
    BY <1>1, <1>2, <1>3, <1>6 DEF DownInv, Below
  <2>5. ~ app.closed => UpPos(seg.ack) <= Given(app)
    BY <1>1, <1>2, <1>3, <1>6 DEF DownInv
  <2> QED
    BY <1>5, <2>1, <2>2, <2>3, <2>4, <2>5
<1>7. ASSUME ~ seg.rst, NEW v \in Nat, v <= EdgeOf(seg) PROVE Announces(d, v)
  <2>1. Announces(down, 0)
    BY <1>1 DEF DownInv
  <2>2. Announces(d, 0)
    BY <1>1, <2>1, TailDown
  <2>3. ASSUME NEW i \in 1..Len(d), ~ d[i].rst, ~ d[i].syn PROVE EdgeOf(d[i]) + WndUnit > v
    <3>1. PICK j : j = i + 1
      OBVIOUS
    <3>2. j \in 1..Len(down) /\ 1 < j /\ d[i] = down[j]
      BY <1>2, <3>1
    <3>3. EdgeOf(down[1]) < EdgeOf(down[j]) + WndUnit
      BY <1>2, <1>3, <1>7, <2>1, <2>3, <3>2 DEF Announces
    <3>4. EdgeOf(down[j]) \in Nat
      BY <1>1, <3>2, SegEdges
    <3> QED
      BY <1>2, <1>5, <1>7, <3>2, <3>3, <3>4, Constants
  <2> QED
    BY <2>2, <2>3 DEF Announces
<1> QED
  BY <1>1, <1>2, <1>4, <1>5, <1>6, <1>7

LEMMA PeerAckedOK ==
  ASSUME LwipInv, down # << >>, NEW seg, seg = Head(down), NEW d, d = Tail(down), ~ seg.rst,
         peer.st = "open", NEW p, p = PeerAcked(peer, seg)
  PROVE  /\ DOMAIN p = PeerFields /\ p.st = "open" /\ p.rcv = peer.rcv /\ p.got = peer.got
         /\ p.fin = peer.fin /\ p.unread = peer.unread
         /\ PeerTold(p, d)
<1>1. PICK a : a = UpPos(seg.ack)
  OBVIOUS
<1>2. PICK v : v = EdgeOf(seg)
  OBVIOUS
<1>3. PICK m : m = IF peer.nxt < a THEN a ELSE peer.nxt
  OBVIOUS
<1>0. PICK t : t = IF peer.top < v THEN v ELSE peer.top
  OBVIOUS
<1>4. /\ a \in 1..(Up + 2) /\ v \in Nat /\ (\A z \in Nat : z <= v => Announces(d, z))
      /\ Announces(d, peer.top) /\ (~ seg.syn => peer.top < v + WndUnit)
      /\ pcb.state # "CLOSED" => v <= UpPos(pcb.right_edge)
      /\ ~ app.opened => v <= 1 + TCP_WND
      /\ ~ app.closed => a <= Given(app)
  BY <1>1, <1>2, TakenDown
<1>5. v = a + seg.wnd
  BY <1>1, <1>2 DEF EdgeOf
<1>6. /\ DOMAIN peer = PeerFields /\ peer.una \in 0..(Up + 2) /\ peer.nxt \in peer.una..(Up + 2)
      /\ peer.una >= 1 /\ peer.edge \in Nat /\ peer.top \in Nat /\ peer.edge + WndUnit > peer.top
  BY DEF PeerFields, LwipInv, PeerInv
<1>7. CASE seg.syn \/ a < peer.una
  <2>1. p = peer
    BY <1>1, <1>7, Zenon DEF PeerAcked, UpPos
  <2>2. /\ pcb.state # "CLOSED" => peer.top <= UpPos(pcb.right_edge)
        /\ ~ app.opened => peer.top <= 1 + TCP_WND
        /\ ~ app.closed => peer.una <= Given(app)
    BY DEF LwipInv, DownInv
  <2>3. Announces(d, peer.top)
    BY <1>4
  <2> QED
    BY <1>6, <2>1, <2>2, <2>3, Constants, SMTT(30) DEF PeerTold
<1>8. CASE ~ (seg.syn \/ a < peer.una)
  <2>1. p = [peer EXCEPT !.una = a, !.nxt = m, !.edge = v, !.top = t]
    BY <1>0, <1>1, <1>3, <1>5, <1>8, Zenon DEF PeerAcked, UpPos
  <2>2. /\ DOMAIN p = PeerFields /\ p.st = peer.st /\ p.rcv = peer.rcv /\ p.got = peer.got
        /\ p.fin = peer.fin /\ p.unread = peer.unread /\ p.una = a /\ p.nxt = m /\ p.edge = v /\ p.top = t
    BY <1>6, <2>1 DEF PeerFields
  <2>3. m \in a..(Up + 2)
    BY <1>3, <1>4, <1>6, Constants
  <2>4. Announces(d, t)
    BY <1>0, <1>4
  <2>6. pcb.state # "CLOSED" => t <= UpPos(pcb.right_edge)
    BY <1>0, <1>4 DEF LwipInv, DownInv
  <2>7. ~ app.opened => t <= 1 + TCP_WND
    BY <1>0, <1>4 DEF LwipInv, DownInv
  <2>5. t \in Nat /\ v + WndUnit > t
    BY <1>0, <1>4, <1>6, <1>8, Constants
  <2> QED
    BY <1>4, <1>6, <2>2, <2>3, <2>4, <2>5, <2>6, <2>7 DEF PeerTold
<1> QED
  BY <1>7, <1>8


(* The bytes taken continue the ones the kernel has. *)
Continues(g, d, pos, n, w, k) ==
    /\ g \in Seq(Nat) /\ d \in Seq(Nat) /\ pos \in Int /\ n \in Nat /\ w \in Nat
    /\ k = 1 + Len(g) - pos /\ k \in Nat /\ k + n <= Len(d) /\ Len(g) <= w
    /\ \A i \in 1..Len(g) : g[i] = i
    /\ \A i \in 1..Len(d) : d[i] = pos + i - 1 /\ d[i] \in 1..w

(* h is the first m bytes of a stream of w. *)
StreamOf(h, m, w) ==
    /\ h \in Seq(Nat) /\ Len(h) = m /\ Len(h) <= w
    /\ \A i \in 1..Len(h) : h[i] = i

Section(t, d, k, n) == t \in Seq(Nat) /\ Len(t) = n /\ \A i \in 1..n : t[i] = d[k + i]

LEMMA SectionIs ==
  ASSUME NEW d \in Seq(Nat), NEW k \in Nat, NEW n \in Nat, k + n <= Len(d),
         NEW t, t = SubSeq(d, k + 1, k + n)
  PROVE  Section(t, d, k, n)
<1>1. PICK m : m = Len(d)
  OBVIOUS
<1>2. m \in Nat /\ k + n <= m /\ \A i \in 1..m : d[i] \in Nat
  BY <1>1
<1>3. t = [i \in 1..n |-> d[k + i]]
  OBVIOUS
<1>4. ASSUME NEW i \in 1..n PROVE d[k + i] \in Nat
  <2>1. PICK j : j = k + i
    OBVIOUS
  <2>2. j \in 1..m
    BY <1>2, <2>1
  <2> QED
    BY <1>2, <2>1, <2>2, Zenon
<1>5. t \in Seq(Nat) /\ Len(t) = n
  BY <1>3, <1>4
<1>6. \A i \in 1..n : t[i] = d[k + i]
  BY <1>3, Zenon
<1> QED
  BY <1>5, <1>6, Zenon DEF Section

Splice(h, g, t, m, n) ==
    m \in Nat /\ h \in Seq(Nat) /\ Len(h) = m + n
      /\ \A i \in 1..(m + n) : \/ i \in 1..m /\ h[i] = g[i]
                               \/ i - m \in 1..n /\ h[i] = t[i - m]

LEMMA SpliceIs ==
  ASSUME NEW g \in Seq(Nat), NEW t \in Seq(Nat), NEW m, m = Len(g), NEW n, Len(t) = n,
         NEW h, h = g \o t
  PROVE  Splice(h, g, t, m, n)
  BY Joined, ZenonT(30) DEF Splice

LEMMA StreamGrows ==
  ASSUME NEW g, NEW d, NEW pos, NEW n, NEW w, NEW k, Continues(g, d, pos, n, w, k)
  PROVE  StreamOf(g \o SubSeq(d, k + 1, k + n), Len(g) + n, w)
<1> PICK h : h = g \o SubSeq(d, k + 1, k + n)
  OBVIOUS
<1>0. /\ g \in Seq(Nat) /\ d \in Seq(Nat) /\ pos \in Int /\ n \in Nat /\ w \in Nat
      /\ k = 1 + Len(g) - pos /\ k \in Nat /\ k + n <= Len(d) /\ Len(g) <= w
      /\ \A i \in 1..Len(g) : g[i] = i
      /\ \A i \in 1..Len(d) : d[i] = pos + i - 1 /\ d[i] \in 1..w
  BY Zenon DEF Continues
<1>1. PICK t : t = SubSeq(d, k + 1, k + n)
  OBVIOUS
<1>2. t \in Seq(Nat) /\ Len(t) = n /\ \A i \in 1..n : t[i] = d[k + i]
  <2>1. Section(t, d, k, n)
    BY <1>0, <1>1, SectionIs, Zenon
  <2> QED
    BY <2>1, Zenon DEF Section
<1>3. PICK m : m = Len(g)
  OBVIOUS
<1>4. m \in Nat /\ h \in Seq(Nat) /\ Len(h) = m + n
      /\ \A i \in 1..(m + n) : \/ i \in 1..m /\ h[i] = g[i]
                               \/ i - m \in 1..n /\ h[i] = t[i - m]
  <2>1. Splice(h, g, t, m, n)
    BY <1>0, <1>1, <1>2, <1>3, SpliceIs, Zenon
  <2> QED
    BY <2>1, Zenon DEF Splice
<1> USE <1>0
<1>5. \A i \in 1..n : k + i \in 1..Len(d) /\ t[i] = m + i /\ m + i <= w
  <2> SUFFICES ASSUME NEW i \in 1..n PROVE k + i \in 1..Len(d) /\ t[i] = m + i /\ m + i <= w
    OBVIOUS
  <2>1. PICK j : j = k + i
    OBVIOUS
  <2>2. j \in 1..Len(d) /\ t[i] = d[j]
    <3>1. PICK l : l = Len(d)
      OBVIOUS
    <3>2. l \in Nat /\ k + n <= l /\ k \in Nat
      BY <3>1
    <3>3. j \in 1..l
      BY <2>1, <3>2, SMTT(30)
    <3>4. t[i] = d[j]
      BY <1>2, <2>1, Zenon
    <3> QED
      BY <3>1, <3>3, <3>4
  <2>3. d[j] = pos + j - 1 /\ d[j] \in 1..w
    BY <2>2
  <2>4. pos + j - 1 = m + i
    BY <1>3, <1>4, <2>1
  <2> QED
    BY <2>1, <2>2, <2>3, <2>4, SMTT(30)
<1>6. ASSUME NEW i \in 1..(m + n) PROVE h[i] = i
  <2>1. CASE i \in 1..m /\ h[i] = g[i]
    BY <1>3, <2>1
  <2>2. CASE i - m \in 1..n /\ h[i] = t[i - m]
    <3>1. PICK j : j = i - m
      OBVIOUS
    <3>2. j \in 1..n /\ h[i] = t[j] /\ m + j = i
      BY <1>4, <2>2, <3>1, SMTT(30)
    <3> QED
      BY <1>5, <3>2
  <2> QED
    BY <1>4, <2>1, <2>2
<1>7. m + n <= w
  <2>1. CASE n = 0
    BY <1>3, <1>4, <2>1
  <2>2. CASE n # 0
    <3>1. n \in 1..n
      BY <2>2
    <3> QED
      BY <1>5, <3>1
  <2> QED
    BY <2>1, <2>2
<1>8. StreamOf(h, Len(g) + n, w)
  BY <1>3, <1>4, <1>6, <1>7 DEF StreamOf
<1> QED
  BY <1>8

GotIs(rcv, g, x, un, pf, w) ==
    /\ rcv \in Nat /\ g \in Seq(Nat) /\ pf \in BOOLEAN /\ un \in 0..PeerBuf
    /\ x \in Nat /\ x <= w /\ (\A i \in 1..x : g[i] = i)
    /\ rcv = 1 + x + (IF pf THEN 1 ELSE 0)

LEMMA PeerGotIs ==
  ASSUME NEW p, NEW w, PeerGot(p, w), NEW rcv, rcv = p.rcv, NEW g, g = p.got, NEW x, x = Len(g),
         NEW un, un = p.unread, NEW pf, pf = p.fin
  PROVE  GotIs(rcv, g, x, un, pf, w)
<1>1. /\ rcv \in Nat /\ g \in Seq(Nat) /\ pf \in BOOLEAN /\ un \in 0..PeerBuf
      /\ x <= w /\ (\A i \in 1..x : g[i] = i)
      /\ rcv = 1 + x + (IF pf THEN 1 ELSE 0)
  BY Zenon DEF PeerGot
<1>2. x \in Nat
  BY <1>1
<1> QED
  BY <1>1, <1>2 DEF GotIs

(* How many bytes are taken, and where the kernel stands after them. *)
TakeCount(pf, end, rcv, un) ==
    IF pf \/ end <= rcv THEN 0 ELSE Smaller(end - rcv, PeerBuf - un)

Standing(x, pf) == 1 + x + (IF pf THEN 1 ELSE 0)

Counted(n, un, pf, rcv, x, pos, len) ==
    /\ n \in Nat /\ un + n \in 0..PeerBuf
    /\ n # 0 => ~ pf /\ rcv = 1 + x /\ rcv - pos = 1 + x - pos /\ 1 + x - pos \in Nat
                /\ (1 + x - pos) + n <= len
    /\ rcv - pos \in Nat

LEMMA TakeCounts ==
  ASSUME NEW rcv \in Nat, NEW x \in Nat, NEW pf \in BOOLEAN, rcv = Standing(x, pf),
         NEW un \in 0..PeerBuf, NEW pos \in Nat, NEW len \in Nat, NEW end, end = pos + len, pos <= rcv,
         NEW n, n = TakeCount(pf, end, rcv, un)
  PROVE  Counted(n, un, pf, rcv, x, pos, len)
<1>0. rcv = 1 + x + (IF pf THEN 1 ELSE 0) /\ n = IF pf \/ end <= rcv THEN 0 ELSE Smaller(end - rcv, PeerBuf - un)
  BY Zenon DEF Standing, TakeCount
<1>1. PICK room : room = PeerBuf - un
  OBVIOUS
<1>2. room \in Nat /\ end \in Nat /\ un + room = PeerBuf
  BY <1>0, <1>1, Constants
<1>3. CASE pf \/ end <= rcv
  <2>1. n = 0
    BY <1>0, <1>3
  <2> QED
    BY <1>0, <1>2, <2>1, Constants DEF Counted
<1>4. CASE ~ (pf \/ end <= rcv)
  <2>1. n = Smaller(end - rcv, room)
    BY <1>0, <1>1, <1>4
  <2>2. n \in Nat /\ n <= room /\ n <= end - rcv
    BY <1>0, <1>2, <1>4, <2>1 DEF Smaller
  <2> QED
    BY <1>0, <1>2, <1>4, <2>2, Constants DEF Counted
<1> QED
  BY <1>3, <1>4

LEMMA PeerTakeOK ==
  ASSUME NEW p, DOMAIN p = PeerFields, NEW w \in Nat, PeerGot(p, w), NEW seg, DownSeg(seg, w),
         NEW q, q = PeerTake(p, seg)
  PROVE  /\ DOMAIN q = PeerFields /\ q.st = p.st /\ q.una = p.una /\ q.nxt = p.nxt /\ q.top = p.top /\ q.edge = p.edge
         /\ PeerGot(q, w)
<1>1. PICK pos : pos = PosOf(seg.seq)
  OBVIOUS
<1>2. PICK len : len = Len(seg.data)
  OBVIOUS
<1>3. PICK rcv : rcv = p.rcv
  OBVIOUS
<1>4. PICK g : g = p.got
  OBVIOUS
<1>5. PICK x : x = Len(g)
  OBVIOUS
<1>6. PICK un : un = p.unread
  OBVIOUS
<1>7. PICK pf : pf = p.fin
  OBVIOUS
<1>8. PICK d : d = seg.data
  OBVIOUS
<1>9. PICK end : end = pos + len
  OBVIOUS
<1>10. PICK n : n = TakeCount(pf, end, rcv, un)
  OBVIOUS
<1>11. PICK fin : fin = (seg.fin /\ ~ pf /\ rcv + n = end)
  OBVIOUS
<1>12. PICK h : h = g \o SubSeq(d, rcv - pos + 1, rcv - pos + n)
  OBVIOUS
<1>13. PICK u : u = un + n
  OBVIOUS
<1>14. PICK f : f = (pf \/ fin)
  OBVIOUS
<1>15. PICK r : r = rcv + n + (IF fin THEN 1 ELSE 0)
  OBVIOUS
<1>16. \/ q = p
       \/ ~ (pos > rcv) /\ q = [p EXCEPT !.got = h, !.unread = u, !.fin = f, !.rcv = r]
  BY <1>1, <1>2, <1>3, <1>4, <1>6, <1>7, <1>8, <1>9, <1>10, <1>11, <1>12, <1>13, <1>14, <1>15,
     Zenon DEF PeerTake, TakeCount
<1>17. CASE q = p
  BY <1>17
<1>18. CASE ~ (pos > rcv) /\ q = [p EXCEPT !.got = h, !.unread = u, !.fin = f, !.rcv = r]
  <2>1. /\ rcv \in Nat /\ g \in Seq(Nat) /\ pf \in BOOLEAN /\ un \in 0..PeerBuf
        /\ x \in Nat /\ x <= w /\ (\A i \in 1..x : g[i] = i)
        /\ rcv = 1 + x + (IF pf THEN 1 ELSE 0)
    <3>1. GotIs(rcv, g, x, un, pf, w)
      BY <1>3, <1>4, <1>5, <1>6, <1>7, PeerGotIs, Zenon
    <3> QED
      BY <3>1 DEF GotIs
  <2>2. /\ d \in Seq(Nat) /\ len \in Nat /\ pos \in Nat /\ len = Len(d)
        /\ \A i \in 1..len : d[i] = pos + i - 1 /\ d[i] \in 1..w
    BY <1>1, <1>2, <1>8, SegmentFields, Positions DEF DownSeg, Carries, PosOf
  <2>3. /\ DOMAIN q = PeerFields /\ q.st = p.st /\ q.una = p.una /\ q.nxt = p.nxt /\ q.top = p.top /\ q.edge = p.edge
        /\ q.got = h /\ q.unread = u /\ q.fin = f /\ q.rcv = r
    BY <1>18 DEF PeerFields
  <2>4. /\ n \in Nat /\ u \in 0..PeerBuf
        /\ n # 0 => ~ pf /\ rcv = 1 + x /\ rcv - pos = 1 + x - pos /\ 1 + x - pos \in Nat
                    /\ (1 + x - pos) + n <= len
        /\ rcv - pos \in Nat
    <3>1. pos <= rcv
      BY <1>18, <2>1, <2>2
    <3>2. /\ n \in Nat /\ un + n \in 0..PeerBuf
          /\ n # 0 => ~ pf /\ rcv = 1 + x /\ rcv - pos = 1 + x - pos /\ 1 + x - pos \in Nat
                      /\ (1 + x - pos) + n <= len
          /\ rcv - pos \in Nat
      <4>1. rcv = Standing(x, pf)
        BY <2>1, Zenon DEF Standing
      <4>2. rcv \in Nat /\ x \in Nat /\ pf \in BOOLEAN /\ un \in 0..PeerBuf
        BY <2>1, Zenon
      <4>3. len \in Nat /\ pos \in Nat
        BY <2>2, Zenon
      <4>4. Counted(n, un, pf, rcv, x, pos, len)
        BY <1>9, <1>10, <3>1, <4>1, <4>2, <4>3, TakeCounts, Zenon
      <4> QED
        BY <4>4 DEF Counted
    <3> QED
      BY <1>13, <3>2
  <2>5. fin \in BOOLEAN /\ f \in BOOLEAN /\ (fin => ~ pf) /\ (f <=> pf \/ fin)
    BY <1>11, <1>14, Zenon
  <2>6. /\ h \in Seq(Nat) /\ Len(h) = x + n /\ Len(h) <= w
        /\ \A i \in 1..Len(h) : h[i] = i
    <3>1. CASE n = 0
      <4>1. PICK k : k = rcv - pos
        OBVIOUS
      <4>2. k \in Nat
        BY <2>4, <4>1
      <4>3. SubSeq(d, k + 1, k + 0) = << >>
        BY <2>2, <4>2
      <4>4. h = g \o << >>
        BY <1>12, <3>1, <4>1, <4>3
      <4>5. h = g
        BY <2>1, <4>4
      <4> QED
        BY <1>5, <2>1, <3>1, <4>5
    <3>2. CASE n # 0
      <4>1. PICK k : k = 1 + x - pos
        OBVIOUS
      <4>2. rcv - pos = k /\ k \in Nat /\ k + n <= len
        BY <2>4, <3>2, <4>1
      <4>3. h = g \o SubSeq(d, k + 1, k + n)
        BY <1>12, <4>2, Zenon
      <4>4. pos \in Int /\ k + n <= Len(d) /\ k = 1 + Len(g) - pos
        BY <1>5, <2>2, <4>1, <4>2
      <4>5. Len(g) <= w /\ (\A i \in 1..Len(g) : g[i] = i)
            /\ (\A i \in 1..Len(d) : d[i] = pos + i - 1 /\ d[i] \in 1..w)
        BY <1>5, <2>1, <2>2, Zenon
      <4>6. /\ h \in Seq(Nat) /\ Len(h) = Len(g) + n /\ Len(h) <= w
            /\ \A i \in 1..Len(h) : h[i] = i
        <5>1. Continues(g, d, pos, n, w, k)
          BY <2>1, <2>2, <2>4, <4>2, <4>4, <4>5, Zenon DEF Continues
        <5>2. StreamOf(g \o SubSeq(d, k + 1, k + n), Len(g) + n, w)
          BY <5>1, StreamGrows, Zenon
        <5>3. StreamOf(h, Len(g) + n, w)
          BY <4>3, <5>2, Zenon
        <5> QED
          BY <5>3 DEF StreamOf
      <4> QED
        BY <1>5, <4>6
    <3> QED
      BY <3>1, <3>2
  <2>7. r \in Nat /\ r = 1 + Len(h) + (IF f THEN 1 ELSE 0)
    <3>1. PICK y : y = Len(h)
      OBVIOUS
    <3>2. y = x + n
      BY <2>6, <3>1
    <3>3. CASE fin
      <4>1. ~ pf /\ f
        BY <2>5, <3>3, Zenon
      <4> QED
        BY <1>15, <2>1, <2>4, <3>1, <3>2, <3>3, <4>1
    <3>4. CASE ~ fin
      <4>1. f <=> pf
        BY <2>5, <3>4, Zenon
      <4> QED
        BY <1>15, <2>1, <2>4, <3>1, <3>2, <3>4, <4>1
    <3> QED
      BY <3>3, <3>4
  <2>8. PeerGot(q, w)
    BY <2>3, <2>4, <2>5, <2>6, <2>7 DEF PeerGot
  <2> QED
    BY <2>3, <2>8
<1> QED
  BY <1>16, <1>17, <1>18


LEMMA UpSame ==
  ASSUME LwipInv, app' = app, peer.st \in {"open", "reset"} => peer'.st \in {"open", "reset"},
         up' = up
  PROVE  UpInv'
<1>1. UpInv
  BY DEF LwipInv
<1>2. PICK s : s = peer'.st
  OBVIOUS
<1> QED
  BY <1>1, <1>2 DEF UpInv

LEMMA PeerSameFields ==
  ASSUME LwipInv, down # << >>, UNCHANGED << pcb, app >>, down' = Tail(down), NEW p, peer' = p,
         DOMAIN p = PeerFields, p.st = peer.st \/ p.st = "reset", p.una = peer.una, p.nxt = peer.nxt,
         p.rcv = peer.rcv, p.top = peer.top, p.edge = peer.edge, p.got = peer.got, p.unread = peer.unread,
         p.fin = peer.fin
  PROVE  PcbInv' /\ DownInv' /\ PeerInv'
<1>1. PeerInv /\ peer.st # "closed"
  BY DEF LwipInv, PeerInv
<1>2. pcb' = pcb /\ app' = app /\ p.st # "closed" /\ (p.st = "open" => peer.st = "open")
  BY <1>1
<1>3. PcbInv' /\ DownInv'
  BY <1>2, DownSame
<1>4. PeerInv'
  BY <1>1, <1>2 DEF PeerInv, PeerFields
<1> QED
  BY <1>3, <1>4

LEMMA PeerTakes ==
  ASSUME LwipInv, down # << >>, UNCHANGED << pcb, app >>, down' = Tail(down), NEW p, peer' = p,
         DOMAIN p = PeerFields, p.st = "open", PeerGot(p, app.wrote), PeerTold(p, Tail(down))
  PROVE  PcbInv' /\ DownInv' /\ PeerInv'
<1>1. pcb' = pcb /\ app' = app
  OBVIOUS
<1>2. PcbInv'
  BY SamePcb DEF LwipInv
<1>3. PICK d : d = Tail(down)
  OBVIOUS
<1>4. down' = d /\ PeerTold(p, d)
  BY <1>3
<1>5. PeerInv'
  <2>1. /\ p.rcv \in Nat /\ p.got \in Seq(Nat) /\ p.fin \in BOOLEAN /\ p.unread \in 0..PeerBuf
        /\ Len(p.got) <= app.wrote /\ \A i \in 1..Len(p.got) : p.got[i] = i
        /\ p.rcv = 1 + Len(p.got) + (IF p.fin THEN 1 ELSE 0)
    BY Zenon DEF PeerGot
  <2>2. /\ p.una \in 1..(Up + 2) /\ p.nxt \in p.una..(Up + 2)
        /\ p.edge \in Nat /\ p.top \in Nat /\ p.edge + WndUnit > p.top
    BY <1>4, Zenon DEF PeerTold
  <2>3. p.una \in 0..(Up + 2) /\ p.una >= 1
    BY <2>2, Constants
  <2> QED
    BY <1>1, <2>1, <2>2, <2>3 DEF PeerInv, PeerFields
<1>6. DownInv /\ down \in Seq(SegType)
  BY DEF LwipInv, DownInv, DownSegs
<1>7. /\ DownSegs(down, app.wrote) => DownSegs(d, app.wrote)
      /\ Announces(down, 0) => Announces(d, 0)
  BY <1>3, <1>6, TailDown
<1>8. Below(down, Up + 2, UpPos(pcb.right_edge)) => Below(d, Up + 2, UpPos(pcb.right_edge))
  BY <1>3, <1>6, TailDown
<1>9. Below(down, 1, 1 + TCP_WND) => Below(d, 1, 1 + TCP_WND)
  BY <1>3, <1>6, TailDown
<1>10. Acks(down, Given(app)) => Acks(d, Given(app))
  BY <1>3, <1>6, TailDown
<1>11. DownInv'
  <2>1. /\ DownSegs(d, app.wrote) /\ Announces(d, 0)
        /\ pcb.state # "CLOSED" => Below(d, Up + 2, UpPos(pcb.right_edge))
        /\ ~ app.opened => Below(d, 1, 1 + TCP_WND)
        /\ ~ app.closed => Acks(d, Given(app))
    BY <1>6, <1>7, <1>8, <1>9, <1>10, Zenon DEF DownInv, Acks
  <2>2. /\ Announces(d, p.top)
        /\ pcb.state # "CLOSED" => p.top <= UpPos(pcb.right_edge)
        /\ ~ app.opened => p.top <= 1 + TCP_WND
        /\ ~ app.closed => p.una <= Given(app)
    BY <1>4, Zenon DEF PeerTold
  <2>3. /\ DownSegs(down', app'.wrote) /\ Announces(down', 0)
        /\ pcb'.state # "CLOSED" => Below(down', Up + 2, UpPos(pcb'.right_edge))
        /\ peer'.st = "open" => Announces(down', peer'.top)
        /\ peer'.st = "open" /\ pcb'.state # "CLOSED" => peer'.top <= UpPos(pcb'.right_edge)
        /\ ~ app'.opened => Below(down', 1, 1 + TCP_WND) /\ peer'.top <= 1 + TCP_WND
        /\ ~ app'.closed => peer'.una <= Given(app')
        /\ ~ app'.closed => Acks(down', Given(app'))
    BY <1>1, <1>4, <2>1, <2>2, Zenon
  <2> QED
    BY <2>3, Zenon DEF DownInv, Acks
<1> QED
  BY <1>2, <1>5, <1>11


(* The kernel's answer to a packet, by its state. *)
LEMMA HandleIs ==
  ASSUME NEW p, NEW seg, NEW h, h = PeerHandle(p, seg), p.st \in {"syn", "open", "reset"},
         seg.rst \in BOOLEAN
  PROVE  \/ seg.rst /\ p.st = "reset" /\ h = [p |-> p, out |-> << >>]
         \/ ~ seg.rst /\ p.st = "reset" /\ h = [p |-> p, out |-> << RstSegment(seg.ack, SegEnd(seg)) >>]
         \/ seg.rst /\ p.st \in {"syn", "open"} /\ h = [p |-> [p EXCEPT !.st = "reset"], out |-> << >>]
         \/ p.st \in {"syn", "open"} /\ h = [p |-> p, out |-> << PeerAck(p) >>]
         \/ ~ seg.rst /\ seg.syn /\ p.st = "syn" /\ h = PeerOpen(p, seg)
         \/ ~ seg.rst /\ p.st = "open"
            /\ h = [p |-> PeerTake(PeerAcked(p, seg), seg), out |-> << PeerAck(PeerTake(PeerAcked(p, seg), seg)) >>]
         \/ ~ seg.rst /\ p.st = "open"
            /\ h = [p |-> PeerTake(PeerAcked(p, seg), seg), out |-> << >>]
<1>1. CASE p.st = "reset"
  <2>1. h = IF seg.rst THEN [p |-> p, out |-> << >>]
            ELSE [p |-> p, out |-> << RstSegment(seg.ack, SegEnd(seg)) >>]
    BY <1>1 DEF PeerHandle
  <2> QED
    BY <1>1, <2>1, Zenon
<1>2. CASE p.st = "syn" /\ seg.rst
  <2>1. h = [p |-> [p EXCEPT !.st = "reset"], out |-> << >>]
    BY <1>2 DEF PeerHandle
  <2> QED
    BY <1>2, <2>1
<1>3. CASE p.st = "syn" /\ ~ seg.rst
  <2>1. h = IF seg.syn THEN PeerOpen(p, seg) ELSE [p |-> p, out |-> << PeerAck(p) >>]
    BY <1>3 DEF PeerHandle
  <2> QED
    BY <1>3, <2>1
<1>4. CASE p.st = "open" /\ seg.rst
  <2>1. h = IF PosOf(seg.seq) = p.rcv THEN [p |-> [p EXCEPT !.st = "reset"], out |-> << >>]
            ELSE [p |-> p, out |-> << PeerAck(p) >>]
    BY <1>4 DEF PeerHandle
  <2> QED
    BY <1>4, <2>1
<1>5. CASE p.st = "open" /\ ~ seg.rst
  <2>1. PICK p1 : p1 = PeerTake(PeerAcked(p, seg), seg)
    OBVIOUS
  <2>2. h = IF TCP_TCPLEN(seg) > 0 THEN [p |-> p1, out |-> << PeerAck(p1) >>]
            ELSE [p |-> p1, out |-> << >>]
    BY <1>5, <2>1 DEF PeerHandle
  <2> QED
    BY <1>5, <2>1, <2>2, Zenon
<1> QED
  BY <1>1, <1>2, <1>3, <1>4, <1>5

(* A packet of the kernel that acknowledges the SYN comes from an open one. *)
LEMMA AckGrows ==
  ASSUME LwipInv, app' = app, peer.st \in {"open", "reset"} => peer'.st \in {"open", "reset"},
         NEW p, p.rcv \in Nat, p.unread \in 0..PeerBuf, p.nxt \in 0..(Up + 2),
         p.rcv = 0 \/ peer'.st \in {"open", "reset"}, up' = up \o << PeerAck(p) >>
  PROVE  UpInv'
<1>1. PICK x : x = PeerAck(p)
  OBVIOUS
<1>2. PICK pos : pos = p.nxt
  OBVIOUS
<1>3. x = PeerSegment(pos, << >>, FALSE, p)
  BY <1>1, <1>2, Zenon DEF PeerAck
<1>4. UpSeg(x) /\ ~ x.syn
  BY <1>2, <1>3, PeerAckIs
<1>5. up \in Seq(SegType) /\ x \in SegType
  BY <1>4 DEF LwipInv, UpInv, UpSeg
<1>6. up' = Append(up, x)
  BY <1>1, <1>5
<1>7. ASSUME p.rcv = 0 PROVE ~ AcksSyn(x)
  <2>1. x.ack = SeqAdd(LwipIss, p.rcv)
    BY <1>3 DEF PeerSegment, Segment
  <2>2. SeqAdd(LwipIss, 0) = LwipIss
    <3>1. PICK s : s = LwipIss
      OBVIOUS
    <3>2. SeqMod \in Nat \ {0} /\ s \in Int /\ s \in 0..(SeqMod - 1) /\ s + 0 = s
      BY <3>1, Constants DEF SeqNumbers
    <3>3. s % SeqMod = s
      BY <3>2, ModNear
    <3> QED
      BY <3>1, <3>2, <3>3 DEF SeqAdd
  <2> QED
    BY <1>7, <2>1, <2>2 DEF AcksSyn
<1>8. AcksSyn(x) => peer'.st \in {"open", "reset"}
  BY <1>7
<1> QED
  BY <1>4, <1>6, <1>8, UpGrows


LEMMA OpenOK ==
  ASSUME LwipInv, down # << >>, NEW seg, seg = Head(down), NEW d, d = Tail(down), ~ seg.rst,
         peer.st = "syn", NEW p, p = PeerOpen(peer, seg).p
  PROVE  /\ PeerOpen(peer, seg) = [p |-> p, out |-> << PeerAck(p) >>]
         /\ DOMAIN p = PeerFields /\ p.st = "open" /\ p.rcv = 1 /\ p.nxt = 1
         /\ PeerGot(p, app.wrote) /\ PeerTold(p, d)
<1>1. PICK a : a = UpPos(seg.ack)
  OBVIOUS
<1>2. PICK v : v = EdgeOf(seg)
  OBVIOUS
<1>3. PICK e : e = 1 + seg.wnd
  OBVIOUS
<1>4. /\ a \in 1..(Up + 2) /\ v \in Nat /\ (\A z \in Nat : z <= v => Announces(d, z))
      /\ seg \in SegType
      /\ pcb.state # "CLOSED" => v <= UpPos(pcb.right_edge)
      /\ ~ app.opened => v <= 1 + TCP_WND
  BY <1>1, <1>2, TakenDown
<1>5. v = a + seg.wnd /\ seg.wnd \in Nat
  BY <1>1, <1>2, <1>4 DEF EdgeOf, SegType
<1>6. e \in Nat /\ e <= v
  <2>1. PICK z : z = seg.wnd
    OBVIOUS
  <2>2. z \in Nat /\ e = 1 + z /\ v = a + z /\ a \in Nat /\ a >= 1
    BY <1>3, <1>4, <1>5, <2>1, Constants
  <2> QED
    BY <2>2
<1>7. /\ DOMAIN peer = PeerFields /\ peer.got = << >> /\ ~ peer.fin /\ peer.fin \in BOOLEAN
      /\ peer.unread = 0
  BY DEF PeerFields, LwipInv, PeerInv
<1>8. /\ DOMAIN p = PeerFields /\ p.st = "open" /\ p.rcv = 1 /\ p.una = 1 /\ p.nxt = 1
      /\ p.edge = e /\ p.top = e
      /\ p.got = << >> /\ ~ p.fin /\ p.fin \in BOOLEAN /\ p.unread = 0
  <2>1. p = [peer EXCEPT !.st = "open", !.rcv = 1, !.una = 1, !.nxt = 1, !.edge = e, !.top = e]
    BY <1>3 DEF PeerOpen
  <2> QED
    BY <1>7, <2>1 DEF PeerFields
<1>0. PeerOpen(peer, seg) = [p |-> p, out |-> << PeerAck(p) >>]
  BY DEF PeerOpen
<1>9. app.wrote \in Nat /\ Given(app) \in Nat /\ Given(app) >= 1
  BY GivenIs DEF LwipInv, PcbInv
<1>10. PeerGot(p, app.wrote)
  <2>1. PICK o : o = p.got
    OBVIOUS
  <2>2. o = << >> /\ o \in Seq(Nat) /\ Len(o) = 0
    BY <1>8, <2>1
  <2>3. PICK w : w = app.wrote
    OBVIOUS
  <2>4. w \in Nat /\ 0 \in 0..PeerBuf
    BY <1>9, <2>3, Constants
  <2>5. PICK f : f = p.fin
    OBVIOUS
  <2>6. f = FALSE /\ (\A i \in 1..Len(o) : o[i] = i) /\ Len(o) <= w
        /\ 1 = 1 + Len(o) + (IF f THEN 1 ELSE 0)
    <3>1. f = FALSE
      BY <1>8, <2>5, Zenon
    <3> QED
      BY <2>2, <2>4, <3>1
  <2>7. p.rcv = 1 /\ p.unread = 0 /\ 1 \in Nat
    BY <1>8
  <2>8. PeerGot(p, w)
    BY <2>1, <2>2, <2>4, <2>5, <2>6, <2>7, Zenon DEF PeerGot
  <2> QED
    BY <2>3, <2>8
<1>11. PeerTold(p, d)
  <2>1. pcb.state # "CLOSED" => UpPos(pcb.right_edge) \in Nat
    BY Constants DEF LwipInv, PcbInv, Alive, RcvOK
  <2>2. Announces(d, e)
    BY <1>4, <1>6
  <2>3. pcb.state # "CLOSED" => e <= UpPos(pcb.right_edge)
    BY <1>4, <1>6, <2>1
  <2>4. ~ app.opened => e <= 1 + TCP_WND
    <3>1. PICK z : z = 1 + TCP_WND
      OBVIOUS
    <3>2. z \in Nat
      BY <3>1, Constants
    <3> QED
      BY <1>4, <1>6, <3>1, <3>2
  <2>5. 1 \in 1..(Up + 2)
    BY Constants
  <2> QED
    BY <1>6, <1>8, <1>9, <2>2, <2>3, <2>4, <2>5, Constants DEF PeerTold
<1> QED
  BY <1>0, <1>8, <1>10, <1>11


LEMMA PeerInputKeeps ==
  ASSUME LwipInv, PeerInput
  PROVE  LwipInv'
<1>1. PICK seg : seg = Head(down)
  OBVIOUS
<1>2. PICK d : d = Tail(down)
  OBVIOUS
<1>3. PICK h : h = PeerHandle(peer, seg)
  OBVIOUS
<1>4. /\ down # << >> /\ down' = d /\ down' = Tail(down) /\ peer' = h.p /\ up' = up \o h.out
      /\ UNCHANGED << pcb, app >> /\ app' = app
  BY <1>1, <1>2, <1>3 DEF PeerInput
<1>5. /\ seg \in SegType /\ DownSeg(seg, app.wrote) /\ peer.st # "closed"
  BY <1>1, <1>2, <1>4, TakenDown
<1>6. seg.rst \in BOOLEAN /\ seg.ack \in SeqNumbers /\ SegEnd(seg) \in SeqNumbers
  BY <1>5, SegmentFields, SegEndType
<1>7. /\ DOMAIN peer = PeerFields /\ peer.rcv \in Nat /\ peer.unread \in 0..PeerBuf
      /\ peer.una \in 0..(Up + 2) /\ peer.nxt \in peer.una..(Up + 2) /\ peer.edge \in Nat /\ peer.top \in Nat
      /\ peer.st \in {"syn", "open", "reset"}
      /\ peer.st = "syn" => peer.rcv = 0
      /\ up \in Seq(SegType)
  BY <1>5 DEF LwipInv, PeerInv, PeerFields, UpInv
<1>8. peer.nxt \in 0..(Up + 2)
  BY <1>7, Constants
<1>9. ASSUME h.out = << >>, peer.st \in {"open", "reset"} => h.p.st \in {"open", "reset"}
      PROVE  UpInv'
  <2>1. up' = up
    BY <1>4, <1>7, <1>9
  <2> QED
    BY <1>4, <1>9, <2>1, UpSame
<1>10. \/ seg.rst /\ peer.st = "reset" /\ h = [p |-> peer, out |-> << >>]
       \/ ~ seg.rst /\ peer.st = "reset"
          /\ h = [p |-> peer, out |-> << RstSegment(seg.ack, SegEnd(seg)) >>]
       \/ seg.rst /\ peer.st \in {"syn", "open"}
          /\ h = [p |-> [peer EXCEPT !.st = "reset"], out |-> << >>]
       \/ peer.st \in {"syn", "open"} /\ h = [p |-> peer, out |-> << PeerAck(peer) >>]
       \/ ~ seg.rst /\ seg.syn /\ peer.st = "syn" /\ h = PeerOpen(peer, seg)
       \/ ~ seg.rst /\ peer.st = "open"
          /\ h = [p |-> PeerTake(PeerAcked(peer, seg), seg),
                  out |-> << PeerAck(PeerTake(PeerAcked(peer, seg), seg)) >>]
       \/ ~ seg.rst /\ peer.st = "open"
          /\ h = [p |-> PeerTake(PeerAcked(peer, seg), seg), out |-> << >>]
  BY <1>3, <1>6, <1>7, HandleIs
<1>11. ASSUME h.p = peer PROVE PcbInv' /\ DownInv' /\ PeerInv'
  <2>1. peer' = peer
    BY <1>4, <1>11
  <2>2. PcbInv' /\ DownInv' /\ PeerInv'
    BY <1>4, <1>7, <2>1, PeerSameFields
  <2> QED
    BY <1>7, <2>1, <2>2, Constants
<1>12. CASE h = [p |-> peer, out |-> << >>]
  <2>1. h.p = peer /\ h.out = << >>
    BY <1>12
  <2> QED
    BY <1>9, <1>11, <2>1 DEF LwipInv
<1>13. CASE ~ seg.rst /\ peer.st = "reset"
            /\ h = [p |-> peer, out |-> << RstSegment(seg.ack, SegEnd(seg)) >>]
  <2>1. PICK x : x = RstSegment(seg.ack, SegEnd(seg))
    OBVIOUS
  <2>2. h.p = peer /\ h.out = << x >>
    BY <1>13, <2>1
  <2>3. UpSeg(x) /\ ~ x.syn /\ x.rst
    BY <1>6, <2>1, RstUpSeg
  <2>4. x \in SegType /\ up' = up \o << x >>
    BY <1>4, <2>2, <2>3 DEF UpSeg
  <2>5. up' = Append(up, x)
    BY <1>7, <2>4
  <2>6. ~ AcksSyn(x) /\ peer'.st = peer.st
    BY <1>4, <2>2, <2>3 DEF AcksSyn
  <2>7. UpInv'
    BY <1>4, <2>3, <2>5, <2>6, UpGrows
  <2> QED
    BY <1>11, <2>2, <2>7 DEF LwipInv
<1>14. CASE seg.rst /\ peer.st \in {"syn", "open"}
            /\ h = [p |-> [peer EXCEPT !.st = "reset"], out |-> << >>]
  <2>1. PICK p : p = [peer EXCEPT !.st = "reset"]
    OBVIOUS
  <2>2. h.p = p /\ h.out = << >> /\ peer' = p
    BY <1>4, <1>14, <2>1
  <2>3. /\ DOMAIN p = PeerFields /\ p.st = "reset" /\ p.una = peer.una /\ p.nxt = peer.nxt
        /\ p.rcv = peer.rcv /\ p.top = peer.top /\ p.edge = peer.edge /\ p.got = peer.got /\ p.unread = peer.unread
        /\ p.fin = peer.fin
    BY <1>7, <2>1 DEF PeerFields
  <2>4. PcbInv' /\ DownInv' /\ PeerInv'
    BY <1>4, <2>2, <2>3, PeerSameFields
  <2>5. UpInv'
    BY <1>9, <2>2, <2>3
  <2> QED
    BY <2>4, <2>5 DEF LwipInv
<1>15. CASE peer.st \in {"syn", "open"} /\ h = [p |-> peer, out |-> << PeerAck(peer) >>]
  <2>1. h.p = peer /\ h.out = << PeerAck(peer) >>
    BY <1>15
  <2>2. peer' = peer /\ up' = up \o << PeerAck(peer) >>
    BY <1>4, <2>1, Zenon
  <2>3. peer.rcv = 0 \/ peer'.st \in {"open", "reset"}
    BY <1>7, <1>15, <2>2
  <2>4. UpInv'
    BY <1>4, <1>7, <1>8, <2>2, <2>3, AckGrows
  <2> QED
    BY <1>11, <2>1, <2>4 DEF LwipInv
<1>16. CASE ~ seg.rst /\ seg.syn /\ peer.st = "syn" /\ h = PeerOpen(peer, seg)
  <2>1. PICK p : p = PeerOpen(peer, seg).p
    OBVIOUS
  <2>2. /\ PeerOpen(peer, seg) = [p |-> p, out |-> << PeerAck(p) >>]
        /\ DOMAIN p = PeerFields /\ p.st = "open" /\ p.rcv = 1 /\ p.nxt = 1
        /\ PeerGot(p, app.wrote) /\ PeerTold(p, d)
    BY <1>1, <1>2, <1>4, <1>16, <2>1, OpenOK
  <2>3. h.p = p /\ h.out = << PeerAck(p) >>
    BY <1>16, <2>2
  <2>4. peer' = p /\ up' = up \o << PeerAck(p) >>
    BY <1>4, <2>3, Zenon
  <2>5. PcbInv' /\ DownInv' /\ PeerInv'
    BY <1>2, <1>4, <2>2, <2>4, PeerTakes
  <2>6. p.rcv \in Nat /\ p.unread \in 0..PeerBuf /\ p.nxt \in 0..(Up + 2)
    BY <2>2, Constants DEF PeerGot
  <2>7. UpInv'
    BY <1>4, <2>2, <2>4, <2>6, AckGrows
  <2> QED
    BY <1>16, <2>5, <2>7 DEF LwipInv
<1>17. ASSUME ~ seg.rst, peer.st = "open", h.p = PeerTake(PeerAcked(peer, seg), seg)
       PROVE  /\ PcbInv' /\ DownInv' /\ PeerInv' /\ peer'.st = "open"
              /\ peer'.rcv \in Nat /\ peer'.unread \in 0..PeerBuf /\ peer'.nxt \in 0..(Up + 2)
  <2>1. PICK q : q = PeerAcked(peer, seg)
    OBVIOUS
  <2>2. PICK p : p = PeerTake(q, seg)
    OBVIOUS
  <2>3. peer' = p
    BY <1>4, <1>17, <2>1, <2>2, Zenon
  <2>4. /\ DOMAIN q = PeerFields /\ q.st = "open" /\ q.rcv = peer.rcv /\ q.got = peer.got
        /\ q.fin = peer.fin /\ q.unread = peer.unread
        /\ PeerTold(q, d)
    BY <1>1, <1>2, <1>4, <1>17, <2>1, PeerAckedOK
  <2>5. PeerGot(peer, app.wrote)
    BY <1>17 DEF LwipInv, PeerInv, PeerGot
  <2>6. PeerGot(q, app.wrote)
    BY <2>4, <2>5, Zenon DEF PeerGot
  <2>7. app.wrote \in Nat
    BY GivenIs DEF LwipInv, PcbInv
  <2>8. /\ DOMAIN p = PeerFields /\ p.st = q.st /\ p.una = q.una /\ p.nxt = q.nxt /\ p.top = q.top /\ p.edge = q.edge
        /\ PeerGot(p, app.wrote)
    BY <1>5, <2>2, <2>4, <2>6, <2>7, PeerTakeOK
  <2>9. PeerTold(p, d)
    BY <2>4, <2>8, Zenon DEF PeerTold
  <2>10. p.st = "open"
    BY <2>4, <2>8
  <2>11. PcbInv' /\ DownInv' /\ PeerInv'
    BY <1>2, <1>4, <2>3, <2>8, <2>9, <2>10, PeerTakes
  <2>12. p.rcv \in Nat /\ p.unread \in 0..PeerBuf
    BY <2>8 DEF PeerGot
  <2>13. p.una \in 1..(Up + 2) /\ p.nxt \in p.una..(Up + 2)
    BY <2>9 DEF PeerTold
  <2>14. p.nxt \in 0..(Up + 2)
    BY <2>13, Constants
  <2> QED
    BY <2>3, <2>4, <2>8, <2>10, <2>11, <2>12, <2>14
<1>18. CASE ~ seg.rst /\ peer.st = "open"
            /\ h = [p |-> PeerTake(PeerAcked(peer, seg), seg),
                    out |-> << PeerAck(PeerTake(PeerAcked(peer, seg), seg)) >>]
  <2>1. PICK p : p = PeerTake(PeerAcked(peer, seg), seg)
    OBVIOUS
  <2>2. h = [p |-> p, out |-> << PeerAck(p) >>]
    BY <1>18, <2>1, Zenon
  <2>3. h.p = p /\ h.out = << PeerAck(p) >>
    BY <2>2
  <2>4. /\ PcbInv' /\ DownInv' /\ PeerInv' /\ peer'.st = "open"
        /\ peer'.rcv \in Nat /\ peer'.unread \in 0..PeerBuf /\ peer'.nxt \in 0..(Up + 2)
    BY <1>17, <1>18, <2>1, <2>3, Zenon
  <2>5. peer' = p /\ up' = up \o << PeerAck(p) >>
    BY <1>4, <2>3, Zenon
  <2>6. UpInv'
    BY <1>4, <2>4, <2>5, AckGrows
  <2> QED
    BY <2>4, <2>6 DEF LwipInv
<1>19. CASE ~ seg.rst /\ peer.st = "open"
            /\ h = [p |-> PeerTake(PeerAcked(peer, seg), seg), out |-> << >>]
  <2>1. PICK p : p = PeerTake(PeerAcked(peer, seg), seg)
    OBVIOUS
  <2>2. h = [p |-> p, out |-> << >>]
    BY <1>19, <2>1, Zenon
  <2>3. h.p = p /\ h.out = << >>
    BY <2>2
  <2>4. /\ PcbInv' /\ DownInv' /\ PeerInv' /\ peer'.st = "open"
    BY <1>17, <1>19, <2>1, <2>3, Zenon
  <2>5. UpInv'
    BY <1>4, <1>9, <2>3, <2>4
  <2> QED
    BY <2>4, <2>5 DEF LwipInv
<1> QED
  BY <1>10, <1>12, <1>13, <1>14, <1>15, <1>16, <1>18, <1>19


-----------------------------------------------------------------------------
(* The invariant holds at the start and every step keeps it. *)

LEMMA InitInv ==
  ASSUME Init
  PROVE  LwipInv
<1>1. /\ pcb = tcp_alloc /\ app = AppInit /\ up = << >> /\ down = << >>
      /\ peer = [st |-> "closed", una |-> 0, nxt |-> 0, rcv |-> 0, edge |-> 1, top |-> 1,
                 got |-> << >>, unread |-> 0, fin |-> FALSE]
  BY DEF Init
<1>2. /\ up \in Seq(SegType) /\ Len(up) = 0 /\ down \in Seq(SegType) /\ Len(down) = 0
      /\ 1..0 = {}
  BY <1>1
<1>3. /\ DOMAIN pcb = Fields /\ pcb.state = "CLOSED" /\ pcb.cb = FALSE /\ pcb.rxclosed = FALSE
      /\ pcb.closepend = FALSE /\ pcb.inInput = FALSE /\ pcb.tfClosed = FALSE /\ pcb.out = << >>
  BY <1>1 DEF tcp_alloc, Fields
<1>4. /\ DOMAIN app = DOMAIN AppInit /\ app.opened = FALSE /\ app.closed = FALSE /\ app.wrote = 0
      /\ app.owed = 0 /\ app.got = << >> /\ app.fins = 0 /\ app.errs = 0
  BY <1>1 DEF AppInit
<1>5. AppOK(app)
  <2>1. PICK o : o = app.got
    OBVIOUS
  <2>2. o \in Seq(Nat) /\ Len(o) = 0 /\ o = << >> /\ \A i \in 1..Len(o) : o[i] = i
    BY <1>4, <2>1
  <2>3. Len(o) <= Up /\ 0 \in 0..Down
    BY <2>2, Constants
  <2>4. PICK f : f = FALSE
    OBVIOUS
  <2>5. app.opened = f /\ app.closed = f
    BY <1>4, <2>4
  <2>6. /\ app.opened \in BOOLEAN /\ app.closed \in BOOLEAN
        /\ app.closed => app.opened
    BY <2>4, <2>5, Zenon
  <2>7. app.wrote \in 0..Down /\ app.owed \in Nat /\ app.fins \in 0..1 /\ app.errs \in 0..1
        /\ app.fins # 1 /\ ~ (app.errs > 0)
    BY <1>4, <2>3
  <2> QED
    BY <1>4, <2>1, <2>2, <2>3, <2>6, <2>7, Zenon DEF AppOK
<1>6. Ctl(pcb)
  BY <1>3 DEF Ctl, States
<1>7. PcbInv
  <2>1. Held(pcb, app)
    BY <1>3 DEF Held
  <2>2. SynRcvd(pcb, app)
    BY <1>3 DEF SynRcvd
  <2> QED
    BY <1>3, <1>4, <1>5, <1>6, <2>1, <2>2 DEF PcbInv
<1>8. /\ DOMAIN peer = {"st", "una", "nxt", "rcv", "edge", "top", "got", "unread", "fin"}
      /\ peer.st = "closed" /\ peer.una = 0 /\ peer.nxt = 0 /\ peer.rcv = 0 /\ peer.edge = 1 /\ peer.top = 1
      /\ peer.got = << >> /\ peer.unread = 0 /\ peer.fin = FALSE
  BY <1>1
<1>9. PeerInv
  <2>1. peer.got \in Seq(Nat) /\ Len(peer.got) = 0
    BY <1>8
  <2>2. 0 \in 0..PeerBuf /\ 0 \in 0..(Up + 2)
    BY Constants
  <2>3. peer.edge \in Nat /\ peer.top \in Nat /\ peer.edge + WndUnit > peer.top
    BY <1>8, TcpConstants
  <2> QED
    BY <1>1, <1>3, <1>4, <1>8, <2>1, <2>2, <2>3 DEF PeerInv
<1>10. UpInv
  BY <1>2, <1>4 DEF UpInv
<1>11. DownInv
  <2>1. DownSegs(down, app.wrote) /\ Announces(down, 0) /\ Below(down, 1, 1 + TCP_WND)
    BY <1>2 DEF DownSegs, Announces, Below
  <2>2. peer.top <= 1 + TCP_WND /\ peer.una <= Given(app)
    BY <1>4, <1>8, Constants DEF Given
  <2> QED
    BY <1>2, <1>3, <1>4, <1>8, <2>1, <2>2 DEF DownInv
<1> QED
  BY <1>7, <1>9, <1>10, <1>11 DEF LwipInv

LEMMA NextInv ==
  ASSUME LwipInv, [Next]_vars
  PROVE  LwipInv'
<1>1. CASE Input
  BY <1>1, InputKeeps
<1>2. ASSUME NEW n \in 1..Down, AppWrite(n) PROVE LwipInv'
  BY <1>2, AppWriteKeeps
<1>3. ASSUME NEW n \in 1..Up, AppRecved(n) PROVE LwipInv'
  BY <1>3, AppRecvedKeeps
<1>4. ASSUME NEW n \in 0..Down, NEW mem \in BOOLEAN, AppClose(n, mem) PROVE LwipInv'
  BY <1>4, AppCloseKeeps
<1>5. CASE AppAbort
  BY <1>5, AppAbortKeeps
<1>6. CASE AbortAll
  BY <1>6, AbortAllKeeps
<1>7. ASSUME NEW mem \in BOOLEAN, Fasttmr(mem) PROVE LwipInv'
  BY <1>7, FasttmrKeeps
<1>8. ASSUME NEW due \in BOOLEAN, NEW lapsed \in BOOLEAN, Slowtmr(due, lapsed) PROVE LwipInv'
  BY <1>8, SlowtmrKeeps
<1>9. CASE TimeWaitOver
  BY <1>9, TimeWaitOverKeeps
<1>10. CASE PeerSyn
  BY <1>10, PeerSynKeeps
<1>11. ASSUME NEW n \in 0..TCP_MSS, NEW fin \in BOOLEAN, PeerSend(n, fin) PROVE LwipInv'
  BY <1>11, PeerSendKeeps
<1>12. CASE PeerTimeout
  BY <1>12, PeerTimeoutKeeps
<1>13. ASSUME NEW n \in 1..PeerBuf, PeerRead(n) PROVE LwipInv'
  BY <1>13, PeerReadKeeps
<1>14. CASE PeerReset
  BY <1>14, PeerResetKeeps
<1>15. CASE PeerInput
  BY <1>15, PeerInputKeeps
<1>16. CASE Lose
  BY <1>16, LoseKeeps
<1>17. CASE UNCHANGED vars
  <2>1. /\ UNCHANGED << pcb, app >> /\ pcb' = pcb /\ app' = app /\ peer' = peer /\ up' = up
        /\ down' = down
    BY <1>17 DEF vars
  <2>2. PcbInv' /\ DownInv'
    BY <2>1, DownSame
  <2>3. UpInv'
    BY <2>1, UpSame
  <2>4. PeerInv'
    BY <2>1 DEF LwipInv, PeerInv
  <2> QED
    BY <2>2, <2>3, <2>4 DEF LwipInv
<1> QED
  BY <1>1, <1>2, <1>3, <1>4, <1>5, <1>6, <1>7, <1>8, <1>9, <1>10, <1>11, <1>12, <1>13, <1>14,
     <1>15, <1>16, <1>17, Zenon DEF Next


-----------------------------------------------------------------------------
(* The theorems. *)

(* The inductive invariant: the control block, the tunnel's object, the    *)
(* kernel and both directions of the link agree in every reachable state.  *)
THEOREM LwipTcpInvariant == Spec => []LwipInv
<1>1. Init => LwipInv
  BY InitInv
<1>2. LwipInv /\ [Next]_vars => LwipInv'
  BY NextInv
<1> QED
  BY <1>1, <1>2, PTL DEF Spec

(* lwIP holds the callbacks exactly while the tunnel holds the connection, *)
(* and reports an error at most once (tcp_err_cb, lwip_bridge_tcp_close).  *)
THEOREM LwipTcpNoOrphan == Spec => []NoOrphan
<1>1. ASSUME LwipInv PROVE NoOrphan
  <2>1. Ctl(pcb) /\ AppOK(app) /\ (pcb.cb <=> app.opened /\ ~ app.closed)
    BY <1>1 DEF LwipInv, PcbInv
  <2>2. pcb.cb => Active
    BY <2>1 DEF Ctl, Active
  <2>3. app.errs <= 1
    BY <2>1 DEF AppOK
  <2> QED
    BY <2>1, <2>2, <2>3 DEF NoOrphan
<1> QED
  BY <1>1, LwipTcpInvariant, PTL

(* The receive window is short of exactly what the tunnel has not taken,   *)
(* over FINs, cut segments and retransmissions (tcp_receive, tcp_recved).  *)
THEOREM LwipTcpConservesWindow == Spec => []WindowConserved
<1>1. ASSUME LwipInv PROVE WindowConserved
  BY <1>1 DEF LwipInv, PcbInv, Held, WindowConserved
<1> QED
  BY <1>1, LwipTcpInvariant, PTL

(* What lwIP has acknowledged, and what the client takes as acknowledged,  *)
(* was given to the tunnel (tcp_receive, tcp_recv_cb).                     *)
THEOREM LwipTcpAckedIsDelivered == Spec => []AckedIsDelivered
<1>1. ASSUME LwipInv PROVE AckedIsDelivered
  <2>1. SUFFICES ASSUME pcb.cb
                 PROVE  /\ pcb.rcv_nxt = SeqAdd(PeerIss, 1 + Len(app.got) + app.fins)
                        /\ peer.una <= 1 + Len(app.got) + app.fins
    BY DEF AckedIsDelivered
  <2>2. PICK n : n = 1 + Len(app.got) + app.fins
    OBVIOUS
  <2>3. n = Given(app)
    BY <2>2 DEF Given
  <2>4. /\ Ctl(pcb) /\ Held(pcb, app) /\ ~ app.closed
        /\ pcb.state # "CLOSED" => Alive(pcb, app.wrote, UpPos(pcb.right_edge))
    BY <1>1, <2>1 DEF LwipInv, PcbInv
  <2>5. pcb.state # "CLOSED"
    BY <2>1, <2>4 DEF Ctl
  <2>6. pcb.rcv_nxt \in SeqNumbers /\ UpPos(pcb.rcv_nxt) = n
    BY <2>1, <2>3, <2>4, <2>5 DEF Alive, RcvOK, Held
  <2>7. n \in SeqNumbers
    BY <2>6, Positions
  <2>8. /\ SeqAdd(PeerIss, n) \in SeqNumbers /\ SeqDiff(SeqAdd(PeerIss, n), PeerIss) = n
        /\ PeerIss \in SeqNumbers
    BY <2>7, BasePosition, Constants
  <2>9. pcb.rcv_nxt = SeqAdd(PeerIss, n)
    BY <2>6, <2>8, SamePosition DEF UpPos
  <2>10. peer.una <= n
    BY <1>1, <2>3, <2>4 DEF LwipInv, DownInv
  <2> QED
    BY <2>2, <2>9, <2>10
<1> QED
  BY <1>1, LwipTcpInvariant, PTL

(* A stream whose i-th byte is i is Bytes of its length. *)
LEMMA InOrderIsBytes ==
  ASSUME NEW s \in Seq(Nat), \A i \in 1..Len(s) : s[i] = i
  PROVE  s = Bytes(1, Len(s))
<1>1. PICK n : n = Len(s)
  OBVIOUS
<1>2. n \in Nat /\ s = [i \in 1..n |-> s[i]]
  BY <1>1
<1>3. n - 1 + 1 = n
  BY <1>2
<1>4. Bytes(1, n) = [i \in 1..n |-> 1 + i - 1]
  BY <1>3 DEF Bytes
<1>5. ASSUME NEW i \in 1..n PROVE s[i] = 1 + i - 1
  <2>1. s[i] = i
    BY <1>1
  <2>2. i = 1 + i - 1
    BY <1>2
  <2> QED
    BY <2>1, <2>2
<1>6. s = [i \in 1..n |-> 1 + i - 1]
  BY <1>2, <1>5
<1> QED
  BY <1>1, <1>4, <1>6

(* Both streams arrive in order, each byte once, and the client's FIN is   *)
(* told once and last, for every loss, retransmission, split and cut       *)
(* (tcp_output, tcp_rexmit, tcp_receive, the callbacks of tcp_input).      *)
THEOREM LwipTcpStreamsInOrder == Spec => []StreamsInOrder
<1>1. ASSUME LwipInv PROVE StreamsInOrder
  <2>1. /\ peer.got \in Seq(Nat) /\ Len(peer.got) <= app.wrote
        /\ \A i \in 1..Len(peer.got) : peer.got[i] = i
    BY <1>1 DEF LwipInv, PeerInv
  <2>2. AppOK(app)
    BY <1>1 DEF LwipInv, PcbInv
  <2>3. /\ app.got \in Seq(Nat) /\ (\A i \in 1..Len(app.got) : app.got[i] = i)
        /\ app.fins \in 0..1 /\ (app.fins = 1 => Len(app.got) = Up)
    BY <2>2 DEF AppOK
  <2>4. peer.got = Bytes(1, Len(peer.got))
    BY <2>1, InOrderIsBytes
  <2>5. app.got = Bytes(1, Len(app.got))
    BY <2>3, InOrderIsBytes
  <2>6. app.fins = 0 \/ (app.fins = 1 /\ Len(app.got) = Up)
    BY <2>3
  <2> QED
    BY <2>1, <2>4, <2>5, <2>6 DEF StreamsInOrder
<1> QED
  BY <1>1, LwipTcpInvariant, PTL

(* The edge of the window the client was given is never a unit of the      *)
(* window field behind one it was given before (tcp_update_rcv_ann_wnd,    *)
(* tcp_output_segment), for every unit: the edges on the link are each     *)
(* less than a unit behind the edge lwIP remembers, which only grows.      *)
THEOREM LwipTcpEdgeHeldToUnit == Spec => []EdgeHeldToUnit
<1>1. LwipInv => EdgeHeldToUnit
  BY DEF LwipInv, PeerInv, EdgeHeldToUnit
<1> QED
  BY <1>1, LwipTcpInvariant, PTL
=============================================================================
