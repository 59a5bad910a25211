------------------------------ MODULE LwipTcp ------------------------------
(***************************************************************************)
(* One TCP connection through the tunnel: the client's kernel, the TUN     *)
(* link, lwIP's control block for the connection, and the Kotlin object    *)
(* (LwipTcpConnection) that lwIP calls back.                               *)
(*                                                                         *)
(* An lwIP action is a whole call into lwIP: a packet (tcp_input with the  *)
(* callbacks it makes), a timer tick, or a call of the tunnel.  They run   *)
(* on one thread, so none interrupts another.  The link keeps order and    *)
(* may lose packets; the kernel (external) is an ordinary TCP endpoint     *)
(* that goes back and sends again.                                         *)
(*                                                                         *)
(* Bytes are numbered: the tunnel writes 1, 2, ... Down, the client sends  *)
(* 1, 2, ... Up.  Position 0 of a stream is the SYN.                       *)
(***************************************************************************)
EXTENDS LwipTcpIn

CONSTANTS
    Down,           \* bytes the tunnel may write to the client
    Up,             \* bytes the client sends
    PeerBuf,        \* receive buffer of the client's kernel
    LwipIss, PeerIss,   \* initial sequence numbers
    LinkCap,        \* packets in one direction of the link (bound)
    Losses,         \* packets the link may lose (bound)
    MemFails,       \* may the allocation of a segment for a FIN fail?
    SplitFin,       \* may the persist timer find a FIN on a short window?
    Rejects         \* may the tunnel reject inside the receive callback?

ASSUME LwipTcpConstants ==
    /\ {Down, Up, Losses} \subseteq Nat
    /\ {PeerBuf, LinkCap} \subseteq Nat \ {0}
    /\ {LwipIss, PeerIss} \subseteq 0..(SeqMod - 1)
    /\ SeqMod \div 2 > Down + 2 /\ SeqMod \div 2 > Up + 2
    /\ {SplitFin, Rejects, MemFails} \subseteq BOOLEAN

VARIABLES
    pcb,    \* lwIP's control block; state CLOSED: there is none
    app,    \* the tunnel's LwipTcpConnection
    peer,   \* the client's kernel
    up,     \* packets from the kernel to lwIP
    down,   \* packets from lwIP to the kernel
    lost    \* packets lost so far

vars == << pcb, app, peer, up, down, lost >>

Bytes(m, n) == [i \in 1..(n - m + 1) |-> m + i - 1]

AppInit == [opened |-> FALSE, closed |-> FALSE, wrote |-> 0, got |-> << >>,
            owed |-> 0, fins |-> 0, errs |-> 0]

Init ==
    /\ pcb = tcp_alloc
    /\ app = AppInit
    /\ peer = [st |-> "closed", una |-> 0, nxt |-> 0, rcv |-> 0, edge |-> 1, top |-> 1,
               got |-> << >>, unread |-> 0, fin |-> FALSE]
    /\ up = << >> /\ down = << >>
    /\ lost = 0

-----------------------------------------------------------------------------
(* What a call into lwIP leaves: the pcb, without the packets it sent. *)
Leave(p, a) ==
    /\ pcb' = [p EXCEPT !.out = << >>, !.inInput = FALSE, !.tfClosed = FALSE]
    /\ app' = a
    /\ down' = down \o p.out

(* mem: the allocation succeeds. *)
Memory(mem) == mem \/ MemFails

Active == pcb.state \notin {"CLOSED", "TIME_WAIT"}

(* feedLwip with n bytes the tunnel has pending; tcp_write may refuse them. *)
CanWrite(p, a, n) ==
    a.wrote + n <= Down /\ (n = 0 \/ tcp_write_checks(p, n) = "ERR_OK")

Written(p, a, n) == IF n = 0 THEN p ELSE tcp_write(p, Bytes(a.wrote + 1, a.wrote + n))

MutantCallbacksKept(p, mem) == tcp_close(p, mem)

(* lwip_bridge_tcp_close: the callbacks are taken off before tcp_close. *)
lwip_bridge_tcp_close(p, mem) == tcp_close([p EXCEPT !.cb = FALSE], mem)

(* handleError: lwIP has freed the pcb; the tunnel drops the connection. *)
tcp_err_cb(p, a) == IF p.cb THEN [a EXCEPT !.closed = TRUE, !.errs = @ + 1] ELSE a

-----------------------------------------------------------------------------
(* The callbacks of tcp_input.  r says what the tunnel does inside them:   *)
(* bytes it writes when told of sent ones, whether it rejects when it has  *)
(* read a name, whether it closes when the client has.                     *)
tcp_sent_cb(w, r) ==
    LET n == r.write
    IN  IF w.in.recv_acked = 0 \/ ~ w.in.pcb.cb \/ ~ CanWrite(w.in.pcb, w.app, n) THEN w
        ELSE [w EXCEPT !.in.pcb = Written(@, w.app, n), !.app.wrote = @ + n]

(* rejectGracefully: take all that was received, then close. *)
Reject(w, mem) ==
    [w EXCEPT !.in.pcb = lwip_bridge_tcp_close(tcp_recved(@, w.app.owed), mem),
              !.app.closed = TRUE]

tcp_recv_cb(w, r) ==
    LET data == w.in.recv_data
        given == [w EXCEPT !.app.got = @ \o data, !.app.owed = @ + Len(data)]
    IN  IF data = << >> THEN w
        ELSE IF w.in.pcb.rxclosed
        THEN [w EXCEPT !.in.pcb = tcp_abandon(@), !.in.aborted = TRUE]
        ELSE IF ~ w.in.pcb.cb THEN [w EXCEPT !.in.pcb = tcp_recved(@, Len(data))]
        ELSE IF r.reject THEN Reject(given, r.mem) ELSE given

MutantFinKeepsWindow(w, r) ==
    LET told == [w EXCEPT !.app.fins = @ + 1]
    IN  IF ~ w.in.got_fin \/ ~ w.in.pcb.cb THEN w
        ELSE IF r.close
        THEN [told EXCEPT !.in.pcb = lwip_bridge_tcp_close(@, r.mem), !.app.closed = TRUE]
        ELSE told

fin_cb(w, r) ==
    LET p == [w.in.pcb EXCEPT !.rcv_wnd = Smaller(@ + 1, TCP_WND)]
        told == [w EXCEPT !.in.pcb = p, !.app.fins = @ + 1]
    IN  IF ~ w.in.got_fin THEN w
        ELSE IF ~ p.cb THEN [w EXCEPT !.in.pcb = p]
        ELSE IF r.close
        THEN [told EXCEPT !.in.pcb = lwip_bridge_tcp_close(p, r.mem), !.app.closed = TRUE]
        ELSE told

(* tcp_input_delayed_close: TF_CLOSED frees the pcb between callbacks. *)
tcp_input_delayed_close(w) ==
    IF w.in.aborted \/ ~ w.in.pcb.tfClosed THEN w
    ELSE [w EXCEPT !.app = IF w.in.pcb.rxclosed THEN @ ELSE tcp_err_cb(w.in.pcb, @),
                   !.in.pcb = Freed(@), !.in.aborted = TRUE]

Unless(w, next) == IF w.in.aborted THEN w ELSE next

(* tcp_input for a segment of this connection. *)
tcp_input(p, a, seg, r) ==
    LET in0 == [pcb |-> [p EXCEPT !.inInput = TRUE], recv_acked |-> 0, recv_data |-> << >>,
                got_fin |-> FALSE, reset |-> FALSE, aborted |-> FALSE]
        in1 == tcp_process(in0, seg, r.accept)
        w1 == [in |-> in1, app |-> IF in1.pcb.cb THEN [a EXCEPT !.opened = TRUE] ELSE a]
        w2 == tcp_input_delayed_close(tcp_sent_cb(w1, r))
        w3 == Unless(w2, tcp_recv_cb(w2, r))
        w4 == Unless(w3, fin_cb(w3, r))
        w5 == tcp_input_delayed_close([w4 EXCEPT !.in.pcb.inInput = FALSE])
    IN  IF in1.aborted THEN w1
        ELSE IF in1.reset
        THEN [w1 EXCEPT !.app = tcp_err_cb(in1.pcb, @), !.in.pcb = Freed(@)]
        ELSE Unless(w5, [w5 EXCEPT !.in.pcb = tcp_output(@)])

-----------------------------------------------------------------------------
(* A segment for no pcb reaches the wildcard listener (port 0).  A SYN for *)
(* which tcp_alloc finds no memory is dropped: Lose has that.              *)
ListenInput(seg) ==
    CASE seg.rst -> tcp_alloc
      [] seg.isAck /\ ~ seg.rst -> tcp_rst(tcp_alloc, seg.ack, SegEnd(seg))
      [] seg.syn /\ ~ seg.isAck /\ ~ seg.rst -> tcp_listen_input(seg, LwipIss)

(* What the tunnel may do inside the callbacks of a segment.  Only a close *)
(* allocates.                                                              *)
Reactions(seg) ==
    {r \in [accept : {TRUE, pcb.state # "SYN_RCVD"}, close : {FALSE, seg.fin},
            reject : {FALSE, Rejects /\ seg.data # << >>},
            write : 0..Smaller(Down - app.wrote, TCP_SND_BUF), mem : {TRUE, ~ MemFails}] :
        r.mem \/ r.close \/ r.reject}

Input ==
    /\ up # << >> /\ up' = Tail(up)
    /\ UNCHANGED << peer, lost >>
    /\ \/ /\ pcb.state = "CLOSED"
          /\ Leave(ListenInput(Head(up)), app)
       \/ /\ pcb.state = "TIME_WAIT"
          /\ Leave(tcp_timewait_input(pcb, Head(up)), app)
       \/ /\ Active
          /\ \E r \in Reactions(Head(up)) :
                LET w == tcp_input(pcb, app, Head(up), r)
                IN  Leave(w.in.pcb, w.app)

-----------------------------------------------------------------------------
(* Calls of the tunnel: from its coroutines, between packets. *)
LinkFree == Len(up) + Len(down) < LinkCap

(* nativeTcpWrite and nativeTcpOutput (feedLwip, drainPendingWrite). *)
AppWrite(n) ==
    /\ pcb.cb /\ LinkFree /\ CanWrite(pcb, app, n)
    /\ Leave(tcp_output(Written(pcb, app, n)), [app EXCEPT !.wrote = @ + n])
    /\ UNCHANGED << peer, up, lost >>

(* ackBytesToLwip: n received bytes were passed on. *)
AppRecved(n) ==
    /\ pcb.cb /\ n <= app.owed
    /\ Leave(tcp_output(tcp_recved(pcb, n)), [app EXCEPT !.owed = @ - n])
    /\ UNCHANGED << peer, up, lost >>

(* close: what fits the send buffer is written first (flushPendingToLwip). *)
AppClose(n, mem) ==
    /\ pcb.cb /\ CanWrite(pcb, app, n) /\ Memory(mem)
    /\ Leave(lwip_bridge_tcp_close(tcp_output(Written(pcb, app, n)), mem),
             [app EXCEPT !.wrote = @ + n, !.closed = TRUE])
    /\ UNCHANGED << peer, up, lost >>

(* abort: lwip_bridge_tcp_abort takes the callbacks off first. *)
AppAbort ==
    /\ pcb.cb
    /\ Leave(tcp_abandon([pcb EXCEPT !.cb = FALSE]), [app EXCEPT !.closed = TRUE])
    /\ UNCHANGED << peer, up, lost >>

(* lwip_bridge_abort_all_tcp: with callbacks, except for TIME_WAIT. *)
AbortAll ==
    /\ pcb.state # "CLOSED"
    /\ Leave(tcp_abandon(pcb), tcp_err_cb(pcb, app))
    /\ UNCHANGED << peer, up, lost >>

-----------------------------------------------------------------------------
(* tcp_fasttmr: a FIN that found no memory is tried again. *)
Fasttmr(mem) ==
    /\ Active /\ pcb.closepend /\ Memory(mem)
    /\ Leave(tcp_close_shutdown_fin([pcb EXCEPT !.closepend = FALSE], mem), app)
    /\ UNCHANGED << peer, up, lost >>

(* tcp_slowtmr.  due: the persist or the retransmission timer runs out. *)
GaveUp(p) == p.nrtx >= TCP_MAXRTX \/ (p.persist /\ p.persist_probe >= TCP_MAXRTX)

PersistTimer(p) ==
    IF p.snd_wnd = 0 THEN tcp_zero_window_probe(p)
    ELSE tcp_output(tcp_split_unsent_seg(p, p.snd_wnd))

RetransmitTimer(p) ==
    IF p.rtime /\ (p.unacked # << >> \/ p.unsent # << >>)
    THEN tcp_rexmit_rto_commit(tcp_rexmit_rto_prepare(p)) ELSE p

TimerWork(p, due) ==
    IF GaveUp(p) \/ ~ due THEN p
    ELSE IF p.persist THEN PersistTimer(p) ELSE RetransmitTimer(p)

MutantNoFinWaitTimeout(p, lapsed) == lapsed /\ p.state \in {"SYN_RCVD", "LAST_ACK"}

(* lapsed: nothing has been heard for the time-out of the state. *)
TimedOut(p, lapsed) ==
    /\ lapsed
    /\ p.state \in {"SYN_RCVD", "LAST_ACK"} \/ (p.state = "FIN_WAIT_2" /\ p.rxclosed)

(* The bound SplitFin keeps the split of a segment with a FIN out. *)
Splits(p, due) ==
    /\ due /\ p.persist /\ p.unsent # << >> /\ p.snd_wnd > 0
    /\ Head(p.unsent).fin /\ Len(Head(p.unsent).data) > p.snd_wnd

Slowtmr(due, lapsed) ==
    /\ Active /\ LinkFree /\ (SplitFin \/ ~ Splits(pcb, due))
    /\ lapsed => up = << >> /\ down = << >>
    /\ LET p == TimerWork(pcb, due)
       IN  IF GaveUp(pcb) \/ TimedOut(pcb, lapsed)
           THEN Leave(Freed(tcp_pcb_purge(p)), tcp_err_cb(pcb, app))
           ELSE Leave(tcp_output(p), app)
    /\ UNCHANGED << peer, up, lost >>

(* tcp_slowtmr, the second loop: TIME_WAIT ends after two segment lifetimes. *)
TimeWaitOver ==
    /\ pcb.state = "TIME_WAIT"
    /\ Leave(Freed(tcp_pcb_purge(pcb)), app)
    /\ UNCHANGED << peer, up, lost >>

-----------------------------------------------------------------------------
(* The client's kernel (external).  It counts positions of a stream, not   *)
(* sequence numbers: una and nxt of what it sends, rcv of what it expects, *)
(* edge the last position plus one that lwIP has given it room for.  top   *)
(* keeps the highest edge of its life, for EdgeHeldToUnit.                 *)
FinAt == Up + 1

PeerSegment(pos, data, fin, p) ==
    [Segment(SeqAdd(PeerIss, pos), data, FALSE, fin) EXCEPT
        !.isAck = TRUE, !.ack = SeqAdd(LwipIss, p.rcv), !.wnd = PeerBuf - p.unread]

PeerAck(p) == PeerSegment(p.nxt, << >>, FALSE, p)

PeerSyn ==
    /\ peer.st \in {"closed", "syn"} /\ up = << >> /\ LinkFree
    /\ peer' = [peer EXCEPT !.st = "syn"]
    /\ up' = << [Segment(PeerIss, << >>, TRUE, FALSE) EXCEPT !.wnd = PeerBuf] >>
    /\ UNCHANGED << pcb, app, down, lost >>

(* n bytes, with the FIN when they are the last and the client closes. *)
PeerSend(n, fin) ==
    LET f == IF fin THEN 1 ELSE 0
    IN  /\ peer.st = "open" /\ LinkFree /\ n + f > 0 /\ peer.nxt <= FinAt
        /\ peer.nxt + n <= FinAt /\ (fin => peer.nxt + n = FinAt)
        /\ peer.nxt + n + f <= peer.edge
        /\ up' = Append(up, PeerSegment(peer.nxt, Bytes(peer.nxt, peer.nxt + n - 1), fin, peer))
        /\ peer' = [peer EXCEPT !.nxt = @ + n + f]
        /\ UNCHANGED << pcb, app, down, lost >>

(* The retransmission timer goes back to una and probes the window. *)
PeerTimeout ==
    /\ peer.st = "open" /\ up = << >> /\ LinkFree
    /\ peer.una < peer.nxt \/ (peer.una = peer.edge /\ peer.una <= Up)
    /\ up' = << PeerSegment(peer.una - 1, << >>, FALSE, peer) >>
    /\ peer' = [peer EXCEPT !.nxt = peer.una]
    /\ UNCHANGED << pcb, app, down, lost >>

(* The client reads n bytes; the kernel announces the room. *)
PeerRead(n) ==
    /\ peer.st = "open" /\ LinkFree /\ n <= peer.unread
    /\ LET p == [peer EXCEPT !.unread = @ - n]
       IN  peer' = p /\ up' = Append(up, PeerAck(p))
    /\ UNCHANGED << pcb, app, down, lost >>

(* The client's process ends: the kernel resets the connection. *)
PeerReset ==
    /\ peer.st = "open" /\ LinkFree
    /\ peer' = [peer EXCEPT !.st = "reset"]
    /\ up' = Append(up, RstSegment(SeqAdd(PeerIss, peer.nxt), SeqAdd(LwipIss, peer.rcv)))
    /\ UNCHANGED << pcb, app, down, lost >>

-----------------------------------------------------------------------------
PosOf(seq) == SeqDiff(seq, LwipIss)

(* The acknowledgement and window of a segment; a SYN sent again has none  *)
(* to tell an open connection.                                             *)
PeerAcked(p, seg) ==
    LET a == SeqDiff(seg.ack, PeerIss)
    IN  IF seg.syn \/ a < p.una THEN p
        ELSE [p EXCEPT !.una = a, !.nxt = IF @ < a THEN a ELSE @, !.edge = a + seg.wnd,
                       !.top = IF @ < a + seg.wnd THEN a + seg.wnd ELSE @]

(* The bytes and FIN of a segment that starts at or before rcv. *)
PeerTake(p, seg) ==
    LET pos == PosOf(seg.seq)
        end == pos + Len(seg.data)
        room == PeerBuf - p.unread
        n == IF p.fin \/ end <= p.rcv THEN 0 ELSE Smaller(end - p.rcv, room)
        fin == seg.fin /\ ~ p.fin /\ p.rcv + n = end
    IN  IF pos > p.rcv \/ seg.syn THEN p
        ELSE [p EXCEPT !.got = @ \o SubSeq(seg.data, p.rcv - pos + 1, p.rcv - pos + n),
                       !.unread = @ + n, !.fin = @ \/ fin,
                       !.rcv = @ + n + (IF fin THEN 1 ELSE 0)]

PeerOpen(p, seg) ==
    LET p1 == [p EXCEPT !.st = "open", !.rcv = 1, !.una = 1, !.nxt = 1,
                        !.edge = 1 + seg.wnd, !.top = 1 + seg.wnd]
    IN  [p |-> p1, out |-> << PeerAck(p1) >>]

PeerHandle(p, seg) ==
    LET p1 == PeerTake(PeerAcked(p, seg), seg)
        challenge == [p |-> p, out |-> << PeerAck(p) >>]
        silent(q) == [p |-> q, out |-> << >>]
    IN  CASE p.st = "reset" ->
                IF seg.rst THEN silent(p)
                ELSE [p |-> p, out |-> << RstSegment(seg.ack, SegEnd(seg)) >>]
          [] p.st = "syn" /\ seg.rst -> silent([p EXCEPT !.st = "reset"])
          [] p.st = "syn" /\ ~ seg.rst -> IF seg.syn THEN PeerOpen(p, seg) ELSE challenge
          [] p.st = "open" /\ seg.rst ->
                IF PosOf(seg.seq) = p.rcv THEN silent([p EXCEPT !.st = "reset"]) ELSE challenge
          [] p.st = "open" /\ ~ seg.rst ->
                IF TCP_TCPLEN(seg) > 0 THEN [p |-> p1, out |-> << PeerAck(p1) >>]
                ELSE silent(p1)

PeerInput ==
    /\ down # << >> /\ down' = Tail(down)
    /\ LET h == PeerHandle(peer, Head(down))
       IN  peer' = h.p /\ up' = up \o h.out
    /\ UNCHANGED << pcb, app, lost >>

(* The TUN device drops a packet when its queue is full. *)
Lose ==
    /\ lost < Losses /\ lost' = lost + 1
    /\ \/ up # << >> /\ up' = Tail(up) /\ UNCHANGED down
       \/ down # << >> /\ down' = Tail(down) /\ UNCHANGED up
    /\ UNCHANGED << pcb, app, peer >>

-----------------------------------------------------------------------------
Next ==
    \/ Input
    \/ \E n \in 1..Down : AppWrite(n)
    \/ \E n \in 1..Up : AppRecved(n)
    \/ \E n \in 0..Down, mem \in BOOLEAN : AppClose(n, mem)
    \/ AppAbort
    \/ AbortAll
    \/ \E mem \in BOOLEAN : Fasttmr(mem)
    \/ \E due \in BOOLEAN, lapsed \in BOOLEAN : Slowtmr(due, lapsed)
    \/ TimeWaitOver
    \/ PeerSyn
    \/ \E n \in 0..TCP_MSS, fin \in BOOLEAN : PeerSend(n, fin)
    \/ PeerTimeout
    \/ \E n \in 1..PeerBuf : PeerRead(n)
    \/ PeerReset
    \/ PeerInput
    \/ Lose

Spec == Init /\ [][Next]_vars

(* The tunnel thread takes every packet and every tick, the kernel every   *)
(* packet, and a client that is sent data reads it.  Packets are stated by *)
(* their queues: something is taken from one that is not empty.  A tick    *)
(* does not wait for the link, only its bound LinkFree does, so ticks are  *)
(* strongly fair.                                                          *)
Taken(queue, queueNext) == queue # << >> /\ queueNext = Tail(queue)

Fairness ==
    /\ WF_up(Taken(up, up')) /\ WF_down(Taken(down, down'))
    /\ WF_vars(TimeWaitOver) /\ WF_vars(Fasttmr(TRUE))
    /\ SF_vars(Slowtmr(TRUE, FALSE)) /\ SF_vars(Slowtmr(FALSE, TRUE))
    /\ SF_vars(\E n \in 1..PeerBuf : PeerRead(n))

FairSpec == Spec /\ Fairness

-----------------------------------------------------------------------------
SeqNumbers == 0..(SeqMod - 1)

SegmentType ==
    [seq : SeqNumbers, data : Seq(1..(Down + Up)), syn : BOOLEAN, fin : BOOLEAN,
     rst : BOOLEAN, isAck : BOOLEAN, ack : SeqNumbers, wnd : Nat]

States == {"CLOSED", "SYN_RCVD", "ESTABLISHED", "FIN_WAIT_1", "FIN_WAIT_2",
           "CLOSE_WAIT", "CLOSING", "LAST_ACK", "TIME_WAIT"}

(* The values the variables take. *)
TypeOK ==
    /\ DOMAIN pcb = DOMAIN tcp_alloc
    /\ pcb.state \in States
    /\ {pcb.rcv_nxt, pcb.right_edge, pcb.snd_nxt, pcb.lastack, pcb.snd_lbb} \subseteq SeqNumbers
    /\ pcb.rcv_wnd \in 0..TCP_WND /\ pcb.rcv_ann_wnd \in 0..TCP_WND
    /\ pcb.snd_buf \in 0..TCP_SND_BUF /\ pcb.oversize \in 0..TCP_MSS
    /\ pcb.nrtx \in 0..(TCP_MAXRTX + 1) /\ pcb.persist_probe \in 0..TCP_MAXRTX
    /\ pcb.out = << >> /\ ~ pcb.inInput
    /\ app.wrote \in 0..Down /\ app.owed \in 0..Up
    /\ peer.st \in {"closed", "syn", "open", "reset"} /\ peer.unread \in 0..PeerBuf
    /\ \A i \in DOMAIN up : up[i] \in SegmentType
    /\ \A i \in DOMAIN down : down[i] \in SegmentType

(* Both sides are given the other's bytes in order, each once, whatever    *)
(* was lost, sent again, split, trimmed or probed with, and the tunnel is  *)
(* told of the client's FIN once and last (tcp_output, tcp_rexmit,         *)
(* tcp_receive, the callbacks of tcp_input).                               *)
StreamsInOrder ==
    /\ Len(peer.got) <= app.wrote
    /\ peer.got = Bytes(1, Len(peer.got))
    /\ app.got = Bytes(1, Len(app.got))
    /\ app.fins = 0 \/ (app.fins = 1 /\ Len(app.got) = Up)

(* The client sees the end of the stream only after all that the tunnel    *)
(* wrote before its close (tcp_send_fin, tcp_split_unsent_seg).            *)
NoEarlyFin == peer.fin => app.closed /\ Len(peer.got) = app.wrote

(* While the tunnel holds the connection, what lwIP has acknowledged to    *)
(* the client is what the tunnel was given: no byte is acknowledged and    *)
(* dropped (tcp_receive, tcp_recv_cb).                                     *)
AckedIsDelivered ==
    pcb.cb => /\ pcb.rcv_nxt = SeqAdd(PeerIss, 1 + Len(app.got) + app.fins)
              /\ peer.una <= 1 + Len(app.got) + app.fins

AllSegments == pcb.unacked \o pcb.unsent

(* Every byte the tunnel wrote that the client has not acknowledged is in  *)
(* exactly one segment of unacked and unsent, at its own sequence number:  *)
(* none is lost or doubled by a retransmission, a split or the             *)
(* acknowledgement of part of a segment.  And the room of the send buffer  *)
(* that is free and the bytes queued add up to it: acknowledged bytes are  *)
(* credited once (tcp_rexmit, tcp_write, tcp_free_acked_segments).         *)
SendQueueConserved ==
    Active =>
      /\ \A b \in {x \in 1..app.wrote : x >= PosOf(pcb.lastack)} :
           Cardinality({i \in DOMAIN AllSegments :
               LET off == SeqDiff(SeqAdd(LwipIss, b), AllSegments[i].seq)
               IN  off < Len(AllSegments[i].data) /\ AllSegments[i].data[off + 1] = b}) = 1
      /\ pcb.snd_buf + BytesIn(AllSegments, Len(AllSegments)) = TCP_SND_BUF

(* The receive window is short of exactly the bytes the tunnel has not     *)
(* taken: no byte of window leaks over the life of a connection, with FINs *)
(* and cut segments (tcp_receive, tcp_recved).                             *)
WindowConserved == pcb.cb => pcb.rcv_wnd + app.owed = TCP_WND

(* The two assertions of the persist timer (tcp.c:1240-1241). *)
PersistQueues == pcb.persist /\ Active => pcb.unacked = << >> /\ pcb.unsent # << >>

(* lwIP calls the tunnel back exactly as long as the tunnel holds the      *)
(* connection: a freed pcb was reported, once, and a closed connection is  *)
(* not called (tcp_err_cb, lwip_bridge_tcp_close).                         *)
NoOrphan ==
    /\ (app.opened /\ ~ app.closed) <=> pcb.cb
    /\ pcb.cb => Active
    /\ app.errs <= 1

(* The right edge of the window told to the client is less than one unit   *)
(* of the window field behind the highest it was ever told: over any       *)
(* number of packets, updates and losses lwIP takes back no edge it        *)
(* remembers having announced (tcp_update_rcv_ann_wnd), and the header's   *)
(* rounding does not add up (tcp_output_segment).                          *)
EdgeHeldToUnit == peer.st = "open" => peer.edge + WndUnit > peer.top

(* Not so: that the told edge never moves back at all.  It does after a    *)
(* packet that leaves a window that is no multiple of the unit.            *)
EdgeNeverShrinks == peer.st = "open" => peer.edge = peer.top

(* Bytes the tunnel wrote reach the client, unless the connection ends:    *)
(* a closed window whose opening was lost is probed, a lost segment is     *)
(* sent again (tcp_slowtmr).                                               *)
Delivered ==
    \A n \in 1..Down :
        app.wrote >= n ~> Len(peer.got) >= n \/ pcb.state = "CLOSED" \/ peer.st = "reset"

(* A connection the tunnel has closed leaves lwIP: FIN, time-outs and      *)
(* retries bring it to CLOSED (tcp_close_shutdown_fin, tcp_slowtmr).       *)
CloseCompletes == app.closed ~> pcb.state = "CLOSED"
=============================================================================
