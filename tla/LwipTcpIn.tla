---------------------------- MODULE LwipTcpIn -----------------------------
(***************************************************************************)
(* The input half of lwIP's TCP (core/tcp_in.c) and the operations of      *)
(* core/tcp.c that open, close and abandon a control block.  The globals   *)
(* tcp_input sets for one segment (recv_acked, recv_data, recv_flags) are  *)
(* the fields of a record `in` around the pcb.                             *)
(*                                                                         *)
(* As configured by port/lwipopts.h: no out-of-order queue, no timestamps, *)
(* no SACK, no backlog; the window scale is 1.  Callbacks into the tunnel  *)
(* belong to module LwipTcp.                                               *)
(***************************************************************************)
EXTENDS LwipTcpOut

CONSTANTS TCP_WND_UPDATE_THRESHOLD  \* window growth worth an ACK of its own

ASSUME ThresholdConstant == TCP_WND_UPDATE_THRESHOLD \in 1..TCP_WND

(* What is left of a pcb that tcp_free has taken: what it had sent. *)
Freed(pcb) == [tcp_alloc EXCEPT !.out = pcb.out]

(* tcp_pcb_purge: the queues are freed and their timers stop. *)
tcp_pcb_purge(pcb) ==
    [pcb EXCEPT !.unsent = << >>, !.unacked = << >>, !.oversize = 0, !.rtime = FALSE]

(* tcp_abandon: off its list, freed, a RST for the peer unless in TIME_WAIT. *)
tcp_abandon(pcb) ==
    IF pcb.state = "TIME_WAIT" THEN Freed(pcb)
    ELSE Freed(tcp_rst(pcb, pcb.snd_nxt, pcb.rcv_nxt))

-----------------------------------------------------------------------------
(* tcp_update_rcv_ann_wnd: a larger window is announced only when its      *)
(* right edge has moved enough; a smaller one never takes an edge back.    *)
tcp_update_rcv_ann_wnd(pcb) ==
    LET edge == SeqAdd(pcb.rcv_nxt, pcb.rcv_wnd)
        step == Smaller(TCP_WND \div 2, TCP_MSS)
    IN  [pcb EXCEPT !.rcv_ann_wnd =
            IF TCP_SEQ_LEQ(SeqAdd(pcb.right_edge, step), edge) THEN pcb.rcv_wnd
            ELSE IF TCP_SEQ_LT(pcb.right_edge, pcb.rcv_nxt) THEN 0
            ELSE SeqDiff(pcb.right_edge, pcb.rcv_nxt)]

(* By how much the right edge would grow: what tcp_update_rcv_ann_wnd returns. *)
WindowInflation(pcb) ==
    LET edge == SeqAdd(pcb.rcv_nxt, pcb.rcv_wnd)
    IN  IF TCP_SEQ_LEQ(SeqAdd(pcb.right_edge, Smaller(TCP_WND \div 2, TCP_MSS)), edge)
        THEN SeqDiff(edge, pcb.right_edge) ELSE 0

(* tcp_recved: the tunnel has taken len bytes; the window opens by them. *)
tcp_recved(pcb, len) ==
    LET open == [pcb EXCEPT !.rcv_wnd = Smaller(@ + len, TCP_WND)]
        next == tcp_update_rcv_ann_wnd(open)
    IN  IF WindowInflation(open) >= TCP_WND_UPDATE_THRESHOLD
        THEN tcp_output([next EXCEPT !.ackNow = TRUE]) ELSE next

-----------------------------------------------------------------------------
(* tcp_close_shutdown_fin: the FIN is queued, or, when mem is FALSE and it *)
(* needs a segment, owed until the fast timer finds memory.                *)
tcp_close_shutdown_fin(pcb, mem) ==
    LET after == IF pcb.state = "CLOSE_WAIT" THEN "LAST_ACK" ELSE "FIN_WAIT_1"
    IN  IF pcb.state \notin {"SYN_RCVD", "ESTABLISHED", "CLOSE_WAIT"} THEN pcb
        ELSE IF FinNeedsSegment(pcb) /\ ~ mem THEN [pcb EXCEPT !.closepend = TRUE]
        ELSE tcp_output([tcp_send_fin(pcb) EXCEPT !.state = after])

(* Received bytes the tunnel has not taken turn a close into a reset. *)
UnreadData(pcb) ==
    pcb.state \in {"ESTABLISHED", "CLOSE_WAIT"} /\ pcb.rcv_wnd # TCP_WND

(* tcp_close.  A reset from inside tcp_input only raises TF_CLOSED: the pcb *)
(* is freed when the callback has returned (tcp_input_delayed_close).      *)
tcp_close(pcb, mem) ==
    LET p == [pcb EXCEPT !.rxclosed = TRUE]
        reset == tcp_pcb_purge(tcp_rst(p, p.snd_nxt, p.rcv_nxt))
    IN  IF ~ UnreadData(p) THEN tcp_close_shutdown_fin(p, mem)
        ELSE IF p.inInput THEN [reset EXCEPT !.tfClosed = TRUE] ELSE Freed(reset)

-----------------------------------------------------------------------------
(* tcp_listen_input: a SYN makes a pcb in SYN_RCVD and answers SYN, ACK. *)
tcp_listen_input(seg, iss) ==
    LET nxt == SeqAdd(seg.seq, 1)
        npcb == [tcp_alloc EXCEPT
                   !.state = "SYN_RCVD", !.rcv_nxt = nxt, !.right_edge = nxt,
                   !.snd_wl1 = SeqAdd(seg.seq, -1), !.snd_wl2 = iss, !.snd_nxt = iss,
                   !.lastack = iss, !.snd_lbb = iss,
                   !.snd_wnd = seg.wnd, !.snd_wnd_max = seg.wnd]
    IN  tcp_output(tcp_enqueue_flags(npcb, TRUE, FALSE))

(* tcp_timewait_input. *)
tcp_timewait_input(pcb, seg) ==
    IF seg.rst THEN pcb
    ELSE IF seg.syn /\ TCP_SEQ_BETWEEN(seg.seq, pcb.rcv_nxt, SeqAdd(pcb.rcv_nxt, pcb.rcv_wnd))
    THEN tcp_rst(pcb, seg.ack, SegEnd(seg))
    ELSE IF TCP_TCPLEN(seg) > 0 THEN tcp_output([pcb EXCEPT !.ackNow = TRUE]) ELSE pcb

-----------------------------------------------------------------------------
(* tcp_receive, the acknowledgement: first the peer's window ... *)
WindowUpdate(pcb, seg) ==
    IF \/ TCP_SEQ_LT(pcb.snd_wl1, seg.seq)
       \/ pcb.snd_wl1 = seg.seq /\ TCP_SEQ_LT(pcb.snd_wl2, seg.ack)
       \/ pcb.snd_wl2 = seg.ack /\ seg.wnd > pcb.snd_wnd
    THEN [pcb EXCEPT !.snd_wnd = seg.wnd, !.snd_wl1 = seg.seq, !.snd_wl2 = seg.ack,
                     !.snd_wnd_max = IF @ < seg.wnd THEN seg.wnd ELSE @]
    ELSE pcb

(* ... then the segments it acknowledges (tcp_free_acked_segments): the    *)
(* head of the list, as far as it is fully acknowledged.                   *)
AckedCount(list, ack) ==
    Cardinality({n \in DOMAIN list :
                   \A i \in 1..n : TCP_SEQ_LEQ(SegEnd(list[i]), ack)})

BytesIn(list, n) ==
    LET sum[i \in 0..n] == IF i = 0 THEN 0 ELSE sum[i - 1] + Len(list[i].data)
    IN  sum[n]

MutantProbedNotCredited(in, ack) ==
    LET pcb == in.pcb
        k == AckedCount(pcb.unacked, ack)
        u == AckedCount(pcb.unsent, ack)
        bytes == BytesIn(pcb.unacked, k)
        unacked == SubSeq(pcb.unacked, k + 1, Len(pcb.unacked))
    IN  [in EXCEPT
           !.recv_acked = bytes, !.pcb.unacked = unacked,
           !.pcb.unsent = SubSeq(@, u + 1, Len(@)), !.pcb.rtime = unacked # << >>,
           !.pcb.snd_buf = @ + bytes, !.pcb.lastack = ack, !.pcb.nrtx = 0]

FreeAcked(in, ack) ==
    LET pcb == in.pcb
        k == AckedCount(pcb.unacked, ack)
        u == AckedCount(pcb.unsent, ack)
        bytes == BytesIn(pcb.unacked, k) + BytesIn(pcb.unsent, u)
        unacked == SubSeq(pcb.unacked, k + 1, Len(pcb.unacked))
    IN  [in EXCEPT
           !.recv_acked = bytes,
           !.pcb.unacked = unacked,
           !.pcb.unsent = SubSeq(@, u + 1, Len(@)),
           !.pcb.oversize = IF u = Len(pcb.unsent) THEN 0 ELSE @,
           !.pcb.rtime = unacked # << >>,
           !.pcb.snd_buf = @ + bytes,
           !.pcb.lastack = ack, !.pcb.nrtx = 0, !.pcb.dupacks = 0, !.pcb.infr = FALSE]

(* A third duplicate acknowledgement sends the first segment again.  The   *)
(* count stops at 3: a larger one only feeds the congestion window.        *)
DuplicateAck(pcb, seg, edge) ==
    LET n == Smaller(pcb.dupacks + 1, 3)
        dup == [pcb EXCEPT !.dupacks = n]
    IN  IF /\ TCP_TCPLEN(seg) = 0 /\ pcb.rtime /\ pcb.lastack = seg.ack
           /\ SeqAdd(pcb.snd_wl2, pcb.snd_wnd) = edge
        THEN IF n >= 3 THEN tcp_rexmit_fast(dup) ELSE dup
        ELSE pcb

ReceiveAck(in, seg) ==
    LET edge == SeqAdd(in.pcb.snd_wl2, in.pcb.snd_wnd)
        i == [in EXCEPT !.pcb = WindowUpdate(@, seg)]
        pcb == i.pcb
    IN  IF ~ seg.isAck THEN in
        ELSE IF TCP_SEQ_LEQ(seg.ack, pcb.lastack)
        THEN [i EXCEPT !.pcb = DuplicateAck(@, seg, edge)]
        ELSE IF TCP_SEQ_BETWEEN(seg.ack, SeqAdd(pcb.lastack, 1), pcb.snd_nxt)
        THEN FreeAcked(i, seg.ack)
        ELSE [i EXCEPT !.pcb = tcp_send_empty_ack(@)]

(* tcp_receive, the data: what was received before is cut off the front,   *)
(* what overruns the window off the end.  Bytes and FIN that start at      *)
(* rcv_nxt are taken, anything else is answered with an ACK.               *)
InWindow(pcb, seq) ==
    TCP_SEQ_BETWEEN(seq, pcb.rcv_nxt, SeqAdd(pcb.rcv_nxt, pcb.rcv_wnd - 1))

TrimFront(pcb, seg) ==
    LET off == SeqDiff(pcb.rcv_nxt, seg.seq)
    IN  IF TCP_SEQ_BETWEEN(pcb.rcv_nxt, SeqAdd(seg.seq, 1),
                           SeqAdd(seg.seq, TCP_TCPLEN(seg) - 1))
        THEN [seg EXCEPT !.seq = pcb.rcv_nxt, !.data = SubSeq(@, off + 1, Len(@))]
        ELSE seg

TrimBack(pcb, seg) ==
    IF TCP_TCPLEN(seg) > pcb.rcv_wnd
    THEN [seg EXCEPT !.fin = FALSE, !.data = SubSeq(@, 1, pcb.rcv_wnd)]
    ELSE seg

TakeData(in, seg) ==
    LET s == TrimBack(in.pcb, seg)
        pcb == [in.pcb EXCEPT !.rcv_nxt = SegEnd(s), !.rcv_wnd = @ - TCP_TCPLEN(s)]
    IN  [in EXCEPT !.pcb = [tcp_update_rcv_ann_wnd(pcb) EXCEPT !.ackNow = TRUE],
                   !.recv_data = s.data, !.got_fin = s.fin]

MutantTakesOutOfOrder(in, seg) ==
    LET s == TrimFront(in.pcb, seg)
    IN  IF TCP_TCPLEN(seg) > 0 /\ in.pcb.state \in {"ESTABLISHED", "FIN_WAIT_1", "FIN_WAIT_2"}
        THEN IF InWindow(in.pcb, s.seq) THEN TakeData(in, s)
             ELSE [in EXCEPT !.pcb = tcp_send_empty_ack(@)]
        ELSE [in EXCEPT !.pcb.ackNow = @ \/ ~ InWindow(in.pcb, seg.seq)]

ReceiveData(in, seg) ==
    LET s == TrimFront(in.pcb, seg)
    IN  IF TCP_TCPLEN(seg) > 0 /\ in.pcb.state \in {"ESTABLISHED", "FIN_WAIT_1", "FIN_WAIT_2"}
        THEN IF s.seq = in.pcb.rcv_nxt /\ InWindow(in.pcb, s.seq)
             THEN TakeData(in, s)
             ELSE [in EXCEPT !.pcb = tcp_send_empty_ack(@)]
        ELSE [in EXCEPT !.pcb.ackNow = @ \/ ~ InWindow(in.pcb, seg.seq)]

tcp_receive(in, seg) == ReceiveData(ReceiveAck(in, seg), seg)

-----------------------------------------------------------------------------
(* tcp_process: the state machine of RFC 793, after tcp_receive. *)
FinAcked(pcb, seg) == seg.isAck /\ seg.ack = pcb.snd_nxt /\ pcb.unsent = << >>

TimeWait(in) ==
    LET pcb == tcp_pcb_purge(in.pcb)
    IN  [in EXCEPT !.pcb = [pcb EXCEPT !.state = "TIME_WAIT", !.ackNow = @ \/ in.got_fin]]

Advance(in, seg) ==
    LET pcb == in.pcb
        acked == FinAcked(pcb, seg)
        to(state) == [in EXCEPT !.pcb.state = state, !.pcb.ackNow = @ \/ in.got_fin]
    IN  CASE pcb.state \in {"ESTABLISHED", "CLOSE_WAIT"} ->
                IF in.got_fin THEN to("CLOSE_WAIT") ELSE in
          [] pcb.state = "FIN_WAIT_1" ->
                IF in.got_fin THEN IF acked THEN TimeWait(in) ELSE to("CLOSING")
                ELSE IF acked THEN to("FIN_WAIT_2") ELSE in
          [] pcb.state = "FIN_WAIT_2" -> IF in.got_fin THEN TimeWait(in) ELSE in
          [] pcb.state = "CLOSING" -> IF acked THEN TimeWait(in) ELSE in
          [] pcb.state = "LAST_ACK" ->
                IF acked THEN [in EXCEPT !.pcb.tfClosed = TRUE] ELSE in
          [] OTHER -> in

(* A segment with RST ends the connection only at exactly rcv_nxt. *)
ResetInput(in, seg) ==
    IF seg.seq = in.pcb.rcv_nxt THEN [in EXCEPT !.reset = TRUE]
    ELSE [in EXCEPT !.pcb.ackNow =
            @ \/ TCP_SEQ_BETWEEN(seg.seq, in.pcb.rcv_nxt,
                                 SeqAdd(in.pcb.rcv_nxt, in.pcb.rcv_wnd))]

(* accepted is the answer of tcp_accept_cb, FALSE when the tunnel refuses. *)
SynRcvdInput(in, seg, accepted) ==
    LET pcb == in.pcb
        open == [in EXCEPT !.pcb.state = "ESTABLISHED", !.pcb.cb = TRUE]
    IN  IF seg.syn
        THEN IF seg.seq = SeqAdd(pcb.rcv_nxt, -1)
             THEN [in EXCEPT !.pcb = tcp_rexmit(@)] ELSE in
        ELSE IF ~ seg.isAck THEN in
        ELSE IF ~ TCP_SEQ_BETWEEN(seg.ack, SeqAdd(pcb.lastack, 1), pcb.snd_nxt)
        THEN [in EXCEPT !.pcb = tcp_rst(@, seg.ack, SegEnd(seg))]
        ELSE IF ~ accepted THEN [in EXCEPT !.pcb = tcp_abandon(@), !.aborted = TRUE]
        ELSE Advance(tcp_receive(open, seg), seg)

tcp_process(in, seg, accepted) ==
    LET i == [in EXCEPT !.pcb.persist_probe = 0]
    IN  IF seg.rst THEN ResetInput(in, seg)
        ELSE IF seg.syn /\ in.pcb.state # "SYN_RCVD" THEN [in EXCEPT !.pcb.ackNow = TRUE]
        ELSE IF in.pcb.state = "SYN_RCVD" THEN SynRcvdInput(i, seg, accepted)
        ELSE Advance(tcp_receive(i, seg), seg)
=============================================================================
