---------------------------- MODULE LwipTcpOut ----------------------------
(***************************************************************************)
(* The output half of lwIP's TCP (core/tcp_out.c): how bytes written by    *)
(* the tunnel become segments on a control block, how segments leave it,   *)
(* and how they are sent again.  A control block (pcb) is a record; every  *)
(* operator takes one and returns the one the C function leaves behind.    *)
(* Segments given to the network interface are appended to pcb.out.        *)
(*                                                                         *)
(* Left out: headers, options and checksums, the pbuf chains behind a      *)
(* segment, and the congestion window, which no longer limits output.      *)
(***************************************************************************)
EXTENDS Integers, Sequences, FiniteSets

CONSTANTS
    SeqMod,         \* sequence numbers are counted modulo this (2^32)
    TCP_MSS,        \* largest payload of a segment
    TCP_SND_BUF,    \* bytes a connection may hold for sending
    TCP_WND,        \* receive window of a connection
    WndUnit,        \* bytes per count of the header's window (2^TCP_RCV_SCALE)
    MaxWndField,    \* largest count the header's window holds (0xFFFF)
    TCP_MAXRTX      \* retransmissions, or unanswered probes, before giving up

ASSUME TcpConstants ==
    /\ {TCP_MSS, TCP_SND_BUF, TCP_WND, TCP_MAXRTX} \subseteq Nat \ {0}
    /\ {WndUnit, MaxWndField} \subseteq Nat \ {0} /\ TCP_WND <= MaxWndField * WndUnit
    /\ SeqMod \in Nat /\ SeqMod % 2 = 0
    /\ SeqMod \div 2 > TCP_SND_BUF + 2 /\ SeqMod \div 2 > TCP_WND + 2

-----------------------------------------------------------------------------
(* Serial-number arithmetic: a comes before b when a - b has its top bit set. *)
SeqAdd(a, n) == (a + n) % SeqMod
SeqDiff(a, b) == (a - b) % SeqMod
TCP_SEQ_LT(a, b) == SeqDiff(a, b) >= SeqMod \div 2
TCP_SEQ_LEQ(a, b) == ~ TCP_SEQ_LT(b, a)
TCP_SEQ_BETWEEN(a, b, c) == TCP_SEQ_LEQ(b, a) /\ TCP_SEQ_LEQ(a, c)

Smaller(a, b) == IF a < b THEN a ELSE b

(* A segment.  ack is the acknowledgement number, meaningful when isAck. *)
Segment(seq, data, syn, fin) ==
    [seq |-> seq, data |-> data, syn |-> syn, fin |-> fin,
     rst |-> FALSE, isAck |-> FALSE, ack |-> 0, wnd |-> 0]

TCP_TCPLEN(seg) == Len(seg.data) + (IF seg.syn \/ seg.fin THEN 1 ELSE 0)
SegEnd(seg) == SeqAdd(seg.seq, TCP_TCPLEN(seg))

(* tcp_alloc: the fields of a fresh control block. *)
tcp_alloc ==
    [state |-> "CLOSED", rxclosed |-> FALSE, closepend |-> FALSE, cb |-> FALSE,
     ackNow |-> FALSE, infr |-> FALSE, inInput |-> FALSE, tfClosed |-> FALSE,
     rcv_nxt |-> 0, rcv_wnd |-> TCP_WND, rcv_ann_wnd |-> TCP_WND, right_edge |-> 0,
     snd_nxt |-> 0, lastack |-> 0, snd_lbb |-> 0, snd_buf |-> TCP_SND_BUF,
     snd_wnd |-> 0, snd_wnd_max |-> 0, snd_wl1 |-> 0, snd_wl2 |-> 0,
     unsent |-> << >>, unacked |-> << >>, oversize |-> 0,
     rtime |-> FALSE, nrtx |-> 0, dupacks |-> 0,
     persist |-> FALSE, persist_probe |-> 0, out |-> << >>]

-----------------------------------------------------------------------------
(* What a segment carries when it leaves: the acknowledgement and the      *)
(* window announced.  The header counts the window in units and drops what *)
(* is short of one (RCV_WND_SCALE), except in a SYN, where it counts bytes *)
(* and is cut to what the field holds (TCPWND_MIN16; outside a SYN nothing *)
(* is cut, by TcpConstants).  wnd is what the client reads from the field. *)
(* The pcb remembers the right edge of the whole window.                   *)
RCV_WND_SCALE(wnd) == wnd - (wnd % WndUnit)

WndField(pcb, seg) ==
    IF seg.syn THEN Smaller(pcb.rcv_ann_wnd, MaxWndField) ELSE RCV_WND_SCALE(pcb.rcv_ann_wnd)

Announce(pcb, seg) ==
    [seg EXCEPT !.isAck = TRUE, !.ack = pcb.rcv_nxt, !.wnd = WndField(pcb, seg)]

Announced(pcb) == [pcb EXCEPT !.right_edge = SeqAdd(pcb.rcv_nxt, pcb.rcv_ann_wnd)]

MutantAckScaledTwice(pcb) ==
    LET seg == Announce(pcb, Segment(pcb.snd_nxt, << >>, FALSE, FALSE))
    IN  [Announced(pcb) EXCEPT
            !.out = Append(@, [seg EXCEPT !.wnd = RCV_WND_SCALE(@ \div WndUnit)]),
            !.ackNow = FALSE]

tcp_send_empty_ack(pcb) ==
    [Announced(pcb) EXCEPT
        !.out = Append(@, Announce(pcb, Segment(pcb.snd_nxt, << >>, FALSE, FALSE))),
        !.ackNow = FALSE]

RstSegment(seqno, ackno) ==
    [Segment(seqno, << >>, FALSE, FALSE) EXCEPT !.rst = TRUE, !.isAck = TRUE, !.ack = ackno]

tcp_rst(pcb, seqno, ackno) == [pcb EXCEPT !.out = Append(@, RstSegment(seqno, ackno))]

-----------------------------------------------------------------------------
(* tcp_write: the state and the room are checked, the spare room of the    *)
(* last unsent segment is used, and the rest becomes segments of at most   *)
(* mss_local bytes.                                                        *)
mss_local(pcb) ==
    LET half == Smaller(TCP_MSS, pcb.snd_wnd_max \div 2)
    IN  IF half = 0 THEN TCP_MSS ELSE half

tcp_write_checks(pcb, len) ==
    IF pcb.state \notin {"ESTABLISHED", "CLOSE_WAIT", "SYN_RCVD"} THEN "ERR_CONN"
    ELSE IF len > pcb.snd_buf THEN "ERR_MEM" ELSE "ERR_OK"

(* How many of len bytes fit the pbuf of the last unsent segment. *)
OversizeUsed(pcb, len) ==
    IF pcb.unsent = << >> THEN 0
    ELSE LET last == pcb.unsent[Len(pcb.unsent)]
         IN  Smaller(mss_local(pcb) - Len(last.data), Smaller(pcb.oversize, len))

(* The new segments for the bytes after the first pos. *)
NewSegments(pcb, bytes, pos) ==
    LET m == mss_local(pcb)
        left == Len(bytes) - pos
        n == (left + m - 1) \div m
        from(i) == pos + (i - 1) * m
    IN  [i \in 1..n |->
           Segment(SeqAdd(pcb.snd_lbb, from(i)),
                   SubSeq(bytes, from(i) + 1, Smaller(from(i) + m, Len(bytes))),
                   FALSE, FALSE)]

FillLast(segs, bytes) ==
    IF bytes = << >> THEN segs
    ELSE [segs EXCEPT ![Len(segs)].data = @ \o bytes]

(* Queues bytes; the caller has seen tcp_write_checks answer ERR_OK. *)
tcp_write(pcb, bytes) ==
    LET used == OversizeUsed(pcb, Len(bytes))
        new == NewSegments(pcb, bytes, used)
    IN  [pcb EXCEPT
           !.unsent = FillLast(@, SubSeq(bytes, 1, used)) \o new,
           !.oversize = IF new = << >> THEN @ - used
                        ELSE mss_local(pcb) - Len(new[Len(new)].data),
           !.snd_lbb = SeqAdd(@, Len(bytes)),
           !.snd_buf = @ - Len(bytes)]

-----------------------------------------------------------------------------
(* tcp_enqueue_flags: a SYN or a FIN in a segment of its own. *)
tcp_enqueue_flags(pcb, syn, fin) ==
    [pcb EXCEPT !.unsent = Append(@, Segment(pcb.snd_lbb, << >>, syn, fin)),
                !.oversize = 0,
                !.snd_lbb = SeqAdd(@, 1)]

(* tcp_send_fin: the FIN rides on the last unsent segment when there is one. *)
tcp_send_fin(pcb) ==
    LET n == Len(pcb.unsent)
    IN  IF n > 0 /\ ~ pcb.unsent[n].syn /\ ~ pcb.unsent[n].fin
        THEN [pcb EXCEPT !.unsent[n].fin = TRUE]
        ELSE tcp_enqueue_flags(pcb, FALSE, TRUE)

FinNeedsSegment(pcb) ==
    LET n == Len(pcb.unsent) IN n = 0 \/ pcb.unsent[n].syn \/ pcb.unsent[n].fin

-----------------------------------------------------------------------------
(* Does the segment end inside the window, counted from the last byte acked? *)
FitsWindow(pcb, seg) ==
    SeqDiff(SeqAdd(seg.seq, Len(seg.data)), pcb.lastack) <= pcb.snd_wnd

(* unacked stays sorted: a segment sent again goes back to its place. *)
InsertUnacked(list, seg) ==
    LET before == {i \in DOMAIN list : TCP_SEQ_LT(list[i].seq, seg.seq)}
        k == Cardinality(before)
    IN  SubSeq(list, 1, k) \o << seg >> \o SubSeq(list, k + 1, Len(list))

(* The loop of tcp_output, for the n segments at the head of unsent. *)
SendSegments(pcb, n) ==
    LET sent == SubSeq(pcb.unsent, 1, n)
        unackedAfter[i \in 0..n] ==
            IF i = 0 THEN pcb.unacked ELSE InsertUnacked(unackedAfter[i - 1], sent[i])
        end == SegEnd(sent[n])
    IN  [Announced(pcb) EXCEPT
           !.unsent = SubSeq(@, n + 1, Len(@)),
           !.unacked = unackedAfter[n],
           !.out = @ \o [i \in 1..n |-> Announce(pcb, sent[i])],
           !.snd_nxt = IF TCP_SEQ_LT(@, end) THEN end ELSE @,
           !.oversize = IF n = Len(pcb.unsent) THEN 0 ELSE @,
           !.ackNow = FALSE, !.rtime = TRUE, !.persist = FALSE]

(* A head that does not fit with nothing in flight starts the persist timer. *)
MutantNoPersist(pcb) == pcb

StartPersist(pcb) ==
    IF pcb.unsent # << >> /\ pcb.unacked = << >> /\ ~ pcb.persist
    THEN [pcb EXCEPT !.persist = TRUE, !.persist_probe = 0] ELSE pcb

(* tcp_output: everything that fits the peer's window leaves at once.      *)
(* Inside tcp_input of the same pcb it does nothing: tcp_input ends in it. *)
tcp_output(pcb) ==
    LET fits == {n \in 1..Len(pcb.unsent) :
                    \A i \in 1..n : FitsWindow(pcb, pcb.unsent[i])}
        blocked == StartPersist(pcb)
    IN  IF pcb.inInput THEN pcb
        ELSE IF fits # {} THEN SendSegments(pcb, Cardinality(fits))
        ELSE IF pcb.ackNow THEN tcp_send_empty_ack(blocked) ELSE blocked

-----------------------------------------------------------------------------
MutantSplitCopiesAll(pcb, split) ==
    LET useg == Head(pcb.unsent)
        rest == [useg EXCEPT !.seq = SeqAdd(@, split)]
    IN  IF pcb.unsent = << >> \/ Len(useg.data) <= split THEN pcb
        ELSE [pcb EXCEPT !.unsent = << [useg EXCEPT !.data = SubSeq(@, 1, split)], rest >> \o Tail(@)]

(* tcp_split_unsent_seg: the head keeps split bytes, a new segment behind  *)
(* it takes the rest.  PSH and FIN are moved to the new segment by setting *)
(* the remaining flags on the head: TCPH_SET_FLAG adds bits to the header  *)
(* and takes none away.                                                    *)
tcp_split_unsent_seg(pcb, split) ==
    LET useg == Head(pcb.unsent)
        rest == Segment(SeqAdd(useg.seq, split),
                        SubSeq(useg.data, split + 1, Len(useg.data)), FALSE, useg.fin)
        head == [useg EXCEPT !.data = SubSeq(@, 1, split)]
    IN  IF pcb.unsent = << >> \/ Len(useg.data) <= split THEN pcb
        ELSE [pcb EXCEPT !.unsent = << head, rest >> \o Tail(@),
                         !.oversize = IF Len(pcb.unsent) = 1 THEN 0 ELSE @]

MutantProbeWithFin(pcb) ==
    LET seg == Head(pcb.unsent)
        probe == Segment(seg.seq, SubSeq(seg.data, 1, 1), FALSE, seg.fin)
        nxt == SeqAdd(seg.seq, 1)
    IN  IF pcb.unsent = << >> THEN pcb
        ELSE [Announced(pcb) EXCEPT
                !.persist_probe = @ + 1,
                !.snd_nxt = IF TCP_SEQ_LT(@, nxt) THEN nxt ELSE @,
                !.out = Append(@, Announce(pcb, probe))]

(* tcp_zero_window_probe: the first byte of the head, or its bare FIN; the *)
(* segment stays unsent although snd_nxt moves past the byte.              *)
tcp_zero_window_probe(pcb) ==
    LET seg == Head(pcb.unsent)
        bare == seg.fin /\ seg.data = << >>
        probe == Segment(seg.seq, SubSeq(seg.data, 1, 1), FALSE, bare)
        nxt == SeqAdd(seg.seq, 1)
    IN  IF pcb.unsent = << >> THEN pcb
        ELSE [Announced(pcb) EXCEPT
                !.persist_probe = @ + 1,
                !.snd_nxt = IF TCP_SEQ_LT(@, nxt) THEN nxt ELSE @,
                !.out = Append(@, Announce(pcb, probe))]

(* tcp_rexmit_rto_prepare: everything in flight goes back before unsent. *)
tcp_rexmit_rto_prepare(pcb) ==
    [pcb EXCEPT !.unsent = pcb.unacked \o @, !.unacked = << >>]

tcp_rexmit_rto_commit(pcb) == tcp_output([pcb EXCEPT !.nrtx = @ + 1])

(* tcp_rexmit: the first segment in flight goes back to its place in unsent. *)
tcp_rexmit(pcb) ==
    IF pcb.unacked = << >> THEN pcb
    ELSE [pcb EXCEPT !.unacked = Tail(@),
                     !.unsent = InsertUnacked(@, Head(pcb.unacked)),
                     !.oversize = IF pcb.unsent = << >> THEN 0 ELSE @,
                     !.nrtx = @ + 1]

tcp_rexmit_fast(pcb) ==
    IF pcb.unacked = << >> \/ pcb.infr THEN pcb
    ELSE [tcp_rexmit(pcb) EXCEPT !.infr = TRUE, !.rtime = TRUE]
=============================================================================
