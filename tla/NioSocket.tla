----------------------------- MODULE NioSocket -----------------------------
(***************************************************************************)
(* vpn/util/NioSocket.kt: the TCP socket under every outbound connection.  *)
(*                                                                         *)
(* Four kinds of thread meet in one object without a lock: the coroutines  *)
(* that connect, send and receive, the selector thread (posted operations, *)
(* in order, and key handlers), the timeout scheduler, and whoever calls   *)
(* forceCancel.  A step is what one of them does between two points where  *)
(* another can be seen.  A channel is named by the address it was opened   *)
(* for, 1..Addresses in the order they are tried; a message is Size units, *)
(* numbered through the stream, the initial data first.                    *)
(*                                                                         *)
(* One send at a time is modelled, and one receiver.  TlsRecordConnection  *)
(* and the mux client hold a lock around their sends; DirectTcpRelay and   *)
(* the protocols that write to the socket as it is hold none, and of them  *)
(* two sends can be suspended together (SerialSends in TcpConnection): for *)
(* those the module says what happens to each message, not to their order. *)
(* The guards against zero-byte reads and writes are left out: the kernel  *)
(* moves a unit or reports an error whenever it reports readiness.         *)
(***************************************************************************)
EXTENDS Integers, Sequences, FiniteSets

CONSTANTS Addresses,    \* how many addresses the name resolved to
          HasInitial,   \* connect() was given initial data
          Size,         \* units in a message
          MaxSends,     \* bound: messages sent
          MaxPending,   \* MAX_PENDING_SEND_BYTES, in units
          MaxReceived   \* bound: units the peer sends

ASSUME NioAssumption ==
    /\ {Addresses, Size} \subseteq Nat \ {0}
    /\ {MaxSends, MaxPending, MaxReceived} \subseteq Nat
    /\ HasInitial \in BOOLEAN

Channels == 1..Addresses
None == 0

VARIABLES state, channel, selectionKey,        \* fields of the socket
          connectCont, connectTimeout, pendingInitialData, pendingReceive, pendingSends,
          fd,         \* each channel, as the kernel has it
          interest,   \* each channel's interest set
          pendingOps, \* operations posted to the selector
          claimed,    \* the channel whose onConnectable has taken the continuation
          timers,     \* timeouts that may still fire
          conn, snd, rcv,   \* the coroutines in connect, send and receive
          job,        \* the connecting coroutine has not been cancelled
          cancel,     \* how far forceCancel has come
          wire,       \* the units written to each channel
          inbox, got  \* units that wait to be read, units received

fields == << state, channel, selectionKey >>
dialing == << connectCont, connectTimeout, timers, claimed, conn, job, pendingInitialData >>
sending == << pendingSends, snd, wire >>
receiving == << pendingReceive, rcv, inbox, got >>
kernel == << fd, interest >>
vars == << fields, dialing, sending, receiving, kernel, pendingOps, cancel >>

Init ==
    /\ state = "SETUP" /\ channel = None /\ selectionKey = None
    /\ connectCont = None /\ connectTimeout = None /\ timers = {} /\ claimed = None
    /\ conn = [at |-> "next", addr |-> 1] /\ job = TRUE /\ pendingInitialData = FALSE
    /\ pendingSends = << >> /\ snd = [at |-> "idle", sent |-> 0, from |-> 0]
    /\ wire = [c \in Channels |-> << >>]
    /\ pendingReceive = FALSE /\ rcv = "idle" /\ inbox = 0 /\ got = 0
    /\ fd = [c \in Channels |-> "none"] /\ interest = [c \in Channels |-> {}]
    /\ pendingOps = << >> /\ cancel = 0

IsOpen(c) == fd[c] \in {"connecting", "refused", "connected", "broken"}
Close(c) == fd' = [fd EXCEPT ![c] = "closed"]
runOnSelector(op, c) == pendingOps' = Append(pendingOps, << op, c >>)

(* Whoever takes the continuation answers it, and nobody else can. *)
Answer(answer) ==
    /\ connectCont # None
    /\ connectCont' = None
    /\ conn' = [conn EXCEPT !.at = answer]

CancelTimeout == timers' = timers \ {connectTimeout} /\ connectTimeout' = None

(* A message, or what is left of it, in pendingSends; waits: a coroutine   *)
(* is suspended until it has been written.                                 *)
Rest(from, to, waits) == [from |-> from, to |-> to, waits |-> waits]

SumOf[n \in Nat] ==
    IF n = 0 THEN 0 ELSE SumOf[n - 1] + pendingSends[n].to - pendingSends[n].from + 1
queuedSendBytes == SumOf[Len(pendingSends)]

-----------------------------------------------------------------------------
(* connect: the next address, or none is left. *)
ConnectFails ==
    /\ conn.at = "next" /\ conn.addr > Addresses
    /\ state' = "FAILED"
    /\ conn' = [conn EXCEPT !.at = "failed"]
    /\ UNCHANGED << channel, selectionKey, connectCont, connectTimeout, timers, claimed, job,
                    pendingInitialData, sending, receiving, kernel, pendingOps, cancel >>

(* connectToAddress, up to the suspension: the socket cannot be protected, *)
(* connect() throws, or the handshake begins.                              *)
connectToAddress ==
    /\ conn.at = "next" /\ conn.addr <= Addresses
    /\ \/ /\ conn' = [conn EXCEPT !.addr = @ + 1]
          /\ pendingInitialData' \in {pendingInitialData, FALSE}
          /\ Close(conn.addr)
       \/ /\ conn' = [conn EXCEPT !.at = "suspending"]
          /\ pendingInitialData' = (pendingInitialData \/ HasInitial)
          /\ fd' = [fd EXCEPT ![conn.addr] = "connecting"]
    /\ UNCHANGED << fields, connectCont, connectTimeout, timers, claimed, job, sending,
                    receiving, interest, pendingOps, cancel >>

MutantNoTimeout ==
    LET c == conn.addr
    IN  /\ conn.at = "suspending"
        /\ runOnSelector("register", c)
        /\ IF job THEN /\ connectCont' = c
                       /\ conn' = [conn EXCEPT !.at = "waiting"]
                       /\ UNCHANGED fd
           ELSE /\ connectCont' = None
                /\ conn' = [at |-> "next", addr |-> c + 1]
                /\ Close(c)
        /\ UNCHANGED << fields, connectTimeout, timers, claimed, job, pendingInitialData,
                        sending, receiving, interest, cancel >>

(* suspendCancellableCoroutine; the continuation of a job that is already  *)
(* cancelled is cancelled as soon as it is set.  One step: a forceCancel   *)
(* that comes between the continuation and its timeout takes the one and   *)
(* leaves the other to fire late, as a timeout already posted also does.   *)
Suspend ==
    LET c == conn.addr
    IN  /\ conn.at = "suspending"
        /\ timers' = timers \cup {c} /\ connectTimeout' = c
        /\ runOnSelector("register", c)
        /\ IF job THEN /\ connectCont' = c
                       /\ conn' = [conn EXCEPT !.at = "waiting"]
                       /\ UNCHANGED fd
           ELSE /\ connectCont' = None
                /\ conn' = [at |-> "next", addr |-> c + 1]
                /\ Close(c)
        /\ UNCHANGED << fields, claimed, job, pendingInitialData, sending, receiving, interest,
                        cancel >>

(* The resumed coroutine, from resumeExecutor. *)
Resume ==
    /\ conn.at \in {"ok", "error"}
    /\ conn' = IF conn.at = "ok" THEN [conn EXCEPT !.at = "connected"]
               ELSE [at |-> "next", addr |-> conn.addr + 1]
    /\ UNCHANGED << fields, connectCont, connectTimeout, timers, claimed, job,
                    pendingInitialData, sending, receiving, kernel, pendingOps, cancel >>

(* The coroutine is cancelled while it connects: it does not wait for the  *)
(* answer of a handler that has taken its continuation.                    *)
CancelJob ==
    /\ job /\ conn.at \notin {"connected", "failed"}
    /\ job' = FALSE
    /\ conn' = IF conn.at \in {"waiting", "ok"} THEN [conn EXCEPT !.at = "error"] ELSE conn
    /\ IF connectCont # None
       THEN connectCont' = None /\ CancelTimeout /\ Close(connectCont)
       ELSE UNCHANGED << connectCont, connectTimeout, timers, fd >>
    /\ UNCHANGED << fields, claimed, pendingInitialData, sending, receiving, interest,
                    pendingOps, cancel >>

(* The scheduler posts the timeout; cancel(false) comes too late for it. *)
TimeoutFires ==
    /\ \E c \in timers : timers' = timers \ {c} /\ runOnSelector("timeout", c)
    /\ UNCHANGED << fields, connectCont, connectTimeout, claimed, conn, job,
                    pendingInitialData, sending, receiving, kernel, cancel >>

-----------------------------------------------------------------------------
(* The selector thread. *)
MutantTimeoutClosesFirst(c) ==
    /\ Close(c)
    /\ IF connectCont # None THEN Answer("error") /\ connectTimeout' = None
       ELSE UNCHANGED << connectCont, connectTimeout, conn >>
    /\ UNCHANGED << timers, interest >>

RunTimeout(c) ==
    /\ IF connectCont # None
       THEN Answer("error") /\ connectTimeout' = None /\ Close(c)
       ELSE UNCHANGED << connectCont, connectTimeout, conn, fd >>
    /\ UNCHANGED << timers, interest >>

RunRegister(c) ==
    \/ /\ IsOpen(c)
       /\ interest' = [interest EXCEPT ![c] = {"CONNECT"}]
       /\ UNCHANGED << connectCont, connectTimeout, conn, timers, fd >>
    \/ /\ ~ IsOpen(c)
       /\ IF connectCont # None THEN Answer("error") /\ CancelTimeout
          ELSE UNCHANGED << connectCont, connectTimeout, conn, timers >>
       /\ UNCHANGED << interest, fd >>

AddInterest(op) ==
    /\ interest' = IF selectionKey # None /\ IsOpen(selectionKey)
                   THEN [interest EXCEPT ![selectionKey] = @ \cup {op}] ELSE interest
    /\ UNCHANGED << connectCont, connectTimeout, conn, timers, fd >>

RunOp ==
    /\ claimed = None /\ pendingOps # << >>
    /\ LET op == Head(pendingOps)
       IN  CASE op[1] = "timeout" -> RunTimeout(op[2])
             [] op[1] = "register" -> RunRegister(op[2])
             [] OTHER -> AddInterest(op[1])
    /\ pendingOps' = Tail(pendingOps)
    /\ UNCHANGED << fields, claimed, job, pendingInitialData, sending, receiving, cancel >>

Selected(c, op) == claimed = None /\ IsOpen(c) /\ op \in interest[c]

(* onConnectable takes the continuation, or finds it taken and returns;    *)
(* finishConnect() throws on a refused connection, and may on one that was *)
(* reset since.                                                            *)
onConnectable ==
    \E c \in Channels :
      /\ Selected(c, "CONNECT") /\ connectCont # None
      /\ \/ /\ fd[c] \in {"connected", "broken"}
            /\ claimed' = c /\ connectCont' = None
            /\ UNCHANGED << conn, fd, pendingInitialData >>
         \/ /\ fd[c] \in {"refused", "broken"}
            /\ Answer("error") /\ Close(c) /\ pendingInitialData' = FALSE
            /\ UNCHANGED claimed
      /\ CancelTimeout
      /\ UNCHANGED << fields, job, sending, receiving, interest, pendingOps, cancel >>

(* ... and then takes the channel over and writes the initial data. *)
Established ==
    LET c == claimed
        Accepted(n) ==
          /\ channel' = c /\ selectionKey' = c /\ state' = "READY"
          /\ wire' = [wire EXCEPT ![c] = [i \in 1..n |-> i]]
          /\ pendingSends' = IF pendingInitialData /\ n < Size
                             THEN Append(pendingSends, Rest(n + 1, Size, FALSE)) ELSE pendingSends
          /\ interest' = [interest EXCEPT ![c] = IF pendingSends' # pendingSends
                                                 THEN {"WRITE"} ELSE {}]
          /\ conn' = IF conn.at = "waiting" THEN [conn EXCEPT !.at = "ok"] ELSE conn
          /\ UNCHANGED fd
        WriteFails ==
          /\ state' = "FAILED" /\ channel' = None /\ selectionKey' = None
          /\ Close(c)
          /\ conn' = IF conn.at = "waiting" THEN [conn EXCEPT !.at = "error"] ELSE conn
          /\ UNCHANGED << wire, pendingSends, interest >>
    IN  /\ c # None
        /\ \/ pendingInitialData /\ fd[c] = "connected" /\ \E n \in 0..Size : Accepted(n)
           \/ pendingInitialData /\ fd[c] = "broken" /\ WriteFails
           \/ ~ pendingInitialData /\ Accepted(0)
        /\ claimed' = None /\ pendingInitialData' = FALSE
        /\ UNCHANGED << connectCont, connectTimeout, timers, job, snd, receiving, pendingOps,
                        cancel >>

-----------------------------------------------------------------------------
First(m) == m * Size + 1
Usable == channel # None /\ IsOpen(channel)

(* The kernel takes n units at once. *)
Direct(n) ==
    /\ wire' = [wire EXCEPT ![channel] = @ \o [i \in 1..n |-> First(snd.sent + 1) + i - 1]]
    /\ snd' = IF n = Size THEN [snd EXCEPT !.sent = @ + 1]
              ELSE [snd EXCEPT !.at = "adding", !.from = First(snd.sent + 1) + n]

MutantWritesPast ==
    /\ snd.at = "idle" /\ conn.at = "connected" /\ snd.sent < MaxSends
    /\ IF ~ Usable \/ queuedSendBytes + Size > MaxPending \/ fd[channel] = "broken"
       THEN snd' = [snd EXCEPT !.at = "failed"] /\ UNCHANGED wire
       ELSE \E n \in 0..Size : Direct(n)
    /\ UNCHANGED << fields, dialing, receiving, kernel, pendingSends, pendingOps, cancel >>

(* send: straight to the kernel when nothing is queued. *)
send ==
    /\ snd.at = "idle" /\ conn.at = "connected" /\ snd.sent < MaxSends
    /\ IF ~ Usable \/ queuedSendBytes + Size > MaxPending
          \/ (pendingSends = << >> /\ fd[channel] = "broken")
       THEN snd' = [snd EXCEPT !.at = "failed"] /\ UNCHANGED wire
       ELSE IF pendingSends = << >> THEN \E n \in 0..Size : Direct(n)
       ELSE snd' = [snd EXCEPT !.at = "adding", !.from = First(snd.sent + 1)] /\ UNCHANGED wire
    /\ UNCHANGED << fields, dialing, receiving, kernel, pendingSends, pendingOps, cancel >>

MutantNoWriteInterest ==
    /\ snd.at = "adding"
    /\ pendingSends' = Append(pendingSends, Rest(snd.from, First(snd.sent + 2) - 1, TRUE))
    /\ snd' = [snd EXCEPT !.at = "waiting"]
    /\ UNCHANGED << fields, dialing, receiving, kernel, wire, pendingOps, cancel >>

(* What is left of it waits for OP_WRITE, and the caller with it. *)
SendWaits ==
    /\ snd.at = "adding"
    /\ pendingSends' = Append(pendingSends, Rest(snd.from, First(snd.sent + 2) - 1, TRUE))
    /\ runOnSelector("WRITE", None)
    /\ snd' = [snd EXCEPT !.at = "waiting"]
    /\ UNCHANGED << fields, dialing, receiving, kernel, wire, cancel >>

(* A message that finds the queue full is dropped. *)
sendAsync ==
    /\ snd.at = "idle" /\ conn.at = "connected" /\ snd.sent < MaxSends
    /\ snd' = [snd EXCEPT !.sent = @ + 1]
    /\ IF ~ Usable \/ queuedSendBytes + Size > MaxPending
       THEN UNCHANGED << pendingSends, pendingOps >>
       ELSE /\ pendingSends' =
                 Append(pendingSends, Rest(First(snd.sent + 1), First(snd.sent + 2) - 1, FALSE))
            /\ runOnSelector("WRITE", None)
    /\ UNCHANGED << fields, dialing, receiving, kernel, wire, cancel >>

SendDone(waits) ==
    snd' = IF waits /\ snd.at = "waiting"
           THEN [snd EXCEPT !.at = "idle", !.sent = @ + 1] ELSE snd
SendsFail ==
    snd' = IF \E i \in DOMAIN pendingSends : pendingSends[i].waits
           THEN [snd EXCEPT !.at = "failed"] ELSE snd

(* onWritable, one turn of its loop: n units of the head leave. *)
WriteHead(c, n) ==
    LET head == Head(pendingSends)
        done == head.from + n > head.to
    IN  /\ n <= head.to - head.from + 1
        /\ wire' = [wire EXCEPT ![c] = @ \o [i \in 1..n |-> head.from + i - 1]]
        /\ pendingSends' = IF done THEN Tail(pendingSends)
                           ELSE [pendingSends EXCEPT ![1] = Rest(head.from + n, head.to, head.waits)]
        /\ IF done THEN SendDone(head.waits) ELSE UNCHANGED snd

onWritable ==
    \E c \in Channels :
      /\ Selected(c, "WRITE")
      /\ \/ pendingSends = << >> /\ UNCHANGED sending
         \/ pendingSends # << >> /\ fd[c] = "connected" /\ \E n \in 1..Size : WriteHead(c, n)
         \/ pendingSends # << >> /\ fd[c] = "broken"
            /\ SendsFail /\ pendingSends' = << >> /\ UNCHANGED wire
      /\ interest' = IF pendingSends' = << >>
                     THEN [interest EXCEPT ![c] = @ \ {"WRITE"}] ELSE interest
      /\ UNCHANGED << fields, dialing, receiving, fd, pendingOps, cancel >>

-----------------------------------------------------------------------------
(* receive: what is there already, or a continuation. *)
receive ==
    /\ rcv = "idle" /\ conn.at = "connected" /\ got < MaxReceived
    /\ \/ ~ Usable /\ rcv' = "failed" /\ UNCHANGED << inbox, got >>
       \/ Usable /\ inbox > 0
          /\ inbox' = inbox - 1 /\ got' = got + 1 /\ UNCHANGED rcv
       \/ Usable /\ inbox = 0
          /\ rcv' = (IF fd[channel] = "broken" THEN "failed" ELSE "setting")
          /\ UNCHANGED << inbox, got >>
    /\ UNCHANGED << fields, dialing, sending, kernel, pendingReceive, pendingOps, cancel >>

ReceiveWaits ==
    /\ rcv = "setting"
    /\ rcv' = "waiting" /\ pendingReceive' = TRUE
    /\ runOnSelector("READ", None)
    /\ UNCHANGED << fields, dialing, sending, kernel, inbox, got, cancel >>

(* The waiting coroutine is cancelled.  (One that onReadable has already    *)
(* taken loses what was read for it, with its caller gone: not modelled.)   *)
(* Bound: not before the operation it posted has run.                       *)
CancelReceive ==
    /\ rcv = "waiting" /\ pendingReceive
    /\ \A i \in DOMAIN pendingOps : pendingOps[i][1] # "READ"
    /\ rcv' = "idle" /\ pendingReceive' = FALSE
    /\ UNCHANGED << fields, dialing, sending, kernel, inbox, got, pendingOps, cancel >>

onReadable ==
    \E c \in Channels :
      /\ Selected(c, "READ") /\ (inbox > 0 \/ fd[c] = "broken")
      /\ \/ /\ ~ pendingReceive
            /\ interest' = [interest EXCEPT ![c] = @ \ {"READ"}]
            /\ UNCHANGED receiving
         \/ /\ pendingReceive /\ inbox > 0
            /\ interest' = [interest EXCEPT ![c] = @ \ {"READ"}]
            /\ inbox' = inbox - 1 /\ got' = got + 1
            /\ pendingReceive' = FALSE /\ rcv' = "idle"
         \/ /\ pendingReceive /\ inbox = 0
            /\ pendingReceive' = FALSE /\ rcv' = "failed"
            /\ UNCHANGED << interest, inbox, got >>
      /\ UNCHANGED << fields, dialing, sending, fd, pendingOps, cancel >>

-----------------------------------------------------------------------------
(* The kernel and the peer. *)
Handshake ==
    /\ \E c \in Channels, end \in {"connected", "refused"} :
         fd[c] = "connecting" /\ fd' = [fd EXCEPT ![c] = end]
    /\ UNCHANGED << fields, dialing, sending, receiving, interest, pendingOps, cancel >>

Breaks ==
    /\ \E c \in Channels : fd[c] = "connected" /\ fd' = [fd EXCEPT ![c] = "broken"]
    /\ UNCHANGED << fields, dialing, sending, receiving, interest, pendingOps, cancel >>

Arrives ==
    /\ Usable /\ fd[channel] = "connected" /\ inbox + got < MaxReceived
    /\ inbox' = inbox + 1
    /\ UNCHANGED << fields, dialing, sending, kernel, pendingReceive, rcv, got, pendingOps,
                    cancel >>

(* forceCancel, from any thread, in four steps other threads can be seen   *)
(* between: the continuation of the dial, its timeout, the waiting         *)
(* coroutines, the channel.  The coroutine that the first one answers may  *)
(* have armed the timeout of the next address before the second.           *)
CancelDial ==
    /\ cancel = 0 /\ cancel' = 1
    /\ state' = "CANCELLED"
    /\ IF connectCont # None THEN Answer("error") ELSE UNCHANGED << connectCont, conn >>
    /\ UNCHANGED << channel, selectionKey, connectTimeout, timers, claimed, job,
                    pendingInitialData, sending, receiving, kernel, pendingOps >>

CancelTimer ==
    /\ cancel = 1 /\ cancel' = 2
    /\ CancelTimeout
    /\ UNCHANGED << fields, connectCont, claimed, conn, job, pendingInitialData, sending,
                    receiving, kernel, pendingOps >>

CancelWaiters ==
    /\ cancel = 2 /\ cancel' = 3
    /\ pendingReceive' = FALSE /\ rcv' = IF pendingReceive THEN "failed" ELSE rcv
    /\ pendingSends' = << >> /\ SendsFail
    /\ UNCHANGED << fields, dialing, kernel, wire, inbox, got, pendingOps >>

CancelChannel ==
    /\ cancel = 3 /\ cancel' = 4
    /\ IF channel # None THEN Close(channel) ELSE UNCHANGED fd
    /\ channel' = None /\ selectionKey' = None
    /\ UNCHANGED << state, dialing, sending, receiving, interest, pendingOps >>

-----------------------------------------------------------------------------
Connecting == connectToAddress \/ ConnectFails \/ Suspend \/ Resume
Selecting == RunOp \/ onConnectable \/ Established \/ onReadable

Next ==
    \/ connectToAddress \/ ConnectFails \/ Suspend \/ Resume \/ CancelJob
    \/ send \/ SendWaits \/ sendAsync \/ receive \/ ReceiveWaits \/ CancelReceive
    \/ TimeoutFires
    \/ RunOp \/ onConnectable \/ Established \/ onWritable \/ onReadable
    \/ Handshake \/ Breaks \/ Arrives
    \/ CancelDial \/ CancelTimer \/ CancelWaiters \/ CancelChannel

Spec == Init /\ [][Next]_vars

(* A coroutine that can run does, the selector thread never stops, and a   *)
(* scheduled timeout fires unless it is cancelled.  Nothing is asked of    *)
(* the network: a handshake may never end, and the kernel's send buffer    *)
(* may stay full, so onWritable is not fair.                               *)
FairSpec ==
    /\ Spec
    /\ WF_vars(Connecting) /\ WF_vars(SendWaits) /\ WF_vars(TimeoutFires)
    /\ WF_vars(Selecting)

-----------------------------------------------------------------------------
(* The sorts of the records, and of every variable. *)
ConnRecord == [at : {"next", "suspending", "waiting", "ok", "error", "connected", "failed"},
               addr : 1..Addresses + 1]
SndRecord == [at : {"idle", "adding", "waiting", "failed"}, sent : Nat, from : Nat]
PendingSend == [from : Nat, to : Nat, waits : BOOLEAN]
SelectorOp == {"register", "timeout", "READ", "WRITE"} \X (0..Addresses)
TypeOK ==
    /\ state \in {"SETUP", "READY", "FAILED", "CANCELLED"}
    /\ channel \in 0..Addresses /\ selectionKey \in 0..Addresses
    /\ connectCont \in 0..Addresses /\ connectTimeout \in 0..Addresses
    /\ claimed \in 0..Addresses /\ timers \subseteq Channels
    /\ conn \in ConnRecord /\ (conn.at \notin {"next", "failed"} => conn.addr \in Channels)
    /\ job \in BOOLEAN /\ pendingInitialData \in BOOLEAN
    /\ pendingSends \in Seq(PendingSend) /\ wire \in [Channels -> Seq(Nat)]
    /\ snd \in SndRecord /\ snd.sent <= MaxSends
    /\ snd.at \in {"adding", "waiting"} => snd.sent < MaxSends
    /\ fd \in [Channels -> {"none", "connecting", "refused", "connected", "broken", "closed"}]
    /\ interest \in [Channels -> SUBSET {"CONNECT", "READ", "WRITE"}]
    /\ pendingOps \in Seq(SelectorOp)
    /\ pendingReceive \in BOOLEAN /\ rcv \in {"idle", "setting", "waiting", "failed"}
    /\ inbox \in Nat /\ got \in Nat /\ inbox + got <= MaxReceived
    /\ cancel \in 0..4

(* Every message that is not dropped reaches the wire whole and in the     *)
(* order of the calls, the initial data first, however the kernel cuts the *)
(* writes and whether the caller or the selector thread makes them: a unit *)
(* is followed by the next one of its message, or ends it and is followed  *)
(* by a later message.  forceCancel ends this: a send that has seen the    *)
(* channel open may write after the rest of the message before it was      *)
(* dropped.                                                                *)
StreamInOrder ==
    cancel = 0 =>
      \A c \in Channels :
        /\ wire[c] # << >> /\ HasInitial => wire[c][1] = 1
        /\ \A i \in 1..Len(wire[c]) - 1 :
             LET a == wire[c][i]
                 b == wire[c][i + 1]
             IN  b = a + 1 \/ (b > a /\ a % Size = 0 /\ b % Size = 1 % Size)

(* The socket a caller is told is connected is: until it is cancelled its  *)
(* channel is open, has its key, and is not one a late timeout of an       *)
(* earlier address, or a failed attempt, has closed.                       *)
ReadyIsOpen ==
    state = "READY" \/ conn.at \in {"ok", "connected"} =>
      cancel > 0 \/ (channel # None /\ selectionKey = channel /\ IsOpen(channel))

(* forceCancel has taken the timeout of an address whose handshake is      *)
(* still under way.                                                        *)
TimeoutTaken ==
    /\ cancel > 1 /\ connectTimeout = None
    /\ connectCont # None /\ fd[connectCont] = "connecting"

(* connect() returns or throws, whatever the addresses and the timeouts do *)
(* and in whatever order the selector learns of it, with one exception:    *)
(* forceCancel answers one address and then cancels the timeout the next   *)
(* one has armed meanwhile, and that one waits for the network alone.      *)
ConnectEnds == <>[](conn.at \in {"connected", "failed"}) \/ <>[]TimeoutTaken

(* connect() returns or throws, whatever forceCancel does too.  Not true.  *)
ConnectAlwaysEnds == <>(conn.at \in {"connected", "failed"})

(* A suspended send is resumed if the peer keeps reading, so that the      *)
(* kernel reports a channel writable again and again, and a suspended      *)
(* receive when there is something to read, unless the socket is           *)
(* cancelled: none waits for ever because an OP_WRITE or OP_READ was lost  *)
(* between the caller that waits and the handler that clears the interest. *)
CallersAnswered ==
    /\ WF_vars(onWritable) => []<>(snd.at \in {"idle", "failed"} \/ cancel > 0)
    /\ []<>(rcv # "waiting" \/ inbox = 0 \/ cancel > 0)
=============================================================================
