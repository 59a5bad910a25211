# A TLA+ verification project for Anywhere-Android

Anywhere is an Android VPN client. A `VpnService` feeds the packets of a TUN
device to a user-space TCP/IP stack (vendored lwIP). Every TCP connection and UDP
flow the stack accepts is carried by a Kotlin object that dials a proxy (VLESS,
Trojan, Shadowsocks, SOCKS5, NaiveProxy, ...) or the destination itself. DNS
queries are answered with synthetic addresses, so that routing rules written for
domain names can be applied when the connection arrives.

This project models the parts of it that decide whether traffic is carried
correctly, and the parser that reads imported configurations. It checks them with
TLC on small instances, and proves the safety properties of eight of them (pool, TCP
connection, lwIP's TCP, UDP flows, stack lifecycle, mux client, NIO socket, YAML import)
with TLAPS for every value of the constants.

Paths of Kotlin files below are relative to
`src/app/src/main/java/com/argsment/anywhere/`, paths of C files to
`src/app/src/main/jni/`.

## 1. Inventory

| component | state it keeps | operations | interacts with |
|---|---|---|---|
| Fake-IP pool (`vpn/FakeIpPool.kt`) | maps domain to offset and back, LRU list by node pointers, next fresh offset | `allocate`, `lookup`, `reset`, address conversions | DNS interception and the accept path of `LwipStack` |
| TCP connection (`vpn/LwipTcpConnection.kt`) | sniffer, route, pending and coalesced uplink data, downlink backlog, half-close flags, three timers | lwIP callbacks (recv, sent, error), dial, send and receive coroutines, timers, `close`, `abort` | lwIP pcb through JNI; the proxy or direct stream |
| lwIP TCP (`lwip/src/core/tcp.c`, `tcp_in.c`, `tcp_out.c`) and the bridge (`lwip/lwip_bridge.c`, `lwip_jni_bridge.c`) | the control block: unsent and unacked segments, sequence numbers, both windows, timers, callbacks | `tcp_input`, `tcp_write`, `tcp_output`, `tcp_recved`, `tcp_close`, `tcp_abort`, fast and slow timer | TUN packets; the TCP connection object |
| UDP flows (`vpn/LwipUdpFlow.kt`, the table in `vpn/LwipStack.kt`) | table by 5-tuple, per flow its path, buffered datagrams, dial and outbound end | datagram in, dial outcome, session or receive loop ends, cleanup timer, teardown | mux client, Shadowsocks session, proxy client, direct relay |
| Stack lifecycle (`vpn/LwipStack.kt`) | running flag, configuration, loaded settings and rules, deferred restart, throttlers, TUN in use | `start`, `stop`, `restartStack`, `switchConfiguration`, settings/routing/certificate signals, `handleWake`, path change, `swapTunFd` | the service's main thread, the executor, TUN reader threads |
| VPN service (`vpn/AnywhereVpnService.kt`) | stack reference, TUN descriptor, start and stop jobs, network monitor | `onStartCommand`, `startVpn`, `stopVpn`, `reapplyTunnelSettings`, network and screen callbacks | the stack; Android |
| Mux client (`vpn/protocol/mux/`) | one proxied connection, its sessions by id, idle timer | `createSession`, frames in and out, `closeAll` | UDP flows |
| NIO socket (`vpn/util/NioSocket.kt`) | channel and key, pending connect with its timeout, reader, writer queue, state | `connect` with address fallback and timeout, `send`, `sendAsync`, `receive`, selector handlers, `forceCancel` | selector thread; all protocol clients |
| YAML import (`libyaml/src/scanner.c`, `parser.c`, `yaml_jni_bridge.c`) | token queue, indentation and simple-key stacks; state and mark stacks; context stack of the JSON writer | fetch a token, parse an event, write JSON | `ClashProxyParser` |
| HTTP/2 sessions (`vpn/protocol/naive/http2/`) | pool, streams, flow-control windows, GOAWAY state | acquire a stream, route a frame, send data | NaiveProxy tunnels |
| Shadowsocks UDP session | registered flows, lazy connection, reply routing | register, send, receive loop, notify all | UDP flows |
| DNS cache (`vpn/util/DnsCache.kt`) | cached answers with expiry | resolve, refresh, evict | every dial |
| Domain router, split routes | suffix trie, CIDR lists | match, build routes | accept path, TUN builder |
| Direct relays | sockets | send, receive loop | UDP flows |
| Proxy protocols, TLS, crypto | wire formats and keys | handshakes, framing | streams |
| Data, subscriptions, UI; the rest of the vendored C | files, screens, third-party code | | |

How they interact: one single-threaded scheduled executor (`lwipExecutor`) runs
every lwIP callback, timer, posted task and resumed coroutine of the stack. The
service's main thread and the selector and network threads only post to it. After
`shutdown()` it drops what is posted. TUN reader threads hand packets to it. So
the hard behaviours there are not data races but *orders*: what is queued behind a
stop, what a suspended coroutine finds when it resumes, which deferred request
replaces which, what a cancelled loop still reports, which timer is left when a phase
ends. `NioSocket` is the exception: callers, the selector thread and the timeout
scheduler meet in one object without a lock. lwIP adds what every TCP has: packets
that are lost and sent again, windows that close, sequence numbers that wrap, and
callbacks made from inside the handling of a packet.

What makes each part correct:

* pool: an address never stands for two domains, and an answered address keeps
  resolving to its domain for as long as the pool's size promises;
* TCP connection: bytes reach the other side in order and once, lwIP's window is
  credited once per byte, nothing stalls without a reason to resume, every connection
  is ended by a timer, nothing is used after the pcb is given up and no connection a dial
  returned outlives it;
* lwIP: bytes arrive in order and once in both directions, the FIN comes last, no byte
  is acknowledged and dropped, queues and windows are conserved, the tunnel is called
  back exactly as long as it listens, what is written arrives and what is closed goes;
* UDP: a listed flow is a live flow, a buffered datagram has something that sends
  or drops it, no outbound end a dial returned outlives its flow, the table keeps its limit;
* mux: a flow that waits for a shared dial is released, a session handed out is one
  its client serves, a flow hears of its session's end, the server sees one New frame
  first and nothing after an End frame, a client without sessions goes away;
* NIO socket: connect ends, a socket reported connected is open, messages reach the
  wire whole and in order, every suspended caller is resumed when the network allows it;
* YAML: tokens are inserted only where the reader has not been, what is opened is
  closed, the two stacks of parser and bridge agree, the output is JSON, no text loops;
* stack: no flow outlives the configuration and rules it was opened under, what
  the user stored and a restart reads is finally in force, the TUN in use has a reader, a
  stop is final.

`PROJECT.json` lists every component with its status and the hazards at their lines.

## 2. Modules

| module | models | notes |
|---|---|---|
| `FakeIpPool` | `FakeIpPool.kt`: both maps, the doubly linked LRU list at pointer level, the offset/address conversions with their byte arithmetic | operators and actions on the pool's variables |
| `AddressLease` | what the pool promises: an address is leased to one domain, and a lease is taken away only when all addresses are leased and every other holder was used more recently | abstract specification |
| `FakeIpDns` | the pool driven by `LwipStack.handleDnsQuery`, `resolveFakeIp`, restart (which keeps the pool) and stop (which resets it) | refines `AddressLease` |
| `TcpConnection` | `LwipTcpConnection.kt`, whole file | lwIP and the remote are external actions |
| `LwipTcpOut`, `LwipTcpIn` | `tcp_out.c`; `tcp_in.c` and the close, window and free functions of `tcp.c`: one operator per C function, from a control block to the control block it leaves | no state of their own |
| `LwipTcp` | one connection: `tcp_input` with its callbacks, the bridge, the tunnel's calls, both timers, over a link that loses packets, against the client's kernel | composes the two; kernel and TUN are external |
| `UdpFlows` | `LwipUdpFlow.kt`, and the table, cleanup timer and teardown in `LwipStack.kt` | |
| `MuxClient` | `MuxClient.kt`, `MuxSession.kt`, `MuxManager.kt`, and the flow's side of a session in `LwipUdpFlow.kt` | the transport is external |
| `NioSocket` | `NioSocket.kt`: connect, both send paths, receive, the selector thread, the timeout scheduler, `forceCancel` | the kernel is external |
| `YamlScanner`, `YamlParser` | `scanner.c` and `parser.c`: one operator per C function | no state of their own |
| `YamlToJson` | scanner, parser and `yaml_jni_bridge.c` running together over a text chosen lexeme by lexeme | composes the two; holds a reference acceptor of JSON |
| `StackLifecycle` | start, restart, throttle, switch, wake, TUN swap and stop in `LwipStack.kt`, and the service's side of the TUN hand-over | |
| `MC*` | instances for TLC | |
| `FakeIpDnsProofs`, `UdpFlowsProofs`, `StackLifecycleProofs`, `TcpConnectionProofs`, `LwipTcpProofs`, `MuxClientProofs`, `NioSocketProofs`, `YamlToJsonProofs` | theorems of one component each | |

Correspondence and abstractions:

* **Executor.** `queue` is the FIFO of posted tasks. A native callback, or a timer
  that is due, runs between any two of them, as it can in the code. A suspended
  coroutine is a record in `dial`, `sends`, `receives` (TCP) or a flag of its flow
  (UDP), and resumes at any moment. In `StackLifecycle`, `busy` is the executor
  inside one of its two long calls (a TUN being established, a trailing timer
  waiting for the throttler's lock), during which the main thread goes on.
* **Data.** Bytes are numbered units, so order, loss and duplication are visible and
  payload is not. A datagram is a count. Configurations and domains are model values.
  Rules are a version number. YAML text is lexemes with a line and a column; of a
  scalar only its kind is kept, and whether it leaves its line or exceeds the 1024
  characters a key may have.
* **Time.** A timer is a flag or the timeout it runs with, and a cooldown is a
  flag. An interval may end at any moment.
* **Dial.** In `TcpConnection`, `UdpFlows` and `MuxClient` a dial succeeds or fails at any
  time. What it carries, and what its coroutine does when it finds the connection closed,
  is modelled. In the first two it may also open something on the way that only its
  coroutine knows (`DialHop`, `DialOpens`: a hop of a chain, the channel of a relay whose
  connect throws; `CutDialOpens`: a relay that sets its channel after `cancel`), which the
  flag `stray` keeps when the dial fails or is cancelled. Whatever is said of "the
  connection a dial returned" leaves these out, and `NoOrphanHop` and `NoStrayEnd` below
  are about them. `NioSocket` is the dial from inside.
* **Sends.** `send` is a call whose coroutine may stay suspended in it. `handedOver` has
  the order in which the calls are made. What two overlapping calls do inside a protocol is not
  modelled; that they overlap is `SerialSends` below.
* **Settings.** A restart reads the rules and all settings but one again; the IPv6 knob
  is handed to it. The certificate policy is read when its signal is handled
  (`Reload`), before the restart it posts. A restart, for routing too, keeps the Fake-IP
  pool, as `FakeIpPool.kt:50-53` has it (the comment at `LwipStack.kt:783` says that a
  routing change rebuilds it).
* **lwIP** as `TcpConnection` sees it is external: it delivers units within its
  window, accepts at most its free send buffer (any part of it), reports sent data,
  FIN and errors. `LwipTcp` is lwIP from inside, with the tunnel reduced to what it
  may call. There the control block is a record with the C names of its fields. A call
  into lwIP is one action, since one thread makes them all; what the tunnel does inside
  a callback is the record `r` of `Reactions`, so a close, rejection or write from
  inside `tcp_input` is part of the same step. Sequence numbers are counted modulo
  `SeqMod` with the signed comparison of the code. As the build configures it, out-of-order
  segments are not queued, and the congestion window does not limit output. A window is
  told as the code does it: in a SYN as it is, up to `MaxWndField`, and afterwards rounded
  down to a multiple of `WndUnit` (`RCV_WND_SCALE`, `rcv_ann_wnd >> 7` in the build), while
  the edge lwIP remembers is not rounded. The client is taken to negotiate the scale option;
  with `WndUnit` 1 the model is of one that does not, and whose window fits the field.
* **The client's kernel** is an ordinary TCP endpoint that sends what the window
  allows, acknowledges what it takes, goes back to the first unacknowledged byte
  after a timeout, and takes no byte it has no room for.
* **NIO socket.** A step is what one thread does between two points at which another
  can see the difference: `onConnectable` takes the continuation in one step and
  publishes the channel in the next; `forceCancel` is four steps (the continuation of the
  dial, its timeout, the waiting callers, the channel). A timeout that has been cancelled
  may already have posted its operation. One send at a time is modelled: `TlsRecordConnection`
  and the mux client hold a lock around theirs. `DirectTcpRelay` and the protocols that
  write to the socket as it is hold none; there only the executor orders the calls, two of
  them may be suspended at once, and the order of their remainders is not covered.
* **YAML.** `Fetch` is one turn of `yaml_parser_fetch_more_tokens` and `Parse` one
  call of the state machine with what the bridge does with the event. Positions in
  the token queue are counted from its head. `plain` (one document, scalar keys) and
  `idle` (steps since a token was taken) are history.
* **Inputs.** What DNS, QUIC blocking or a rule decides about a packet before the
  flow table is reached is an input (it leaves the table unchanged).
* **Cancelled coroutines.** Closing a TCP connection cancels its scope, and what a
  cancelled coroutine still posts clears a flag of a closed connection, so it is
  left out. For UDP it is not left out: a cancelled receive loop reports its end,
  which is what `ActiveFlowListed` below is about. In `MuxClient` cancelling ends a call
  that waits for the dial or for the write lock; a send is not cancellable
  (`NioSocket.send`), and a cancelled dial may throw or still come to its end.
* **Mux.** A call of `dispatch` is a phase of its session, and a step is what runs
  between two suspensions. Resumptions and posted tasks run in any order, which the
  executor's FIFO only narrows; frames keep the order in which they were launched.
  A transport is `none`, `dialing`, `open` or `dead`. A dial that succeeds on a client
  closed meanwhile gives an open or a dead one: `VlessClient.cancel` does not know the
  socket before the TLS handshake is done. A teardown reaches the flows that are in
  the table, which need not be all of them (`ActiveFlowListed`). An XUDP session closed
  before its first datagram sends an End frame without a New one, as the code does.

## 3. Runs

Passing runs (deadlock is checked only for the pool; in the others the system may
really stop, by a closed connection, a stopped stack, a file read to its end or
exhausted flow numbers):

| run | instance | shows |
|---|---|---|
| `fake_ip_pool` | 4 domains, POOL_SIZE 3; 9,426 states | `MapsInverse`; `AnswerStaysValid`, an answer stays valid while fewer than POOL_SIZE other domains were used; `ImplementsLease`, the refinement of `AddressLease` |
| `tcp_uplink` | both routes, 4 units up, 1 down, window 3, pending cap 5, coalesce 2, fair; 219,855 states | `WindowConserved`, `NoStrandedUplink`, `NoUseAfterClose`, `NoOrphanConnection`, `ProxyUplinkInOrder`, `EventuallyClosed` |
| `tcp_downlink` | both routes, 1 unit up, 6 down, send buffer 2, low-water mark 2, reads of up to 2; 245,584 states | `DownlinkInOrder`, `DownlinkNeverStalls` |
| `stack_restart` | 2 configurations, 3 settings, the routing and certificate signals, 3 events, 3 TUNs, one failing read, fair; 1,267,064 states | `NoStaleFlow`, `StaysStopped`, `ReloadedSettingsLand`, `TunServed` |
| `udp_flows` | 3 keys, 3 flows, table of 2, buffer of 1, every path; 3,144,478 states | `NoClosedFlowListed`, `BufferedHasOutcome`, `NoOrphanOutbound` |
| `mux_client` | with and without XUDP, 3 sessions, 2 clients, 2 datagrams per flow; 2,415,253 states | `WaitersReleased`, `LiveSessionListed`, `FlowHearsOfClose`, `FramesInOrder` |
| `lwip_tcp` | 3 bytes down, 2 up, segments of 2, send buffer 2, window 3 announced in units of 2, client buffer 1, sequence numbers modulo 16 that wrap in both directions, one loss; 1,710,413 states | `StreamsInOrder`, `NoEarlyFin`, `AckedIsDelivered`, `SendQueueConserved`, `WindowConserved`, `NoOrphan`, `EdgeHeldToUnit` |
| `lwip_live` | 2 bytes down through a client buffer of 1, two losses, allocations that fail, fair; 27,398 states | `Delivered`, `CloseCompletes` |
| `yaml_parse` | columns 0 to 2, queue of 3, nesting 3, context stack of 3, six families of files; 2,519,097 states | `KeysStillQueued`, `CollectionsMatch`, `BridgeInStep`, `JsonWellFormed`, `NeverLoops` |
| `nio_socket` | 2 addresses, initial data and one message of 2 units, queue of 3, one unit received, fair; 1,125,944 states | `StreamInOrder`, `ReadyIsOpen`, `ConnectEnds`, `CallersAnswered` |

Why the bounds are enough: four domains on three offsets make every allocation
path happen, eviction after eviction included. Four units against a window of 3
and a coalesce limit of 2 give a sniffed prefix, data during the dial, a flush in
two chunks, data arriving during a flush, and a window that must be credited
before the last unit can be sent. The pending cap is larger than the window and less than
twice it, as in the code (2785280 against 1495040 bytes). Six units down against a send buffer and a
low-water mark of 2 give a full buffer, a partial write, a retry, and a receive
that is held back and re-armed. Three events give a restart, a deferred restart
inside its cooldown and a request that replaces it; three TUNs give a swap of a
swapped TUN. Three flows over a table of 2 give a table at its limit and a
replacement of a flow. Three sessions over two clients give a dial with two flows
waiting for it, a client closed under some of its sessions, and a second client
after the first; two datagrams tell XUDP's first frame from the next. The session
ids are not bounded by the code's 65535, because fewer sessions are asked for.

For lwIP, three bytes through a send buffer of 2 and a client buffer of 1 give
segments that are filled up, cut by the window, split by the persist timer, probed
with and sent again. Two bytes up, and a FIN, against a window of 3 told in units of 2 and
at most 2 in the SYN give a window that closes for the client before it is full, a FIN that
fits and one that does not, a segment of which part is known, and an edge that is told one
byte behind an earlier one. `LinkCap` bounds the packets under way (an action that would put one more on a
full link waits), `Losses` the packets lost. The flag `SplitFin` keeps one case out of
`lwip_tcp`, the split of a segment that carries the FIN: that case violates `NoEarlyFin`
and has its own run. `MemFails` and `Rejects` turn failing allocations and rejections
inside the receive callback on where a run needs them.

For YAML the files are not bounded in length: the state of scanner, parser and bridge is.
`MaxCol` 2 gives an indentation, one inside it and one between; `MaxQueue` is how
long the queue may be when a line is read on; `MaxNesting` and `MAX_DEPTH` stand for
the parser's 1000 and the bridge's 128, and are both reached. The six families
of files mix documents and directives, block structure, flow sequences, flow mappings,
flow in block, and the two flow kinds in each other.

For the socket, two addresses are needed for a late timeout or handler of the first to
meet the second; a message of 2 units can be cut; a queue of 3 holds a remainder and one
message. The safety properties were also checked with three addresses, with two messages
and a queue of 4, and without initial data.

`TypeOK` of each module gives the sort of every variable. For the pool, the TCP
connection, the UDP flows, the stack, the socket and the YAML import it is a theorem; for
the mux client so is `MuxType`, which leaves out the bound on datagrams. For `LwipTcp`
it holds on the instances above (add it to the cfg to see it), and the runs leave it out.

Every property of a passing run has a mutant in `PROJECT.json`: a plausible bug in
a mapped definition under which TLC finds the property violated.

### Runs that end in a violation

| run | property | what happens |
|---|---|---|
| `tcp_direct_order` | `UplinkInOrder` | on the direct route, data received while the dial's follow-up send is suspended is flushed by a second coroutine, and its bytes can be handed to the socket between the follow-up's chunks |
| `lwip_fin_split` | `NoEarlyFin` | `tcp_split_unsent_seg` means to move the FIN to the second half, but `TCPH_SET_FLAG` only adds flags: the first half keeps its FIN, and the client sees the end of the stream too early |

They use the smallest bounds that reach the violation.

### Properties that do not hold

These are stated in the modules, each from what a comment or an assertion of the
code says, and TLC refutes them with the cfg named. They are kept as a record, beside
the runs of `PROJECT.json`.

| property | cfg (with module) | what the code says, and what happens |
|---|---|---|
| `TcpConnection!HalfCloseTimed` | `MCTcpHalfClose.cfg` (`MCTcpConnection`) | `TunnelConstants.kt:14` "Timeout after uplink (local → remote) finishes (default 1s)". A FIN during the dial is not remembered when the activity timer is created, so the idle timeout of 300 s applies |
| `StackLifecycle!SwitchLands` | `MCStackSwitchLost.cfg` (`MCStackLifecycle`) | `LwipStack.kt:507` "Switches to a new configuration, tearing down all active connections". A switch deferred by the cooldown is replaced by a restart that captured the old configuration, and is never applied |
| `StackLifecycle!TunClosedAfterStop` | `MCStackTunLeft.cfg` (`MCStackLifecycle`) | `AnywhereVpnService.kt:282` "Use the completion callback so the TUN file descriptor is closed". A settings change still queued when the VPN is stopped builds a TUN that no one closes |
| `UdpFlows!ActiveFlowListed` | `MCUdpStaleRemove.cfg` (`MCUdpFlows`) | `LwipStack.kt:111` "Active UDP flows keyed by 5-tuple string". The receive loop of a closed flow removes, by key, a newer flow from the table; that flow keeps its outbound end, unseen by the cleanup timer |
| `StackLifecycle!Ipv6SettingLands` | `MCStackIpv6Lost.cfg` (`MCStackLifecycle`) | `LwipStack.kt:157` "with a trailing edge so the final state always propagates". A deferred restart has captured the IPv6 knob and puts the old value back when it runs after the change, or replaces the deferred restart that brought the new one |
| `TcpConnection!SerialSends` | `MCTcpParallelSend.cfg` (`MCTcpConnection`) | `LwipTcpConnection.kt:286` "so we never spawn a parallel send", and 620 "strictly serial `send` calls — a hard requirement". The follow-up send of the dial (line 551) is a coroutine of its own, and a flush can start while it is suspended |
| `TcpConnection!NoOrphanHop` | `MCTcpStrayHop.cfg` (`MCTcpConnection`) | the closed branch of `onProxyConnected` (line 528) cancels what a late dial returns. A dial through a chain that fails or is cancelled after its first hop closes none of the hops (line 585) |
| `UdpFlows!NoStrayEnd` | `MCUdpStrayEnd.cfg` (`MCUdpFlows`) | the same of `LwipUdpFlow.kt:297-315`. With `Paths = {"direct"}` TLC shows it of `DirectUdpRelay.kt`: a channel whose `connect` throws is not closed (line 127), and one is set (134) after a `cancel` (186) that found none |
| `NioSocket!ConnectAlwaysEnds` | `MCNioCancelTimeout.cfg` (`MCNioSocket`) | `connect` gives every address a timeout (`NioSocket.kt:271`). `forceCancel` resumes the continuation (line 617) and then cancels `connectTimeout` (619), which may by then be the one of the next address: that address waits for the network alone |
| `LwipTcp!EdgeNeverShrinks` | `MCLwipEdge.cfg` (`MCLwipTcp`) | `tcp.c:951` "keep the right edge of window constant". The window told is rounded down to a unit and the remembered edge is not, so after a few bytes the client is told an edge up to a unit less one behind the last (`EdgeHeldToUnit` is what holds) |
| `MuxClient!IdleTimed` | `MCMuxIdle.cfg` (`MCMuxClient`) | `MuxClient.kt:20` "applies a 16s idle timeout". An End frame of the server takes the session out of the table without restarting the idle timer, so a client without sessions stays open; an XUDP client is never used again |
| `LwipTcp!PersistQueues` | `MCLwipPersist.cfg` (`MCLwipTcp`) | the assertions at `tcp.c:1240-1241`. The acknowledgement of a byte sent only as a window probe empties the unsent queue while the persist timer runs on; the next tick meets the assertion |

### Fairness

`FairSpec` is used only where a liveness property is checked.

* `TcpConnection`: weak fairness of running a posted task and of the handshake and
  activity timers. The executor is a live thread and its scheduled timers fire.
  Nothing is assumed of the app, of lwIP, of the dial or of the remote, so
  `EventuallyClosed` says that the timers alone close every connection.
* `StackLifecycle`: weak fairness of the cooldown, the throttle intervals and their
  trailing timers, running a task, the end of a reapply, the deferred restart, and
  a created thread getting to run. Nothing is assumed of the user, the system or
  the apps.
* `LwipTcp`: a packet on the link is taken (weak: two threads that never stop), TIME_WAIT
  ends, a FIN without memory finds memory at last, and the slow timer ticks. A tick needs no
  free link in the code; only the model's bound `LinkFree` can disable it, so it is
  strongly fair. Losses are finite. The client reads what it is sent, with strong
  fairness for the same reason: a client that never reads keeps a closed connection until
  the probes run out. Nothing is assumed of the tunnel or of what the client sends.
* `NioSocket`: a coroutine that can run does, the selector thread runs its operations
  and handlers, and a scheduled timeout fires unless it is cancelled. Nothing is asked of
  the network: a handshake may never end, and `ConnectEnds` still holds, unless
  `forceCancel` took the timeout of the address that waits. The kernel's send buffer
  may stay full, so `onWritable` is not fair; the half of `CallersAnswered` about sends is
  conditional on it (`WF_vars(onWritable) => ...`).

## 4. Proofs

The theorems hold for every value of the constants that satisfies the named
assumptions of the modules (which TLC evaluates on the instances).

**`FakeIpDnsProofs`** (`NoDomain` is no domain; 1 <= POOL_SIZE < 65536, the range of
the address arithmetic; the two outcomes of a lookup that are not domains are not
domains). Theorems `PoolTypeCorrect`, `PoolMapsInverse`, `FallbackUnreachable`,
`AnswersStayValid`, `PoolImplementsLease`. The maps being inverse is not inductive:
binding a fresh offset needs that offset to be unbound, and evicting needs a tail to
evict. The invariant is `PoolInv` = `TypeOK` /\ `MapsInverse` /\ `TailExists` (once an
offset was handed out the list has a tail) /\ `FreshUnbound` (no offset at or above the
next one is bound). `FallbackUnreachable` is the same fact seen from the code: the
branch of `evictLru` for an empty list cannot be taken. That an answer stays valid, and
that the pool implements `AddressLease`, depends on *which* entry is evicted, so `DnsInv`
adds the shape of the linked list: `LruOrder` says that there is a rank which numbers the
nodes from the head, with `next` and `prev` leading to the neighbours in rank (`Chain`),
and in which a node nearer to the head was used later (`Recent`). A rank takes the
place of induction along the links: `removeNode` and `insertAtHead` are shown to turn a
chain into a chain with an explicit new rank. `NodesBound`, `HandedOutBound` and
`AnswerInv` connect the list with the maps and with what was answered. The tail is then
the least recently used entry, which is what an evicting step of the lease asks for; and
an evicted domain has POOL_SIZE other domains used since, which is `AnswerInv`.

**`UdpFlowsProofs`** (paths are among the six kinds of the code, there is a key,
limits are positive). Theorems `UdpTypeCorrect`, `ClosedFlowsUnlisted`,
`BufferedDatagramsLeave`, `ReturnedEndsAreClosed`, `TableStaysBounded`. The
invariant `UdpInv` = `TypeOK` /\ `EntryInv` /\ `FlowInv`. `EntryInv`: a flow is listed
only under its own key, and a listed flow exists, is not closed, and is connecting
or holds an outbound end. It is needed because every close removes *its own* key:
only if a flow is nowhere else in the table does that unlist it. `FlowInv`: a closed
flow holds nothing; what is open is held, or its handing over is queued; a
connecting flow is dialing or the outcome is queued; a flow buffers only while it
connects. The bound of the table needs no counting argument beyond the guard,
because no step but the creation of a flow adds an entry.

**`StackLifecycleProofs`** (the first configuration is a configuration; the rule
signals are among routing and certificate; bounds are naturals). Theorems
`StackTypeCorrect`, `FlowsNeverStale`, `StopIsFinal`. The invariant `StackInv` adds
to the three: `TaskOrder` (a start can only be the first task of the queue, and then
the stack is not running; a cleanup can only be the last, and there is one exactly
between the shutdown of the executor and its running), `Configured` (until the
cleanup there is a configuration) and `Counts` (which keeps the throttlers within
the model's bound). `TaskOrder` is why a stop is final: what is posted after the
shutdown is dropped, so the cleanup leaves an empty queue behind. It is also why no
flow is stale when the start task loads the rules. The lemmas `TailKeepsShape` and
`AppendKeepsShape` carry the order through taking and posting a task.

**`TcpConnectionProofs`** (the routes are among direct and proxy; sizes are naturals,
limits positive). Theorems `TcpInvariant`, `TcpTypeOK`,
`TcpNeverUsedAfterClose`, `TcpLeavesNoOrphan`, `TcpStrandsNoUplink`,
`TcpProxyUplinkStaysInOrder`, `TcpDownlinkStaysInOrder`, `TcpDownlinkNeverStalls`. The
invariant `TcpInv` has seven layers. `PcbInv`: a closed connection has no coroutine and
no timer, so only posted tasks can run late, and they check `closed`. `SendsInv`: a
coroutine still has a chunk to send. `PhaseInv`: an open connection sniffs, dials or is
open; during the dial the executor's queue holds nothing but the dial's outcome, and of
a closed connection only an outbound end whose outcome is queued can be open, which is
why nothing a dial returns leaks. `FlushInv`: `coalesceScheduled` and `coalesceFlushInFlight` say exactly
what is posted, running or ending, and at most one flush is any of these. `UplinkInv`:
handshake data, pending data, what was handed over, the flush's remaining chunks and the
coalescing buffer are consecutive pieces of the app's stream (an offset per chunk stands
for the sum of the lengths before it). `DownlinkInv`: at most one receive is under way
or queued, as `receiveInFlight` says, and it has what follows the backlog. The proof
first reduces the actions to eighteen shapes of steps (`Step`, lemma `StepShape`), most of
which leave most layers alone, and then shows one lemma per layer and shape.

`TcpConservesWindow`, in the second half of the module, is about the same invariant with
`WindowInv` added (an open connection without a waiting failure accounts for every unit).
What is held is a sum over a sequence of coroutines and one of tasks, so that half first
proves what `Sum` does when an element is appended, taken, changed or removed. The
library's induction theorems are out of reach of the provers; that the recursive function in `Sum` computes partial
sums is shown by the least index at which it could fail, which the well-foundedness of
the naturals provides. Each step is then an equation between seven changes (`Moves`).

**`MuxClientProofs`** (at least one session, client and datagram). Theorems `MuxInvariant`,
`WaitersAreReleased`, `SessionsAreListed`, `FlowsHearOfClose`, `FramesStayInOrder`. `MuxInv`
is a type and two families: `ClientInv(c)` (a client that connects has a dialing session,
who waits is pending, a closed client lists nothing, an unclosed one can still write and
is known to the manager) and `SessionInv(s)` (a session that is not over and not closed is
listed, one past the dial has a connected client, a held one that is closed was told).
They need each other: a waiter's dial is known through its client. The order of frames
needs `FrameInv`: what a frame waiting for the write lock relies on (`QueuedInv`), the
order of two of them (`PairInv`) and what the wire has seen (`WireInv`). Every action but
the teardown is an instance of four lemmas about a step of one client.

**`NioSocketProofs`** (at least one address, units of positive size). Theorems `NioTypeOK`,
`ReadyStaysOpen`, `StreamStaysInOrder`. `DialInv` says who may hold a channel: the waiting
coroutine, the handler that has taken its continuation and not yet published, or the
socket, never two of them, and never a channel the coroutine can still come to. This is
what a late timeout of an earlier address would have to break. `StreamInv` says that the
wire, the queue of pending sends and what the caller is about to add form one chain, each
piece following the one before it, as long as the channel works; `InitialInv` that the
initial data is in place when the chain begins.

**`YamlToJsonProofs`** (there is a column and room in the queue; the nesting limits are
naturals; files are made of the kinds of text the scanner knows). Theorems `YamlInvariant`,
`YamlTypeCorrect`, `LateKeysStayQueued`, `CollectionsStayMatched`, `BridgeStaysInStep`,
`JsonStaysWellFormed`, `ParserNeverLoops`, for texts of any length and any nesting. The
invariant `IInv` has a part for each stage. `ScanInv`: there is a key per flow level, the
possible ones are queued and in order, and the outermost indentation is -1. `Balance` (the
indentations, plus the queued ends, less the queued starts) is what the scanner's
operations leave alone and the parser's steps account for. `StackOf`: outside of a
document the parser's stack is empty, inside its first entry returns to the end of the
document, and a sequence without indentation stands in a block mapping; this is why POP
never underflows. `HeadInv`: between announcing a collection and taking its start token
that token is still the head of the queue, and no key can be inserted before it. `JsonInv`:
the open brackets are the frames, and the innermost frame decides what may come next.
`MayIdle` bounds, for every state, the steps without a token that can lie behind it, which
is the measure behind `NeverLoops`. The proof has one contract for each stage (`Ready`,
`Steps`, `Outcome`), one lemma per C function for each, and `FrameStep`, how an event moves
the frames, where parser and bridge meet. That the frames of a stack (`FramesOf`, a
recursive function) grow by those of the state pushed is shown by the least index at which
two lists could differ.

**`LwipTcpProofs`** (sizes are positive, the sequence space is even, and half of it exceeds
each buffer, window and stream length by more than two; the window fits the header's field
in units of the scale; `SplitFin`, `Rejects` and `MemFails`
may have any value). Theorems `LwipTcpInvariant`, `LwipTcpStreamsInOrder`,
`LwipTcpAckedIsDelivered`, `LwipTcpConservesWindow`, `LwipTcpNoOrphan`,
`LwipTcpEdgeHeldToUnit`. lwIP compares sequence numbers by the top bit of their
difference, which is a comparison of positions only while the positions are less than half
the space apart. The bound on the streams keeps any two positions of one connection that
close, a packet left on the link included: with longer streams a packet could survive
half a turn of the sequence numbers, which TCP leaves to the segment lifetime. The model has
no clock, so this is an assumption here. The numbers themselves wrap, from any initial value.
The invariant `LwipInv` says what the four parts know of each other. `PcbInv`: the control
block by state (`Ctl`), its receive side (`RcvOK`: the announced edge lies within the window),
its send side (`SndOK`: a queued segment holds the bytes its sequence number says and ends
within what was written; the last unsent one, while it has room, ends where the next byte
written goes, `Spare`), what it has sent (`OutOK`), and how it agrees with the tunnel's object
(`Held`: `rcv_nxt` stands for what the tunnel was given, `snd_lbb` for what it wrote).
`PeerInv`: the kernel's position in both streams. `UpInv`: a packet on its way to lwIP carries
the bytes its number says, and no SYN lies behind an acknowledgement of lwIP's SYN. `DownInv`:
each announcement on its way to the kernel tells an edge less than a unit behind every
earlier one, and behind the highest the kernel was told (`Announces` with the history
field `top`), and none lies beyond the edge lwIP remembers (`Below`); a SYN, whose window is
cut to the header's field, is excepted. That is why `EdgeHeldToUnit` needs
an invariant over the whole link, and `SndOK` is why a retransmission of a split or partly
acknowledged segment cannot shift the stream. One call into lwIP passes through many C
functions, between which less holds than between two calls; `Kept`, `Mid`, `Ready` and
`After` are the contracts of these stretches. The proof has a lemma per operator of
`tcp_out.c`, `tcp_in.c` and `tcp.c`, and one per action that combines them. Where the C code
walks a queue to the first segment with a property, the place is found as the least index
that has it.

Checked by TLC and not proved: every liveness property (`EventuallyClosed`,
`ReloadedSettingsLand`, `TunServed`, `Delivered`, `CloseCompletes`, `ConnectEnds`,
`CallersAnswered`), which needs fairness; and of `LwipTcp`, its `TypeOK`,
`SendQueueConserved`, which counts bytes over both queues where the invariant above only
says that each segment is right, and `NoEarlyFin`, which holds only as long as no segment
with a FIN is split and is what the run `lwip_fin_split` shows violated.

## 5. Not modelled, and why

* TLS, cryptography, wire formats of the protocols: computation on bytes. The
  models see an ordered stream and a dial that may fail.
* UI, subscriptions, stored data: screens and small files without a protocol of
  their own.
* Of lwIP: active open, options, checksums, keep-alive, congestion control, several
  control blocks at once, memory pools and pbufs, and the IP, ICMP, ND6 and netif
  layers. Of libyaml: the reader's decoding, the text of scalars, failed allocations,
  and the emitter, dumper and writer, which the app does not call. BLAKE3.
* The UDP half of the bridge and the JNI layer's marshalling, failures of the Java heap
  included.
* YAML files of several documents, or with collections or aliases as keys: the bridge
  writes text that is not JSON for them, which `ClashProxyParser` rejects.
* In the socket: name resolution, socket options, and the counters against zero-byte
  reads and writes. `forceCancel` is modelled, but two of its races have no property
  because nothing better is promised: a send queued after the drain is never resumed,
  and a connect under way goes on to the next address. A third, the timeout it takes from
  that address, is `ConnectAlwaysEnds` above.
* HTTP/2 sessions, the DNS cache, the Shadowsocks session from inside, the domain
  router's matching (see the plan).
* Two stacks at once: `StackLifecycle` has one stack, so a start racing the stop of
  an earlier one is not covered (see the plan).
* Hazards without a property have a note in `PROJECT.json`. That the TUN has *at
  most* one reader is not stated: a reader thread created and not yet running when
  a swap happens reads the newer TUN next to the reader of the restart, each packet
  still being read once.

## 6. Plan

In order of importance:

1. Proofs: `SendQueueConserved` of `LwipTcp`, which adds to its invariant that the two queues
   leave no gap, and `NoEarlyFin` for the case without a split FIN.
2. `TcpConnection` composed with `LwipTcp`, and `UdpFlows` with `MuxClient`, in place of
   the external sides each has now.
3. `VpnServiceLifecycle`: start and stop intents, jobs and network callbacks around
   `StackLifecycle`, with an old stack still draining.
4. `Http2Session`: stream reservation, settings, windows and GOAWAY.
5. `ShadowsocksUdpSession` and `DnsCache`: lazy connect with queued sends,
   stale-while-refresh.
6. Pure algorithms: the domain trie's longest match and the split-route complement,
   each against a reference definition over bounded inputs.
