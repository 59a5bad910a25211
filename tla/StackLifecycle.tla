--------------------------- MODULE StackLifecycle ---------------------------
(***************************************************************************)
(* vpn/LwipStack.kt: how the running stack takes in a change of            *)
(* configuration, settings, rules or network, and how it ends; with the    *)
(* parts of vpn/AnywhereVpnService.kt that call it.                        *)
(*                                                                         *)
(* Three kinds of threads share the state: the service's main thread (the  *)
(* user's and the system's events), the single lwIP executor (`queue`, its *)
(* timers, and `busy` while it is inside a long call), and the TUN reader  *)
(* threads.  Time is two flags per throttle: an interval is running, or it *)
(* has elapsed.                                                            *)
(***************************************************************************)
EXTENDS Integers, Sequences, FiniteSets

CONSTANTS
  Configs,        \* proxy configurations
  FirstConfig,    \* the one the VPN is started with
  RuleSignals,    \* the signals whose handlers restart the stack as it is
  MaxEvents,      \* bound: events of the user and the system
  MaxTuns         \* bound: TUN interfaces ever built

ASSUME ConfigAssumption == FirstConfig \in Configs
ASSUME SignalAssumption == RuleSignals \subseteq {"routing", "certificate"}
ASSUME BoundAssumption == MaxEvents \in Nat /\ MaxTuns \in Nat \ {0}

None == "none"
Signals == {"settings"} \cup RuleSignals
Knobs == {"ipv6DnsEnabled", "encryptedDns", "blockQuic"}
Reloaded == Knobs \ {"ipv6DnsEnabled"}     \* re-read from prefs on a restart
Tuns == 1..MaxTuns
NoTun == 0

VARIABLES
  \* the service, on the main thread
  asked,            \* the configuration last asked for
  prefs, rules,     \* stored settings; version of the rules
  policy, loadedPolicy, \* versions of the certificate policy: stored, and cached
  serviceStack,     \* lwipStack # null
  serviceTun,       \* the service's tunFd
  openTuns, built,  \* TUN interfaces open, and how many were ever built
  events,
  \* the stack
  running, stopped, configuration, ipv6DNSEnabled, loaded, loadedRules,
  tunInput, tunFdSwapped, cooling, flows,
  deferredRestart,  \* the deferred request, if any, with what it captured
  \* the executor
  queue, shutdown, throttle, busy,
  \* reader threads: created and not yet running, and per TUN
  starting, reading,
  readFailed        \* a reader has ended with a read error

policyVars == <<policy, loadedPolicy>>
userVars == <<asked, prefs, rules, policyVars, events>>
tunVars == <<serviceStack, serviceTun, openTuns, built>>
stackVars == <<running, stopped, configuration, ipv6DNSEnabled, loaded, loadedRules,
               cooling, deferredRestart, flows>>
swapVars == <<tunInput, tunFdSwapped>>
execVars == <<queue, shutdown, throttle, busy>>
readThreads == <<reading, readFailed>>
readerVars == <<starting, readThreads>>
vars == <<userVars, tunVars, stackVars, swapVars, execVars, readerVars>>

Idle == [cooling |-> FALSE, pending |-> None, orphans |-> 0]
NotBusy == [op |-> None]

\* The executor drops what is posted after shutdown() (DiscardPolicy).
Post(task) == queue' = IF shutdown THEN queue ELSE Append(queue, task)

\* startVpn has built a TUN, and start() has posted its task.
Init ==
  /\ asked = FirstConfig /\ rules = 0 /\ policy = 0 /\ loadedPolicy = 0 /\ events = 0
  /\ prefs = [k \in Knobs |-> FALSE]
  /\ serviceStack = TRUE /\ serviceTun = 1 /\ openTuns = {1} /\ built = 1
  /\ running = FALSE /\ stopped = FALSE
  /\ configuration = FirstConfig /\ ipv6DNSEnabled = FALSE
  /\ loaded = [k \in Reloaded |-> FALSE] /\ loadedRules = 0
  /\ tunInput = 1 /\ tunFdSwapped = FALSE
  /\ cooling = FALSE /\ deferredRestart = {} /\ flows = {}
  /\ queue = <<[task |-> "start"]>> /\ shutdown = FALSE
  /\ throttle = [s \in Signals |-> Idle] /\ busy = NotBusy
  /\ starting = 0 /\ reading = [t \in Tuns |-> 0] /\ readFailed = FALSE

-----------------------------------------------------------------------------
(* SignalThrottler.  `pending` is its handle on the trailing timer: none,  *)
(* scheduled, or started but still waiting for the lock, when cancelling   *)
(* it has no effect.  An orphan is a scheduled timer whose handle was      *)
(* overwritten.                                                            *)

submit(s) ==
  IF throttle[s].cooling
  THEN /\ throttle' = [throttle EXCEPT ![s].pending = "scheduled"]
       /\ UNCHANGED queue
  ELSE /\ throttle' = [throttle EXCEPT ![s].pending = None, ![s].cooling = TRUE]
       /\ Post([task |-> "signal", signal |-> s])

\* reset() of all throttlers.  A started timer is not stopped by it.
ResetThrottlers == throttle' = [s \in Signals |-> [Idle EXCEPT !.orphans = throttle[s].orphans]]

ThrottleExpires(s) ==
  /\ throttle[s].cooling
  /\ throttle' = [throttle EXCEPT ![s].cooling = FALSE]
  /\ UNCHANGED <<userVars, tunVars, stackVars, swapVars, queue, shutdown, busy, readerVars>>

\* A trailing timer is due and occupies the executor ...
TrailingStarts(s) ==
  /\ busy = NotBusy /\ ~throttle[s].cooling
  /\ \/ /\ throttle[s].pending = "scheduled"
        /\ throttle' = [throttle EXCEPT ![s].pending = "started"]
     \/ /\ throttle[s].orphans > 0
        /\ throttle' = [throttle EXCEPT ![s].orphans = @ - 1]
  /\ busy' = [op |-> "signal", signal |-> s]
  /\ UNCHANGED <<userVars, tunVars, stackVars, swapVars, queue, shutdown, readerVars>>

\* What a handler does at once: handleCertificatePolicyChanged reads the
\* stored policy, and every handler posts the rest of its work.
Reload(s) ==
  /\ loadedPolicy' = IF s = "certificate" THEN policy ELSE loadedPolicy
  /\ UNCHANGED <<asked, prefs, rules, policy, events>>

\* ... gets the lock, forgets whatever handle is there, calls the handler.
TrailingRuns ==
  /\ busy.op = "signal"
  /\ LET s == busy.signal
     IN  /\ throttle' = [throttle EXCEPT
                ![s] = [cooling |-> TRUE, pending |-> None,
                        orphans |-> @.orphans + IF @.pending = "scheduled" THEN 1 ELSE 0]]
         /\ Reload(s)
         /\ Post([task |-> "handle", signal |-> s])
  /\ busy' = NotBusy
  /\ UNCHANGED <<tunVars, stackVars, swapVars, shutdown, readerVars>>

-----------------------------------------------------------------------------
(* The main thread: the user and the system. *)

Event == events < MaxEvents /\ ~shutdown /\ events' = events + 1

ChangeSetting ==
  /\ Event
  /\ \E k \in Knobs : prefs' = [prefs EXCEPT ![k] = ~@]
  /\ submit("settings")
  /\ UNCHANGED <<asked, rules, policyVars, tunVars, stackVars, swapVars, shutdown, busy, readerVars>>

\* The routing rules, or the certificate policy, are stored anew.
ChangeRules ==
  /\ Event
  /\ \E s \in RuleSignals :
       /\ rules' = IF s = "routing" THEN rules + 1 ELSE rules
       /\ policy' = IF s = "certificate" THEN policy + 1 ELSE policy
       /\ submit(s)
  /\ UNCHANGED <<asked, prefs, loadedPolicy, tunVars, stackVars, swapVars, shutdown, busy,
                 readerVars>>

switchConfiguration ==
  /\ Event
  /\ \E c \in Configs \ {asked} :
       asked' = c /\ Post([task |-> "switch", config |-> c])
  /\ UNCHANGED <<prefs, rules, policyVars, tunVars, stackVars, swapVars, shutdown, throttle, busy,
                 readerVars>>

handleNetworkPathChange ==
  /\ Event
  /\ Post([task |-> "path"])
  /\ UNCHANGED <<asked, prefs, rules, policyVars, tunVars, stackVars, swapVars, shutdown, throttle,
                 busy, readerVars>>

handleWake ==
  /\ Event
  /\ Post([task |-> "wake"])
  /\ UNCHANGED <<asked, prefs, rules, policyVars, tunVars, stackVars, swapVars, shutdown, throttle,
                 busy, readerVars>>

\* stopVpn: the service forgets its stack and TUN, stop() posts the cleanup
\* with the TUN to close, and shuts the executor down.
stopVpn ==
  /\ ~shutdown
  /\ serviceStack' = FALSE /\ serviceTun' = NoTun
  /\ ResetThrottlers
  /\ Post([task |-> "stop", fd |-> serviceTun])
  /\ shutdown' = TRUE
  /\ UNCHANGED <<userVars, openTuns, built, stackVars, swapVars, busy, readerVars>>

-----------------------------------------------------------------------------
(* Restarting, on the executor. *)

\* Mutant: the flows of the old configuration survive the restart.
MutantKeepFlows(config, ipv6, swapped) ==
  /\ deferredRestart' = {} /\ cooling' = TRUE
  /\ configuration' = config /\ ipv6DNSEnabled' = ipv6
  /\ loaded' = [k \in Reloaded |-> prefs[k]] /\ loadedRules' = rules
  /\ tunFdSwapped' = FALSE
  /\ starting' = IF swapped THEN starting + 1 ELSE starting
  /\ UNCHANGED flows

\* restartStackNow: shutdownInternal closes every flow; settings other than
\* the IPv6 knob are read again; a swapped TUN gets its reader.
restartStackNow(config, ipv6, swapped) ==
  /\ deferredRestart' = {} /\ cooling' = TRUE
  /\ flows' = {}
  /\ configuration' = config /\ ipv6DNSEnabled' = ipv6
  /\ loaded' = [k \in Reloaded |-> prefs[k]] /\ loadedRules' = rules
  /\ tunFdSwapped' = FALSE
  /\ starting' = IF swapped THEN starting + 1 ELSE starting

\* Mutant: a request inside the cooldown is dropped, not deferred.
MutantDropInCooldown(config, ipv6, swapped) ==
  IF cooling
  THEN /\ tunFdSwapped' = swapped
       /\ UNCHANGED <<deferredRestart, cooling, flows, configuration, ipv6DNSEnabled,
                      loaded, loadedRules, starting>>
  ELSE restartStackNow(config, ipv6, swapped)

\* restartStack: inside the cooldown the request replaces the deferred one.
restartStack(config, ipv6, swapped) ==
  IF cooling
  THEN /\ deferredRestart' = {[config |-> config, ipv6 |-> ipv6]}
       /\ tunFdSwapped' = swapped
       /\ UNCHANGED <<cooling, flows, configuration, ipv6DNSEnabled, loaded, loadedRules,
                      starting>>
  ELSE restartStackNow(config, ipv6, swapped)

CooldownExpires ==
  /\ cooling /\ cooling' = FALSE
  /\ UNCHANGED <<userVars, tunVars, running, stopped, configuration, ipv6DNSEnabled,
                 loaded, loadedRules, deferredRestart, flows, swapVars, execVars,
                 readerVars>>

DeferredRestartFires ==
  /\ busy = NotBusy /\ deferredRestart # {} /\ ~cooling
  /\ IF running
     THEN \E r \in deferredRestart : restartStackNow(r.config, r.ipv6, tunFdSwapped)
     ELSE /\ deferredRestart' = {}
          /\ UNCHANGED <<cooling, flows, configuration, ipv6DNSEnabled, loaded,
                         loadedRules, tunFdSwapped, starting>>
  /\ UNCHANGED <<userVars, tunVars, running, stopped, tunInput, execVars, readThreads>>

-----------------------------------------------------------------------------
(* Tasks posted to the executor, in order. *)

Take(kind) == busy = NotBusy /\ queue # <<>> /\ Head(queue).task = kind

\* The task has no effect on the stack.
Skip == UNCHANGED <<stackVars, swapVars, starting>>

\* A restart asked for by a task that swaps no TUN.
Restart(config, ipv6) ==
  /\ restartStack(config, ipv6, tunFdSwapped)
  /\ UNCHANGED <<running, stopped, tunInput>>

TaskStart ==
  /\ Take("start") /\ queue' = Tail(queue)
  /\ running' = TRUE
  /\ loaded' = [k \in Reloaded |-> prefs[k]] /\ loadedRules' = rules
  /\ starting' = starting + 1
  /\ UNCHANGED <<userVars, tunVars, stopped, configuration, ipv6DNSEnabled, cooling,
                 deferredRestart, flows, swapVars, shutdown, throttle, busy, readThreads>>

\* A signal that was not throttled: its handler runs.
TaskSignal ==
  /\ Take("signal")
  /\ Reload(Head(queue).signal)
  /\ queue' = IF shutdown THEN Tail(queue)
              ELSE Append(Tail(queue), [task |-> "handle", signal |-> Head(queue).signal])
  /\ Skip
  /\ UNCHANGED <<tunVars, shutdown, throttle, busy, readThreads>>

Changed(k) == IF k = "ipv6DnsEnabled" THEN prefs[k] # ipv6DNSEnabled ELSE prefs[k] # loaded[k]
NeedsReapply == Changed("ipv6DnsEnabled") \/ Changed("encryptedDns")

\* handleSettingsChanged: nothing to do, or a restart, or first a new TUN.
handleSettingsChanged ==
  /\ Take("handle") /\ Head(queue).signal = "settings"
  /\ queue' = Tail(queue)
  /\ IF ~running \/ ~NeedsReapply
     THEN /\ IF running /\ \E k \in Knobs : Changed(k)
             THEN Restart(configuration, prefs["ipv6DnsEnabled"])
             ELSE Skip
          /\ UNCHANGED <<busy, openTuns, built>>
     ELSE /\ Skip
          /\ \/ /\ built < MaxTuns
                /\ built' = built + 1 /\ openTuns' = openTuns \cup {built + 1}
                /\ busy' = [op |-> "reapply", fd |-> built + 1, ipv6 |-> prefs["ipv6DnsEnabled"]]
             \/ /\ busy' = [op |-> "reapply", fd |-> NoTun, ipv6 |-> prefs["ipv6DnsEnabled"]]
                /\ UNCHANGED <<openTuns, built>>
  /\ UNCHANGED <<userVars, serviceStack, serviceTun, shutdown, throttle, readThreads>>

\* swapTunFd marks the swap for the next restart.
MutantSwapNotFlagged(swap) == tunFdSwapped
SwapFlag(swap) == swap \/ tunFdSwapped

\* The rest of reapplyTunnelSettings, once the new TUN is established or
\* could not be, and of handleSettingsChanged.
ReapplyEnds ==
  /\ busy.op = "reapply"
  /\ busy' = NotBusy
  /\ LET swap == busy.fd # NoTun /\ serviceStack
     IN  /\ serviceTun' = IF busy.fd # NoTun THEN busy.fd ELSE serviceTun
         /\ openTuns' = IF busy.fd # NoTun THEN openTuns \ {serviceTun} ELSE openTuns
         /\ tunInput' = IF swap THEN busy.fd ELSE tunInput
         /\ restartStack(configuration, busy.ipv6, SwapFlag(swap))
  /\ UNCHANGED <<userVars, serviceStack, built, running, stopped, queue, shutdown, throttle,
                 readThreads>>

\* handleRoutingChanged and handleCertificatePolicyChanged.
handleRulesChanged ==
  /\ Take("handle") /\ Head(queue).signal # "settings"
  /\ queue' = Tail(queue)
  /\ IF running THEN Restart(configuration, ipv6DNSEnabled) ELSE Skip
  /\ UNCHANGED <<userVars, tunVars, shutdown, throttle, busy, readThreads>>

TaskSwitch ==
  /\ Take("switch") /\ queue' = Tail(queue)
  /\ Restart(Head(queue).config, ipv6DNSEnabled)
  /\ UNCHANGED <<userVars, tunVars, shutdown, throttle, busy, readThreads>>

TaskPath ==
  /\ Take("path") /\ queue' = Tail(queue)
  /\ IF running THEN Restart(configuration, ipv6DNSEnabled) ELSE Skip
  /\ UNCHANGED <<userVars, tunVars, shutdown, throttle, busy, readThreads>>

\* A wake closes every flow and keeps the rest of the stack.
TaskWake ==
  /\ Take("wake") /\ queue' = Tail(queue)
  /\ flows' = IF running THEN {} ELSE flows
  /\ UNCHANGED <<userVars, tunVars, running, stopped, configuration, ipv6DNSEnabled, loaded,
                 loadedRules, cooling, deferredRestart, swapVars, shutdown, throttle, busy,
                 readerVars>>

\* Mutant: the cleanup leaves the deferred restart scheduled.
MutantStopKeepsDeferred ==
  /\ Take("stop") /\ queue' = Tail(queue)
  /\ running' = FALSE /\ stopped' = TRUE /\ flows' = {}
  /\ configuration' = None /\ tunInput' = NoTun
  /\ openTuns' = openTuns \ {Head(queue).fd}
  /\ UNCHANGED <<userVars, serviceStack, serviceTun, built, ipv6DNSEnabled, loaded,
                 loadedRules, cooling, deferredRestart, tunFdSwapped, shutdown, throttle,
                 busy, readerVars>>

\* The cleanup stop() posted, and its completion callback finishStopVpn.
TaskStop ==
  /\ Take("stop") /\ queue' = Tail(queue)
  /\ running' = FALSE /\ stopped' = TRUE
  /\ deferredRestart' = {} /\ flows' = {}
  /\ configuration' = None /\ tunInput' = NoTun
  /\ openTuns' = openTuns \ {Head(queue).fd}
  /\ UNCHANGED <<userVars, serviceStack, serviceTun, built, ipv6DNSEnabled, loaded,
                 loadedRules, cooling, tunFdSwapped, shutdown, throttle, busy, readerVars>>

RunTask ==
  \/ TaskStart
  \/ TaskSignal
  \/ handleSettingsChanged
  \/ handleRulesChanged
  \/ TaskSwitch
  \/ TaskPath
  \/ TaskWake
  \/ TaskStop

\* A new flow takes the configuration, the rules and the policy in force.
OpenFlow ==
  /\ running /\ busy = NotBusy
  /\ flows' = flows \cup {[config |-> configuration, rules |-> loadedRules,
                           policy |-> loadedPolicy]}
  /\ UNCHANGED <<userVars, tunVars, running, stopped, configuration, ipv6DNSEnabled, loaded,
                 loadedRules, cooling, deferredRestart, swapVars, execVars, readerVars>>

-----------------------------------------------------------------------------
(* Reader threads. *)

\* The thread reads tunInput when it gets to run, not when it was created.
ReaderStarts ==
  /\ starting > 0 /\ starting' = starting - 1
  /\ reading' = IF tunInput = NoTun \/ ~running THEN reading
                ELSE [reading EXCEPT ![tunInput] = @ + 1]
  /\ UNCHANGED <<userVars, tunVars, stackVars, swapVars, execVars, readFailed>>

\* A read fails, and the loop ends: always once the TUN is closed, and on a
\* TUN in use after an error, when nothing starts another reader.
\* Bound: one such error.
ReaderEnds ==
  /\ \E t \in Tuns :
       /\ reading[t] > 0 /\ reading' = [reading EXCEPT ![t] = @ - 1]
       /\ IF t \in openTuns THEN ~readFailed /\ readFailed' = TRUE ELSE UNCHANGED readFailed
  /\ UNCHANGED <<userVars, tunVars, stackVars, swapVars, execVars, starting>>

MainThread ==
  \/ ChangeSetting
  \/ ChangeRules
  \/ switchConfiguration
  \/ handleNetworkPathChange
  \/ handleWake
  \/ stopVpn

Clock == CooldownExpires \/ \E s \in Signals : ThrottleExpires(s)
Executor ==
  \/ RunTask
  \/ ReapplyEnds
  \/ TrailingRuns
  \/ DeferredRestartFires
  \/ \E s \in Signals : TrailingStarts(s)

Next == MainThread \/ Clock \/ Executor \/ OpenFlow \/ ReaderStarts \/ ReaderEnds

\* Time passes, the executor runs what is posted or due, and threads run.
\* The user, the system and the apps may fall silent.
Fairness == WF_vars(Clock) /\ WF_vars(Executor) /\ WF_vars(ReaderStarts)

Spec == Init /\ [][Next]_vars
FairSpec == Spec /\ Fairness

-----------------------------------------------------------------------------

\* What the executor's queue holds, and the long calls it can be inside.
Task ==
  [task : {"start", "path", "wake"}] \cup [task : {"signal", "handle"}, signal : Signals]
    \cup [task : {"switch"}, config : Configs] \cup [task : {"stop"}, fd : Tuns \cup {NoTun}]
LongCall ==
  {NotBusy} \cup [op : {"signal"}, signal : Signals]
    \cup [op : {"reapply"}, fd : Tuns \cup {NoTun}, ipv6 : BOOLEAN]

TypeOK ==
  /\ asked \in Configs /\ configuration \in Configs \cup {None}
  /\ prefs \in [Knobs -> BOOLEAN] /\ loaded \in [Reloaded -> BOOLEAN]
  /\ rules \in 0..MaxEvents /\ loadedRules \in 0..MaxEvents /\ events \in 0..MaxEvents
  /\ policy \in 0..MaxEvents /\ loadedPolicy \in 0..MaxEvents
  /\ serviceStack \in BOOLEAN /\ running \in BOOLEAN /\ stopped \in BOOLEAN
  /\ ipv6DNSEnabled \in BOOLEAN /\ tunFdSwapped \in BOOLEAN /\ cooling \in BOOLEAN
  /\ serviceTun \in Tuns \cup {NoTun} /\ tunInput \in Tuns \cup {NoTun}
  /\ openTuns \subseteq Tuns /\ built \in Tuns
  /\ deferredRestart \subseteq [config : Configs, ipv6 : BOOLEAN]
  /\ flows \subseteq [config : Configs, rules : 0..MaxEvents, policy : 0..MaxEvents]
  /\ queue \in Seq(Task) /\ shutdown \in BOOLEAN /\ busy \in LongCall
  /\ throttle \in [Signals -> [cooling : BOOLEAN, pending : {None, "scheduled", "started"},
                               orphans : 0..MaxEvents]]
  /\ starting \in Nat /\ reading \in [Tuns -> Nat] /\ readFailed \in BOOLEAN

(* Every open flow was opened under the configuration and the rules now in *)
(* force: a restart leaves none behind, however it was reached (deferred,  *)
(* immediate, after a swap of the TUN), and nothing outlives the stack.    *)
NoStaleFlow ==
  \A f \in flows : running /\ f.config = configuration /\ f.rules = loadedRules

(* stop() is final: no restart is left scheduled behind the cleanup and    *)
(* nothing on the executor brings the stack back.                          *)
StaysStopped ==
  stopped => ~running /\ deferredRestart = {} /\ queue = <<>> /\ busy.op # "reapply"

(* "A trailing edge so the final state always propagates", for what a      *)
(* restart reads again: when the changes stop, the rules and the settings  *)
(* in force, the IPv6 knob aside, are the stored ones, and the certificate *)
(* policy is, and no flow opened under an earlier policy is left.          *)
Propagated == \A k \in Reloaded : loaded[k] = prefs[k]
ReloadedSettingsLand ==
  <>[](shutdown \/ /\ Propagated /\ loadedRules = rules
                   /\ loadedPolicy = policy /\ \A f \in flows : f.policy = policy)

(* The same sentence of the IPv6 knob, which a restart is given and does   *)
(* not read.  Not true: a deferred restart has captured the value before   *)
(* a change, and replaces or undoes the one that brought the new value.    *)
Ipv6SettingLands == <>[](shutdown \/ ipv6DNSEnabled = prefs["ipv6DnsEnabled"])

(* The TUN in use always ends up with a reader: a swap is followed by a    *)
(* restart that starts one, even when that restart is deferred and the     *)
(* request replaced (swapTunFd, tunFdSwapped).  Only a read error on an    *)
(* open TUN, which ends its reader for good, is excepted.                  *)
TunServed == <>[](shutdown \/ readFailed \/ (tunInput # NoTun /\ reading[tunInput] > 0))

(* "Switches to a new configuration": the configuration last asked for     *)
(* ends up in force.                                                       *)
SwitchLands == <>[](shutdown \/ configuration = asked)

(* "Closed AFTER the lwIP executor finishes draining": once the stop is    *)
(* complete no TUN interface is left open.                                 *)
TunClosedAfterStop == stopped => openTuns = {}
=============================================================================
