------------------------ MODULE StackLifecycleProofs ------------------------
(***************************************************************************)
(* Proofs about StackLifecycle, for every set of configurations and rule   *)
(* signals and every bound: type correctness, that no flow outlives the    *)
(* configuration and the rules it was opened under, and that a stop is     *)
(* final.                                                                  *)
(*                                                                         *)
(* Neither safety property is inductive.  That a stop is final rests on    *)
(* the order of the queue: the start is the first task ever posted and the *)
(* cleanup of stop() the last one, because the executor drops what is      *)
(* posted after its shutdown.  That no flow is stale rests on the stack    *)
(* having no flows when the start task loads the rules.                    *)
(***************************************************************************)
EXTENDS StackLifecycle, SequenceTheorems, TLAPS

HasStart(q) == q # <<>> /\ q[1].task = "start"
HasStop(q) == q # <<>> /\ q[Len(q)].task = "stop"

\* A start is the first task of a queue and a cleanup is the last.
QueueShape(q) ==
  /\ q \in Seq(Task)
  /\ \A i \in 1..Len(q) : q[i].task = "start" => i = 1
  /\ \A i \in 1..Len(q) : q[i].task = "stop" => i = Len(q)

TaskOrder ==
  /\ QueueShape(queue)
  /\ HasStart(queue) => ~running /\ ~stopped
  /\ HasStop(queue) <=> shutdown /\ ~stopped
  /\ stopped => shutdown

\* A rule change and a throttled signal each take an event of the bound.
Counts ==
  /\ rules <= events /\ policy <= events /\ loadedPolicy <= events
  /\ \A s \in Signals :
       /\ throttle[s].orphans <= events
       /\ throttle[s].pending = "scheduled" => throttle[s].orphans + 1 <= events

Configured == ~stopped => configuration \in Configs

StackInv == TypeOK /\ TaskOrder /\ Counts /\ Configured /\ NoStaleFlow /\ StaysStopped

-----------------------------------------------------------------------------
(* The queue. *)

(* Taking the head of the queue (the executor running its next task) keeps *)
(* the order, leaves no start behind, and loses the cleanup only when the  *)
(* cleanup is what was taken.                                              *)
LEMMA RestKeepsShape ==
  ASSUME NEW q, QueueShape(q), q # <<>>,
         NEW r \in Seq(Task), Len(r) = Len(q) - 1,
         \A i \in 1..Len(r) : r[i] = q[i + 1]
  PROVE  /\ QueueShape(r)
         /\ ~HasStart(r)
         /\ q[1].task # "stop" => (HasStop(r) <=> HasStop(q))
         /\ q[1].task = "stop" => r = <<>>
<1>1. q \in Seq(Task) /\ Len(q) \in Nat /\ Len(q) >= 1 /\ Len(r) \in Nat
  BY EmptySeq DEF QueueShape
<1>2. \A i \in 1..Len(r) : r[i] = q[i + 1] /\ i + 1 \in 1..Len(q)
  BY <1>1
<1>3. ASSUME NEW i \in 1..Len(r) PROVE r[i].task # "start"
  BY <1>1, <1>2 DEF QueueShape
<1>4. QueueShape(r)
  <2>1. ASSUME NEW i \in 1..Len(r), r[i].task = "stop" PROVE i = Len(r)
    BY <1>1, <1>2, <2>1 DEF QueueShape
  <2>2. QED
    BY <1>3, <2>1 DEF QueueShape
<1>5. r # <<>> => Len(r) \in 1..Len(r) /\ 1 \in 1..Len(r)
  BY <1>1, EmptySeq
<1>6. ~HasStart(r)
  BY <1>3, <1>5 DEF HasStart
<1>7. ASSUME q[1].task # "stop" PROVE HasStop(r) <=> HasStop(q)
  <2>1. CASE r = <<>>
    <3>1. Len(q) = 1
      BY <1>1, <2>1
    <3>2. QED
      BY <1>7, <2>1, <3>1 DEF HasStop
  <2>2. CASE r # <<>>
    <3>1. r[Len(r)] = q[Len(r) + 1] /\ Len(r) + 1 = Len(q)
      BY <1>1, <1>2, <1>5, <2>2
    <3>2. QED
      BY <2>2, <3>1 DEF HasStop
  <2>3. QED
    BY <2>1, <2>2
<1>8. ASSUME q[1].task = "stop" PROVE r = <<>>
  <2>1. 1 = Len(q)
    BY <1>1, <1>8 DEF QueueShape
  <2>2. Len(r) = 0
    BY <1>1, <2>1
  <2>3. QED
    BY <2>2, EmptySeq
<1>9. QED
  BY <1>4, <1>6, <1>7, <1>8

(* The same for the operator Tail, which the actions use.                  *)
LEMMA TailKeepsShape ==
  ASSUME NEW q, QueueShape(q), q # <<>>
  PROVE  /\ QueueShape(Tail(q))
         /\ ~HasStart(Tail(q))
         /\ Head(q).task # "stop" => (HasStop(Tail(q)) <=> HasStop(q))
         /\ Head(q).task = "stop" => Tail(q) = <<>>
         /\ Head(q) \in Task
<1>1. q \in Seq(Task)
  BY DEF QueueShape
<1>2. /\ Head(q) = q[1] /\ Head(q) \in Task /\ Tail(q) \in Seq(Task)
      /\ Len(Tail(q)) = Len(q) - 1
      /\ \A i \in 1..Len(Tail(q)) : Tail(q)[i] = q[i + 1]
  BY <1>1, HeadTailProperties
<1>3. QED
  BY <1>2, RestKeepsShape

(* Posting a task other than the start, when no cleanup is queued, keeps   *)
(* the order.                                                              *)
LEMMA AppendKeepsShape ==
  ASSUME NEW q, QueueShape(q), ~HasStop(q),
         NEW t \in Task, t.task # "start"
  PROVE  /\ QueueShape(Append(q, t))
         /\ HasStart(Append(q, t)) <=> HasStart(q)
         /\ HasStop(Append(q, t)) <=> t.task = "stop"
<1>1. /\ q \in Seq(Task) /\ Len(q) \in Nat
      /\ Append(q, t) \in Seq(Task) /\ Len(Append(q, t)) = Len(q) + 1
      /\ \A i \in 1..Len(q) : Append(q, t)[i] = q[i]
      /\ Append(q, t)[Len(q) + 1] = t
      /\ Append(q, t) # <<>>
  BY DEF QueueShape
<1>2. \A i \in 1..Len(q) : q[i].task # "stop"
  BY <1>1 DEF QueueShape, HasStop
<1>3. QueueShape(Append(q, t))
  <2>1. ASSUME NEW i \in 1..Len(Append(q, t)), Append(q, t)[i].task = "start" PROVE i = 1
    BY <1>1, <2>1 DEF QueueShape
  <2>2. ASSUME NEW i \in 1..Len(Append(q, t)), Append(q, t)[i].task = "stop"
        PROVE  i = Len(Append(q, t))
    BY <1>1, <1>2, <2>2
  <2>3. QED
    BY <1>1, <2>1, <2>2 DEF QueueShape
<1>4. HasStart(Append(q, t)) <=> HasStart(q)
  <2>1. CASE Len(q) = 0
    BY <1>1, <2>1 DEF HasStart
  <2>2. CASE Len(q) > 0
    BY <1>1, <2>2 DEF HasStart
  <2>3. QED
    BY <1>1, <2>1, <2>2
<1>5. HasStop(Append(q, t)) <=> t.task = "stop"
  BY <1>1 DEF HasStop
<1>6. QED
  BY <1>3, <1>4, <1>5

-----------------------------------------------------------------------------
(* The operators the actions share. *)

(* A task a signal, an event or a handler posts leaves the queue in order, *)
(* also when the executor is shut down and drops it.                       *)
LEMMA PostKeepsOrder ==
  ASSUME StackInv, NEW t \in Task, t.task \notin {"start", "stop"}, Post(t),
         UNCHANGED <<shutdown, running, stopped>>
  PROVE  TaskOrder' /\ (stopped => queue' = <<>>)
<1>1. CASE shutdown
  BY <1>1 DEF StackInv, TaskOrder, StaysStopped, Post
<1>2. CASE ~shutdown
  <2>1. queue' = Append(queue, t) /\ ~HasStop(queue) /\ QueueShape(queue) /\ ~stopped
    BY <1>2 DEF StackInv, TaskOrder, Post
  <2>2. /\ QueueShape(queue')
        /\ HasStart(queue') <=> HasStart(queue)
        /\ HasStop(queue') <=> t.task = "stop"
    BY <2>1, AppendKeepsShape
  <2>3. QED
    BY <1>2, <2>1, <2>2 DEF StackInv, TaskOrder
<1>3. QED
  BY <1>1, <1>2

(* Taking a task other than the cleanup leaves the queue in order; there   *)
(* is one to take only while the stack is not stopped.                     *)
LEMMA TakeKeepsOrder ==
  ASSUME StackInv, NEW kind, Take(kind), kind # "stop", queue' = Tail(queue),
         UNCHANGED <<shutdown, stopped>>
  PROVE  /\ TaskOrder' /\ ~HasStart(queue')
         /\ ~stopped /\ busy = NotBusy
         /\ Head(queue) \in Task /\ Head(queue).task = kind
<1>1. queue # <<>> /\ Head(queue).task = kind /\ busy = NotBusy /\ QueueShape(queue)
  BY DEF Take, StackInv, TaskOrder
<1>2. /\ QueueShape(queue') /\ ~HasStart(queue') /\ Head(queue) \in Task
      /\ HasStop(queue') <=> HasStop(queue)
  BY <1>1, TailKeepsShape
<1>3. ~stopped
  BY <1>1 DEF StackInv, StaysStopped
<1>4. QED
  BY <1>1, <1>2, <1>3 DEF StackInv, TaskOrder

(* submit takes an event of the bound whether it posts at once or leaves a *)
(* trailing timer.                                                         *)
LEMMA SubmitKeeps ==
  ASSUME StackInv, NEW s \in Signals, submit(s), events' = events + 1,
         UNCHANGED <<shutdown, running, stopped>>
  PROVE  /\ TaskOrder' /\ (stopped => queue' = <<>>)
         /\ throttle' \in [Signals -> [cooling : BOOLEAN,
                              pending : {None, "scheduled", "started"}, orphans : 0..MaxEvents]]
         /\ \A z \in Signals :
              /\ throttle'[z].orphans <= events'
              /\ throttle'[z].pending = "scheduled" => throttle'[z].orphans + 1 <= events'
<1>1. /\ throttle \in [Signals -> [cooling : BOOLEAN,
                          pending : {None, "scheduled", "started"}, orphans : 0..MaxEvents]]
      /\ events \in 0..MaxEvents /\ MaxEvents \in Nat
      /\ \A z \in Signals : throttle[z].orphans <= events
      /\ \A z \in Signals :
           throttle[z].pending = "scheduled" => throttle[z].orphans + 1 <= events
  BY BoundAssumption DEF StackInv, TypeOK, Counts
<1>2. CASE throttle[s].cooling
  <2>1. throttle' = [throttle EXCEPT ![s].pending = "scheduled"] /\ queue' = queue
    BY <1>2 DEF submit
  <2>2. TaskOrder' /\ (stopped => queue' = <<>>)
    BY <2>1 DEF StackInv, TaskOrder, StaysStopped
  <2>3. QED
    BY <1>1, <2>1, <2>2
<1>3. CASE ~throttle[s].cooling
  <2>1. /\ throttle' = [throttle EXCEPT ![s].pending = None, ![s].cooling = TRUE]
        /\ Post([task |-> "signal", signal |-> s])
    BY <1>3 DEF submit
  <2>2. [task |-> "signal", signal |-> s] \in Task
    BY DEF Task
  <2>3. TaskOrder' /\ (stopped => queue' = <<>>)
    BY <2>1, <2>2, PostKeepsOrder
  <2>4. \A z \in Signals :
          /\ throttle'[z] \in [cooling : BOOLEAN, pending : {None, "scheduled", "started"},
                              orphans : 0..MaxEvents]
          /\ throttle'[z].orphans = throttle[z].orphans
          /\ z # s => throttle'[z] = throttle[z]
          /\ throttle'[s].pending = None
    BY <1>1, <2>1
  <2>5. throttle' \in [Signals -> [cooling : BOOLEAN,
                          pending : {None, "scheduled", "started"}, orphans : 0..MaxEvents]]
    BY <1>1, <2>1
  <2>6. ASSUME NEW z \in Signals
        PROVE  /\ throttle'[z].orphans <= events'
               /\ throttle'[z].pending = "scheduled" => throttle'[z].orphans + 1 <= events'
    BY <1>1, <2>4 DEF None
  <2>7. QED
    BY <2>3, <2>5, <2>6
<1>4. QED
  BY <1>2, <1>3

(* A handler that reads the certificate policy at once gets a stored one.  *)
LEMMA ReloadKeeps ==
  ASSUME StackInv, NEW s, Reload(s)
  PROVE  /\ UNCHANGED <<asked, prefs, rules, policy, events>>
         /\ loadedPolicy' \in 0..MaxEvents /\ loadedPolicy' <= events
  BY DEF StackInv, TypeOK, Counts, Reload

\* What a restart leaves of the stack's own state.
RestartTyped ==
  /\ deferredRestart \subseteq [config : Configs, ipv6 : BOOLEAN]
  /\ cooling \in BOOLEAN /\ tunFdSwapped \in BOOLEAN /\ ipv6DNSEnabled \in BOOLEAN
  /\ flows \subseteq [config : Configs, rules : 0..MaxEvents, policy : 0..MaxEvents]
  /\ configuration \in Configs
  /\ loaded \in [Reloaded -> BOOLEAN] /\ loadedRules \in 0..MaxEvents
  /\ starting \in Nat

(* A restart closes every flow before it takes the new configuration and   *)
(* reads the rules again.                                                  *)
LEMMA RestartNowKeeps ==
  ASSUME StackInv, NEW config \in Configs, NEW ipv6 \in BOOLEAN, NEW swapped \in BOOLEAN,
         restartStackNow(config, ipv6, swapped), running' = running
  PROVE  RestartTyped' /\ NoStaleFlow'
<1>1. prefs \in [Knobs -> BOOLEAN] /\ rules \in 0..MaxEvents /\ starting \in Nat
  BY DEF StackInv, TypeOK
<1>2. loaded' \in [Reloaded -> BOOLEAN]
  BY <1>1 DEF restartStackNow, Reloaded
<1>3. /\ deferredRestart' = {} /\ cooling' = TRUE /\ flows' = {}
      /\ configuration' = config /\ ipv6DNSEnabled' = ipv6
      /\ loadedRules' = rules /\ tunFdSwapped' = FALSE
  BY DEF restartStackNow
<1>4. starting' \in Nat
  BY <1>1 DEF restartStackNow
<1>5. RestartTyped'
  BY <1>1, <1>2, <1>3, <1>4 DEF RestartTyped
<1>6. NoStaleFlow'
  BY <1>3 DEF NoStaleFlow
<1>7. QED
  BY <1>5, <1>6

(* A request inside the cooldown touches no flow and is kept whole.        *)
LEMMA RestartKeeps ==
  ASSUME StackInv, ~stopped, NEW config \in Configs, NEW ipv6 \in BOOLEAN,
         NEW swapped \in BOOLEAN, restartStack(config, ipv6, swapped), running' = running
  PROVE  RestartTyped' /\ NoStaleFlow'
<1>1. CASE cooling
  <2>1. RestartTyped
    BY DEF StackInv, TypeOK, Configured, RestartTyped
  <2>2. QED
    BY <1>1, <2>1 DEF restartStack, RestartTyped, StackInv, NoStaleFlow
<1>2. CASE ~cooling
  BY <1>2, RestartNowKeeps DEF restartStack
<1>3. QED
  BY <1>1, <1>2

-----------------------------------------------------------------------------
(* The invariant holds initially, and every action keeps it. *)

(* startVpn leaves one task, the start, and a stack that has no flows.     *)
LEMMA InitKeeps == Init => StackInv
<1> SUFFICES ASSUME Init PROVE StackInv
  OBVIOUS
<1>1. [task |-> "start"] \in Task
  BY DEF Task
<1>2. queue \in Seq(Task) /\ Len(queue) = 1 /\ queue[1].task = "start" /\ queue # <<>>
  BY <1>1 DEF Init
<1>3. 1 \in Tuns /\ MaxEvents \in Nat
  BY BoundAssumption DEF Tuns
<1>4. throttle = [s \in Signals |-> Idle]
  BY DEF Init
<1>5. Idle \in [cooling : BOOLEAN, pending : {None, "scheduled", "started"}, orphans : 0..MaxEvents]
  BY <1>3 DEF Idle
<1>6. TypeOK
  <2>1. /\ prefs \in [Knobs -> BOOLEAN] /\ loaded \in [Reloaded -> BOOLEAN]
        /\ reading \in [Tuns -> Nat]
    BY DEF Init
  <2>2. busy \in LongCall
    BY DEF Init, LongCall
  <2>3. throttle \in [Signals -> [cooling : BOOLEAN, pending : {None, "scheduled", "started"},
                                 orphans : 0..MaxEvents]]
    BY <1>4, <1>5
  <2>4. /\ asked \in Configs /\ configuration \in Configs
        /\ rules \in 0..MaxEvents /\ loadedRules \in 0..MaxEvents /\ events \in 0..MaxEvents
        /\ policy \in 0..MaxEvents /\ loadedPolicy \in 0..MaxEvents
        /\ serviceTun \in Tuns /\ tunInput \in Tuns /\ built \in Tuns
        /\ openTuns \subseteq Tuns
        /\ deferredRestart = {} /\ flows = {} /\ starting \in Nat
    BY <1>3, ConfigAssumption DEF Init
  <2>5. /\ serviceStack \in BOOLEAN /\ running \in BOOLEAN /\ stopped \in BOOLEAN
        /\ ipv6DNSEnabled \in BOOLEAN /\ tunFdSwapped \in BOOLEAN /\ cooling \in BOOLEAN
        /\ shutdown \in BOOLEAN /\ readFailed \in BOOLEAN
    BY DEF Init
  <2>6. QED
    BY <1>2, <2>1, <2>2, <2>3, <2>4, <2>5 DEF TypeOK
<1>7. TaskOrder
  BY <1>2 DEF Init, TaskOrder, QueueShape, HasStart, HasStop
<1>8. Counts
  BY <1>4 DEF Init, Counts, Idle, None
<1>9. Configured /\ NoStaleFlow /\ StaysStopped
  BY ConfigAssumption DEF Init, Configured, NoStaleFlow, StaysStopped
<1>10. QED
  BY <1>6, <1>7, <1>8, <1>9 DEF StackInv

(* The user changes a setting.                                              *)
LEMMA ChangeSettingKeeps ==
  ASSUME StackInv, ChangeSetting
  PROVE  StackInv'
<1> USE DEF userVars, policyVars, tunVars, stackVars, swapVars, execVars, readerVars, readThreads
<1>1. /\ events' = events + 1 /\ events < MaxEvents /\ ~shutdown /\ submit("settings")
      /\ \E k \in Knobs : prefs' = [prefs EXCEPT ![k] = ~@]
      /\ UNCHANGED <<asked, rules, policyVars, tunVars, stackVars, swapVars, shutdown, busy,
                     readerVars>>
  BY DEF ChangeSetting, Event
<1>2. prefs' \in [Knobs -> BOOLEAN]
  BY <1>1 DEF StackInv, TypeOK
<1>3. "settings" \in Signals
  BY DEF Signals
<1>4. /\ TaskOrder' /\ (stopped => queue' = <<>>)
      /\ throttle' \in [Signals -> [cooling : BOOLEAN,
                           pending : {None, "scheduled", "started"}, orphans : 0..MaxEvents]]
      /\ \A z \in Signals :
           /\ throttle'[z].orphans <= events'
           /\ throttle'[z].pending = "scheduled" => throttle'[z].orphans + 1 <= events'
  BY <1>1, <1>3, SubmitKeeps
<1>5. TypeOK'
  BY <1>1, <1>2, <1>4, BoundAssumption DEF StackInv, TypeOK, TaskOrder, QueueShape
<1>6. Counts'
  BY <1>1, <1>4, BoundAssumption DEF StackInv, TypeOK, Counts
<1>7. Configured' /\ NoStaleFlow' /\ StaysStopped'
  BY <1>1, <1>4 DEF StackInv, Configured, NoStaleFlow, StaysStopped
<1>8. QED
  BY <1>4, <1>5, <1>6, <1>7 DEF StackInv

(* The rules or the certificate policy change.                             *)
LEMMA ChangeRulesKeeps ==
  ASSUME StackInv, ChangeRules
  PROVE  StackInv'
<1> USE DEF userVars, policyVars, tunVars, stackVars, swapVars, execVars, readerVars, readThreads
<1>1. /\ events' = events + 1 /\ events < MaxEvents /\ ~shutdown
      /\ UNCHANGED <<asked, prefs, loadedPolicy, tunVars, stackVars, swapVars, shutdown, busy,
                     readerVars>>
  BY DEF ChangeRules, Event
<1>2. PICK s \in RuleSignals :
        /\ rules' = IF s = "routing" THEN rules + 1 ELSE rules
        /\ policy' = IF s = "certificate" THEN policy + 1 ELSE policy
        /\ submit(s)
  BY DEF ChangeRules
<1>3. s \in Signals
  BY DEF Signals
<1>4. /\ TaskOrder' /\ (stopped => queue' = <<>>)
      /\ throttle' \in [Signals -> [cooling : BOOLEAN,
                           pending : {None, "scheduled", "started"}, orphans : 0..MaxEvents]]
      /\ \A z \in Signals :
           /\ throttle'[z].orphans <= events'
           /\ throttle'[z].pending = "scheduled" => throttle'[z].orphans + 1 <= events'
  BY <1>1, <1>2, <1>3, SubmitKeeps
<1>5. /\ rules' \in 0..MaxEvents /\ policy' \in 0..MaxEvents /\ events' \in 0..MaxEvents
      /\ rules' <= events' /\ policy' <= events' /\ loadedPolicy' <= events'
  BY <1>1, <1>2, BoundAssumption DEF StackInv, TypeOK, Counts
<1>6. TypeOK'
  BY <1>1, <1>4, <1>5 DEF StackInv, TypeOK, TaskOrder, QueueShape
<1>7. Counts'
  BY <1>4, <1>5 DEF Counts
<1>8. Configured' /\ NoStaleFlow' /\ StaysStopped'
  BY <1>1, <1>4 DEF StackInv, Configured, NoStaleFlow, StaysStopped
<1>9. QED
  BY <1>4, <1>6, <1>7, <1>8 DEF StackInv

(* The interval of a throttler ends.                                       *)
LEMMA ThrottleExpiresKeeps ==
  ASSUME StackInv, NEW s \in Signals, ThrottleExpires(s)
  PROVE  StackInv'
<1> USE DEF userVars, policyVars, tunVars, stackVars, swapVars, execVars, readerVars, readThreads
<1>1. /\ throttle' = [throttle EXCEPT ![s].cooling = FALSE]
      /\ UNCHANGED <<userVars, tunVars, stackVars, swapVars, queue, shutdown, busy, readerVars>>
  BY DEF ThrottleExpires
<1>2. throttle' \in [Signals -> [cooling : BOOLEAN, pending : {None, "scheduled", "started"},
                                orphans : 0..MaxEvents]]
  BY <1>1 DEF StackInv, TypeOK
<1>3. TypeOK'
  BY <1>1, <1>2 DEF StackInv, TypeOK
<1>4. Counts'
  BY <1>1 DEF StackInv, TypeOK, Counts
<1>5. TaskOrder' /\ Configured' /\ NoStaleFlow' /\ StaysStopped'
  BY <1>1 DEF StackInv, TaskOrder, Configured, NoStaleFlow, StaysStopped
<1>6. QED
  BY <1>3, <1>4, <1>5 DEF StackInv

(* A trailing timer occupies the executor, also after the cleanup.         *)
LEMMA TrailingStartsKeeps ==
  ASSUME StackInv, NEW s \in Signals, TrailingStarts(s)
  PROVE  StackInv'
<1> USE DEF userVars, policyVars, tunVars, stackVars, swapVars, execVars, readerVars, readThreads
<1>1. /\ busy' = [op |-> "signal", signal |-> s]
      /\ UNCHANGED <<userVars, tunVars, stackVars, swapVars, queue, shutdown, readerVars>>
  BY DEF TrailingStarts
<1>2. busy' \in LongCall /\ busy'.op # "reapply"
  BY <1>1 DEF LongCall
<1>3. /\ throttle \in [Signals -> [cooling : BOOLEAN,
                          pending : {None, "scheduled", "started"}, orphans : 0..MaxEvents]]
      /\ events \in 0..MaxEvents /\ MaxEvents \in Nat /\ Counts
  BY BoundAssumption DEF StackInv, TypeOK
<1>4. /\ throttle' \in [Signals -> [cooling : BOOLEAN,
                           pending : {None, "scheduled", "started"}, orphans : 0..MaxEvents]]
      /\ \A z \in Signals :
           /\ throttle'[z].orphans <= events
           /\ throttle'[z].pending = "scheduled" => throttle'[z].orphans + 1 <= events
  <2>1. CASE throttle' = [throttle EXCEPT ![s].pending = "started"]
    BY <1>3, <2>1 DEF Counts
  <2>2. CASE throttle[s].orphans > 0 /\ throttle' = [throttle EXCEPT ![s].orphans = @ - 1]
    BY <1>3, <2>2 DEF Counts
  <2>3. QED
    BY <2>1, <2>2 DEF TrailingStarts
<1>5. TypeOK'
  BY <1>1, <1>2, <1>4 DEF StackInv, TypeOK
<1>6. Counts'
  BY <1>1, <1>3, <1>4 DEF Counts
<1>7. TaskOrder' /\ Configured' /\ NoStaleFlow' /\ StaysStopped'
  BY <1>1, <1>2 DEF StackInv, TaskOrder, Configured, NoStaleFlow, StaysStopped
<1>8. QED
  BY <1>5, <1>6, <1>7 DEF StackInv

(* A trailing timer gets the lock: its handle, if there is one that waits, *)
(* becomes an orphan, and the handler's task is posted.                    *)
LEMMA TrailingRunsKeeps ==
  ASSUME StackInv, TrailingRuns
  PROVE  StackInv'
<1> USE DEF userVars, policyVars, tunVars, stackVars, swapVars, execVars, readerVars, readThreads
<1>1. /\ busy.op = "signal" /\ busy' = NotBusy
      /\ UNCHANGED <<asked, prefs, rules, policy, events, tunVars, stackVars, swapVars, shutdown,
                     readerVars>>
      /\ loadedPolicy' \in 0..MaxEvents /\ loadedPolicy' <= events
  BY ReloadKeeps DEF TrailingRuns
<1>2. busy' \in LongCall /\ busy'.op # "reapply"
  BY <1>1 DEF LongCall, NotBusy, None
<1>3. busy.signal \in Signals
  BY <1>1 DEF StackInv, TypeOK, LongCall, NotBusy, None
<1>4. PICK s \in Signals : s = busy.signal
  BY <1>3
<1>5. /\ throttle \in [Signals -> [cooling : BOOLEAN,
                          pending : {None, "scheduled", "started"}, orphans : 0..MaxEvents]]
      /\ events \in 0..MaxEvents /\ MaxEvents \in Nat /\ Counts
  BY BoundAssumption DEF StackInv, TypeOK
<1>6. /\ throttle' = [throttle EXCEPT ![s] =
             [cooling |-> TRUE, pending |-> None,
              orphans |-> throttle[s].orphans
                            + IF throttle[s].pending = "scheduled" THEN 1 ELSE 0]]
      /\ Post([task |-> "handle", signal |-> s])
  BY <1>4, <1>5 DEF TrailingRuns
<1>7. [task |-> "handle", signal |-> s] \in Task
  BY DEF Task
<1>8. TaskOrder' /\ (stopped => queue' = <<>>)
  BY <1>1, <1>6, <1>7, PostKeepsOrder
<1>9. throttle[s].orphans + (IF throttle[s].pending = "scheduled" THEN 1 ELSE 0) \in 0..events
  BY <1>5 DEF Counts
<1>10. /\ throttle' \in [Signals -> [cooling : BOOLEAN,
                            pending : {None, "scheduled", "started"}, orphans : 0..MaxEvents]]
       /\ \A z \in Signals :
            /\ throttle'[z].orphans <= events
            /\ throttle'[z].pending = "scheduled" => throttle'[z].orphans + 1 <= events
  BY <1>5, <1>6, <1>9 DEF Counts, None
<1>11. TypeOK'
  BY <1>1, <1>2, <1>8, <1>10 DEF StackInv, TypeOK, TaskOrder, QueueShape
<1>12. Counts'
  BY <1>1, <1>5, <1>10 DEF Counts
<1>13. Configured' /\ NoStaleFlow' /\ StaysStopped'
  BY <1>1, <1>2, <1>8 DEF StackInv, Configured, NoStaleFlow, StaysStopped
<1>14. QED
  BY <1>8, <1>11, <1>12, <1>13 DEF StackInv

(* The user picks another configuration.                                   *)
LEMMA SwitchKeeps ==
  ASSUME StackInv, switchConfiguration
  PROVE  StackInv'
<1> USE DEF userVars, policyVars, tunVars, stackVars, swapVars, execVars, readerVars, readThreads
<1>1. /\ events' = events + 1 /\ events < MaxEvents /\ ~shutdown
      /\ UNCHANGED <<prefs, rules, policyVars, tunVars, stackVars, swapVars, shutdown, throttle, busy,
                     readerVars>>
  BY DEF switchConfiguration, Event
<1>2. PICK c \in Configs : asked' = c /\ Post([task |-> "switch", config |-> c])
  BY DEF switchConfiguration
<1>3. [task |-> "switch", config |-> c] \in Task /\ asked' \in Configs
  BY <1>2 DEF Task
<1>4. TaskOrder' /\ (stopped => queue' = <<>>)
  BY <1>1, <1>2, <1>3, PostKeepsOrder
<1>5. TypeOK'
  BY <1>1, <1>3, <1>4, BoundAssumption DEF StackInv, TypeOK, TaskOrder, QueueShape
<1>6. Counts'
  BY <1>1, BoundAssumption DEF StackInv, TypeOK, Counts
<1>7. Configured' /\ NoStaleFlow' /\ StaysStopped'
  BY <1>1, <1>4 DEF StackInv, Configured, NoStaleFlow, StaysStopped
<1>8. QED
  BY <1>4, <1>5, <1>6, <1>7 DEF StackInv

(* The network path changes.                                               *)
LEMMA PathKeeps ==
  ASSUME StackInv, handleNetworkPathChange
  PROVE  StackInv'
<1> USE DEF userVars, policyVars, tunVars, stackVars, swapVars, execVars, readerVars, readThreads
<1>1. /\ events' = events + 1 /\ events < MaxEvents /\ ~shutdown
      /\ UNCHANGED <<prefs, rules, policyVars, tunVars, stackVars, swapVars, shutdown, throttle, busy,
                     readerVars>>
  BY DEF handleNetworkPathChange, Event
<1>2. asked' = asked /\ Post([task |-> "path"])
  BY DEF handleNetworkPathChange
<1>3. [task |-> "path"] \in Task /\ asked' \in Configs
  BY <1>2 DEF Task, StackInv, TypeOK
<1>4. TaskOrder' /\ (stopped => queue' = <<>>)
  BY <1>1, <1>2, <1>3, PostKeepsOrder
<1>5. TypeOK'
  BY <1>1, <1>3, <1>4, BoundAssumption DEF StackInv, TypeOK, TaskOrder, QueueShape
<1>6. Counts'
  BY <1>1, BoundAssumption DEF StackInv, TypeOK, Counts
<1>7. Configured' /\ NoStaleFlow' /\ StaysStopped'
  BY <1>1, <1>4 DEF StackInv, Configured, NoStaleFlow, StaysStopped
<1>8. QED
  BY <1>4, <1>5, <1>6, <1>7 DEF StackInv

(* The device wakes.                                                       *)
LEMMA WakeKeeps ==
  ASSUME StackInv, handleWake
  PROVE  StackInv'
<1> USE DEF userVars, policyVars, tunVars, stackVars, swapVars, execVars, readerVars, readThreads
<1>1. /\ events' = events + 1 /\ events < MaxEvents /\ ~shutdown
      /\ UNCHANGED <<prefs, rules, policyVars, tunVars, stackVars, swapVars, shutdown, throttle, busy,
                     readerVars>>
  BY DEF handleWake, Event
<1>2. asked' = asked /\ Post([task |-> "wake"])
  BY DEF handleWake
<1>3. [task |-> "wake"] \in Task /\ asked' \in Configs
  BY <1>2 DEF Task, StackInv, TypeOK
<1>4. TaskOrder' /\ (stopped => queue' = <<>>)
  BY <1>1, <1>2, <1>3, PostKeepsOrder
<1>5. TypeOK'
  BY <1>1, <1>3, <1>4, BoundAssumption DEF StackInv, TypeOK, TaskOrder, QueueShape
<1>6. Counts'
  BY <1>1, BoundAssumption DEF StackInv, TypeOK, Counts
<1>7. Configured' /\ NoStaleFlow' /\ StaysStopped'
  BY <1>1, <1>4 DEF StackInv, Configured, NoStaleFlow, StaysStopped
<1>8. QED
  BY <1>4, <1>5, <1>6, <1>7 DEF StackInv

(* stopVpn posts the cleanup, the last task the queue takes.               *)
LEMMA StopVpnKeeps ==
  ASSUME StackInv, stopVpn
  PROVE  StackInv'
<1> USE DEF userVars, policyVars, tunVars, stackVars, swapVars, execVars, readerVars, readThreads
<1>1. /\ ~shutdown /\ shutdown' = TRUE /\ serviceStack' = FALSE /\ serviceTun' = NoTun
      /\ queue' = Append(queue, [task |-> "stop", fd |-> serviceTun])
      /\ throttle' = [s \in Signals |-> [Idle EXCEPT !.orphans = throttle[s].orphans]]
      /\ UNCHANGED <<userVars, openTuns, built, stackVars, swapVars, busy, readerVars>>
  BY DEF stopVpn, Post, ResetThrottlers
<1>2. [task |-> "stop", fd |-> serviceTun] \in Task
  BY DEF StackInv, TypeOK, Task
<1>3. ~stopped /\ ~HasStop(queue) /\ QueueShape(queue)
  BY <1>1 DEF StackInv, TaskOrder
<1>4. /\ QueueShape(queue') /\ HasStop(queue')
      /\ HasStart(queue') <=> HasStart(queue)
  BY <1>1, <1>2, <1>3, AppendKeepsShape
<1>5. TaskOrder'
  BY <1>1, <1>3, <1>4 DEF StackInv, TaskOrder
<1>6. /\ throttle \in [Signals -> [cooling : BOOLEAN,
                          pending : {None, "scheduled", "started"}, orphans : 0..MaxEvents]]
      /\ Counts
  BY DEF StackInv, TypeOK
<1>7. /\ throttle' \in [Signals -> [cooling : BOOLEAN,
                           pending : {None, "scheduled", "started"}, orphans : 0..MaxEvents]]
      /\ \A z \in Signals : throttle'[z].orphans = throttle[z].orphans
                             /\ throttle'[z].pending # "scheduled"
  BY <1>1, <1>6 DEF Idle, None
<1>8. TypeOK'
  BY <1>1, <1>4, <1>7 DEF StackInv, TypeOK, QueueShape
<1>9. Counts'
  BY <1>1, <1>6, <1>7 DEF Counts
<1>10. Configured' /\ NoStaleFlow' /\ StaysStopped'
  BY <1>1, <1>3 DEF StackInv, Configured, NoStaleFlow, StaysStopped
<1>11. QED
  BY <1>5, <1>8, <1>9, <1>10 DEF StackInv

(* The cooldown between restarts ends.                                     *)
LEMMA CooldownKeeps ==
  ASSUME StackInv, CooldownExpires
  PROVE  StackInv'
<1> USE DEF userVars, policyVars, tunVars, stackVars, swapVars, execVars, readerVars, readThreads
<1>1. /\ cooling' = FALSE
      /\ UNCHANGED <<userVars, tunVars, running, stopped, configuration, ipv6DNSEnabled,
                     loaded, loadedRules, deferredRestart, flows, swapVars, execVars,
                     readerVars>>
  BY DEF CooldownExpires
<1>2. TypeOK'
  BY <1>1 DEF StackInv, TypeOK
<1>3. Counts' /\ TaskOrder' /\ Configured' /\ NoStaleFlow' /\ StaysStopped'
  BY <1>1 DEF StackInv, Counts, TaskOrder, Configured, NoStaleFlow, StaysStopped
<1>4. QED
  BY <1>2, <1>3 DEF StackInv

(* The deferred restart fires, or is dropped when the stack is not running. *)
LEMMA DeferredKeeps ==
  ASSUME StackInv, DeferredRestartFires
  PROVE  StackInv'
<1> USE DEF userVars, policyVars, tunVars, stackVars, swapVars, execVars, readerVars, readThreads
<1>1. /\ busy = NotBusy /\ deferredRestart # {}
      /\ UNCHANGED <<userVars, tunVars, running, stopped, tunInput, execVars, readThreads>>
  BY DEF DeferredRestartFires
<1>2. ~stopped
  BY <1>1 DEF StackInv, StaysStopped
<1>3. RestartTyped' /\ NoStaleFlow'
  <2>1. CASE running
    <3>1. PICK r \in deferredRestart : restartStackNow(r.config, r.ipv6, tunFdSwapped)
      BY <2>1 DEF DeferredRestartFires
    <3>2. r.config \in Configs /\ r.ipv6 \in BOOLEAN /\ tunFdSwapped \in BOOLEAN
      BY DEF StackInv, TypeOK
    <3>3. QED
      BY <1>1, <3>1, <3>2, RestartNowKeeps
  <2>2. CASE ~running
    <3>1. /\ deferredRestart' = {}
          /\ UNCHANGED <<cooling, flows, configuration, ipv6DNSEnabled, loaded, loadedRules,
                         tunFdSwapped, starting>>
      BY <2>2 DEF DeferredRestartFires
    <3>2. QED
      BY <1>1, <1>2, <3>1 DEF StackInv, TypeOK, Configured, RestartTyped, NoStaleFlow
  <2>3. QED
    BY <2>1, <2>2
<1>4. TypeOK'
  BY <1>1, <1>3 DEF StackInv, TypeOK, RestartTyped
<1>5. Counts' /\ TaskOrder'
  BY <1>1 DEF StackInv, Counts, TaskOrder
<1>6. Configured' /\ StaysStopped'
  BY <1>1, <1>2, <1>3 DEF Configured, RestartTyped, StaysStopped
<1>7. QED
  BY <1>3, <1>4, <1>5, <1>6 DEF StackInv

(* The start task loads the rules; no flow can be open yet.                *)
LEMMA TaskStartKeeps ==
  ASSUME StackInv, TaskStart
  PROVE  StackInv'
<1> USE DEF userVars, policyVars, tunVars, stackVars, swapVars, execVars, readerVars, readThreads
<1>1. /\ Take("start") /\ queue' = Tail(queue) /\ running' = TRUE
      /\ loaded' = [k \in Reloaded |-> prefs[k]] /\ loadedRules' = rules
      /\ starting' = starting + 1
      /\ UNCHANGED <<userVars, tunVars, stopped, configuration, ipv6DNSEnabled, cooling,
                     deferredRestart, flows, swapVars, shutdown, throttle, busy, readThreads>>
  BY DEF TaskStart
<1>2. queue # <<>> /\ Head(queue).task = "start" /\ QueueShape(queue)
  BY <1>1 DEF Take, StackInv, TaskOrder
<1>3. /\ QueueShape(queue') /\ ~HasStart(queue')
      /\ HasStop(queue') <=> HasStop(queue)
  BY <1>1, <1>2, TailKeepsShape
<1>4. ~running /\ ~stopped
  <2>1. Head(queue) = queue[1]
    BY <1>2 DEF QueueShape
  <2>2. HasStart(queue)
    BY <1>2, <2>1 DEF HasStart
  <2>3. QED
    BY <2>2 DEF StackInv, TaskOrder
<1>5. TaskOrder'
  BY <1>1, <1>3, <1>4 DEF StackInv, TaskOrder
<1>6. loaded' \in [Reloaded -> BOOLEAN]
  BY <1>1 DEF StackInv, TypeOK, Reloaded
<1>7. TypeOK'
  BY <1>1, <1>3, <1>6 DEF StackInv, TypeOK, QueueShape
<1>8. flows' = {}
  BY <1>1, <1>4 DEF StackInv, NoStaleFlow
<1>9. Counts' /\ Configured' /\ NoStaleFlow' /\ StaysStopped'
  BY <1>1, <1>4, <1>8 DEF StackInv, Counts, Configured, NoStaleFlow, StaysStopped
<1>10. QED
  BY <1>5, <1>7, <1>9 DEF StackInv

(* A signal's task posts the handler's work behind everything queued.      *)
LEMMA TaskSignalKeeps ==
  ASSUME StackInv, TaskSignal
  PROVE  StackInv'
<1> USE DEF userVars, policyVars, tunVars, stackVars, swapVars, execVars, readerVars, readThreads
<1>1. /\ Take("signal")
      /\ queue' = IF shutdown THEN Tail(queue)
                  ELSE Append(Tail(queue), [task |-> "handle", signal |-> Head(queue).signal])
      /\ UNCHANGED <<asked, prefs, rules, policy, events, tunVars, stackVars, swapVars, starting,
                     shutdown, throttle, busy, readThreads>>
      /\ loadedPolicy' \in 0..MaxEvents /\ loadedPolicy' <= events
  BY ReloadKeeps DEF TaskSignal, Skip
<1>2. queue # <<>> /\ Head(queue).task = "signal" /\ QueueShape(queue)
  BY <1>1 DEF Take, StackInv, TaskOrder
<1>3. /\ QueueShape(Tail(queue)) /\ ~HasStart(Tail(queue)) /\ Head(queue) \in Task
      /\ HasStop(Tail(queue)) <=> HasStop(queue)
  BY <1>2, TailKeepsShape
<1>4. ~stopped
  BY <1>2 DEF StackInv, StaysStopped
<1>5. TaskOrder'
  <2>1. CASE shutdown
    BY <1>1, <1>3, <1>4, <2>1 DEF StackInv, TaskOrder
  <2>2. CASE ~shutdown
    <3>1. Head(queue).signal \in Signals
      BY <1>2, <1>3 DEF Task
    <3>2. PICK t : t = [task |-> "handle", signal |-> Head(queue).signal]
      OBVIOUS
    <3>3. t \in Task /\ t.task = "handle"
      BY <3>1, <3>2 DEF Task
    <3>4. ~HasStop(Tail(queue))
      BY <1>3, <2>2 DEF StackInv, TaskOrder
    <3>5. queue' = Append(Tail(queue), t)
      BY <1>1, <2>2, <3>2
    <3>6. QueueShape(queue') /\ ~HasStart(queue') /\ ~HasStop(queue')
      BY <1>3, <3>3, <3>4, <3>5, AppendKeepsShape
    <3>7. QED
      BY <1>1, <1>4, <2>2, <3>6 DEF StackInv, TaskOrder
  <2>3. QED
    BY <2>1, <2>2
<1>6. TypeOK'
  BY <1>1, <1>5 DEF StackInv, TypeOK, TaskOrder, QueueShape
<1>7. Counts' /\ Configured' /\ NoStaleFlow' /\ StaysStopped'
  BY <1>1, <1>4 DEF StackInv, Counts, Configured, NoStaleFlow, StaysStopped
<1>8. QED
  BY <1>5, <1>6, <1>7 DEF StackInv

(* A change of the rules or the certificates is handled.                   *)
LEMMA RulesChangedKeeps ==
  ASSUME StackInv, handleRulesChanged
  PROVE  StackInv'
<1> USE DEF userVars, policyVars, tunVars, stackVars, swapVars, execVars, readerVars, readThreads
<1>1. /\ Take("handle") /\ queue' = Tail(queue)
      /\ UNCHANGED <<userVars, tunVars, running, stopped, tunInput, shutdown, throttle, busy,
                     readThreads>>
  BY DEF handleRulesChanged, Restart, Skip
<1>2. /\ TaskOrder' /\ ~HasStart(queue') /\ ~stopped
      /\ Head(queue) \in Task /\ Head(queue).task = "handle"
  BY <1>1, TakeKeepsOrder
<1>3. RestartTyped' /\ NoStaleFlow'
  <2>1. CASE running
    <3>1. restartStack(configuration, ipv6DNSEnabled, tunFdSwapped)
      BY <2>1 DEF handleRulesChanged, Restart
    <3>2. configuration \in Configs /\ ipv6DNSEnabled \in BOOLEAN /\ tunFdSwapped \in BOOLEAN
      BY <1>2 DEF StackInv, Configured, TypeOK
    <3>3. QED
      BY <1>1, <1>2, <3>1, <3>2, RestartKeeps
  <2>2. CASE ~running
    <3>1. UNCHANGED <<stackVars, swapVars, starting>>
      BY <2>2 DEF handleRulesChanged, Skip
    <3>2. QED
      BY <1>2, <3>1 DEF StackInv, TypeOK, Configured, RestartTyped, NoStaleFlow
  <2>3. QED
    BY <2>1, <2>2
<1>4. TypeOK'
  BY <1>1, <1>2, <1>3 DEF StackInv, TypeOK, RestartTyped, TaskOrder, QueueShape
<1>5. Counts' /\ Configured' /\ StaysStopped'
  BY <1>1, <1>2, <1>3 DEF StackInv, Counts, Configured, RestartTyped, StaysStopped
<1>6. QED
  BY <1>2, <1>3, <1>4, <1>5 DEF StackInv

(* A change of the network path is handled.                                *)
LEMMA TaskPathKeeps ==
  ASSUME StackInv, TaskPath
  PROVE  StackInv'
<1> USE DEF userVars, policyVars, tunVars, stackVars, swapVars, execVars, readerVars, readThreads
<1>1. /\ Take("path") /\ queue' = Tail(queue)
      /\ UNCHANGED <<userVars, tunVars, running, stopped, tunInput, shutdown, throttle, busy,
                     readThreads>>
  BY DEF TaskPath, Restart, Skip
<1>2. /\ TaskOrder' /\ ~HasStart(queue') /\ ~stopped
      /\ Head(queue) \in Task /\ Head(queue).task = "path"
  BY <1>1, TakeKeepsOrder
<1>3. RestartTyped' /\ NoStaleFlow'
  <2>1. CASE running
    <3>1. restartStack(configuration, ipv6DNSEnabled, tunFdSwapped)
      BY <2>1 DEF TaskPath, Restart
    <3>2. configuration \in Configs /\ ipv6DNSEnabled \in BOOLEAN /\ tunFdSwapped \in BOOLEAN
      BY <1>2 DEF StackInv, Configured, TypeOK
    <3>3. QED
      BY <1>1, <1>2, <3>1, <3>2, RestartKeeps
  <2>2. CASE ~running
    <3>1. UNCHANGED <<stackVars, swapVars, starting>>
      BY <2>2 DEF TaskPath, Skip
    <3>2. QED
      BY <1>2, <3>1 DEF StackInv, TypeOK, Configured, RestartTyped, NoStaleFlow
  <2>3. QED
    BY <2>1, <2>2
<1>4. TypeOK'
  BY <1>1, <1>2, <1>3 DEF StackInv, TypeOK, RestartTyped, TaskOrder, QueueShape
<1>5. Counts' /\ Configured' /\ StaysStopped'
  BY <1>1, <1>2, <1>3 DEF StackInv, Counts, Configured, RestartTyped, StaysStopped
<1>6. QED
  BY <1>2, <1>3, <1>4, <1>5 DEF StackInv

(* A switch of configuration is handled.                                   *)
LEMMA TaskSwitchKeeps ==
  ASSUME StackInv, TaskSwitch
  PROVE  StackInv'
<1> USE DEF userVars, policyVars, tunVars, stackVars, swapVars, execVars, readerVars, readThreads
<1>1. /\ Take("switch") /\ queue' = Tail(queue)
      /\ UNCHANGED <<userVars, tunVars, running, stopped, tunInput, shutdown, throttle, busy,
                     readThreads>>
  BY DEF TaskSwitch, Restart, Skip
<1>2. /\ TaskOrder' /\ ~HasStart(queue') /\ ~stopped
      /\ Head(queue) \in Task /\ Head(queue).task = "switch"
  BY <1>1, TakeKeepsOrder
<1>3. RestartTyped' /\ NoStaleFlow'
  <2>1. Head(queue).config \in Configs
    BY <1>2 DEF Task
  <2>2. restartStack(Head(queue).config, ipv6DNSEnabled, tunFdSwapped)
    BY DEF TaskSwitch, Restart
  <2>3. QED
    BY <1>1, <1>2, <2>1, <2>2, RestartKeeps DEF StackInv, TypeOK
<1>4. TypeOK'
  BY <1>1, <1>2, <1>3 DEF StackInv, TypeOK, RestartTyped, TaskOrder, QueueShape
<1>5. Counts' /\ Configured' /\ StaysStopped'
  BY <1>1, <1>2, <1>3 DEF StackInv, Counts, Configured, RestartTyped, StaysStopped
<1>6. QED
  BY <1>2, <1>3, <1>4, <1>5 DEF StackInv

(* A change of the settings is handled: ignored, a restart, or a new TUN   *)
(* first, while the executor is busy.                                      *)
LEMMA SettingsChangedKeeps ==
  ASSUME StackInv, handleSettingsChanged
  PROVE  StackInv'
<1> USE DEF userVars, policyVars, tunVars, stackVars, swapVars, execVars, readerVars, readThreads
<1>1. /\ Take("handle") /\ queue' = Tail(queue)
      /\ UNCHANGED <<userVars, serviceStack, serviceTun, shutdown, throttle, readThreads, running,
                     stopped, tunInput>>
  BY DEF handleSettingsChanged, Restart, Skip
<1>2. TaskOrder' /\ ~HasStart(queue') /\ ~stopped /\ busy = NotBusy
  BY <1>1, TakeKeepsOrder
<1>3. /\ prefs["ipv6DnsEnabled"] \in BOOLEAN
      /\ configuration \in Configs /\ tunFdSwapped \in BOOLEAN
      /\ RestartTyped /\ NoStaleFlow
  BY <1>2 DEF StackInv, TypeOK, Configured, RestartTyped, Knobs
<1>4. RestartTyped' /\ NoStaleFlow'
  <2>1. CASE UNCHANGED <<stackVars, swapVars, starting>>
    BY <1>3, <2>1 DEF RestartTyped, NoStaleFlow
  <2>2. CASE restartStack(configuration, prefs["ipv6DnsEnabled"], tunFdSwapped)
    BY <1>1, <1>2, <1>3, <2>2, RestartKeeps
  <2>3. QED
    BY <2>1, <2>2 DEF handleSettingsChanged, Restart, Skip
<1>5. busy' \in LongCall /\ openTuns' \subseteq Tuns /\ built' \in Tuns
  <2>1. openTuns \subseteq Tuns /\ built \in Tuns /\ busy \in LongCall
    BY DEF StackInv, TypeOK
  <2>2. CASE UNCHANGED <<busy, openTuns, built>>
    BY <2>1, <2>2
  <2>3. CASE /\ built < MaxTuns
             /\ built' = built + 1 /\ openTuns' = openTuns \cup {built + 1}
             /\ busy' = [op |-> "reapply", fd |-> built + 1, ipv6 |-> prefs["ipv6DnsEnabled"]]
    <3>1. built + 1 \in Tuns
      BY <2>1, <2>3, BoundAssumption DEF Tuns
    <3>2. QED
      BY <1>3, <2>1, <2>3, <3>1 DEF LongCall
  <2>4. CASE /\ busy' = [op |-> "reapply", fd |-> NoTun, ipv6 |-> prefs["ipv6DnsEnabled"]]
             /\ UNCHANGED <<openTuns, built>>
    BY <1>3, <2>1, <2>4 DEF LongCall
  <2>5. QED
    BY <2>2, <2>3, <2>4 DEF handleSettingsChanged
<1>6. TypeOK'
  BY <1>1, <1>2, <1>4, <1>5 DEF StackInv, TypeOK, RestartTyped, TaskOrder, QueueShape
<1>7. Counts' /\ Configured' /\ StaysStopped'
  BY <1>1, <1>2, <1>4 DEF StackInv, Counts, Configured, RestartTyped, StaysStopped
<1>8. QED
  BY <1>2, <1>4, <1>6, <1>7 DEF StackInv

(* The new TUN is in place, or could not be built, and the stack restarts. *)
(* The cleanup cannot have run meanwhile: the executor was busy.           *)
LEMMA ReapplyKeeps ==
  ASSUME StackInv, ReapplyEnds
  PROVE  StackInv'
<1> USE DEF userVars, policyVars, tunVars, stackVars, swapVars, execVars, readerVars, readThreads
<1>1. /\ busy.op = "reapply" /\ busy' = NotBusy
      /\ UNCHANGED <<userVars, serviceStack, built, running, stopped, queue, shutdown, throttle,
                     readThreads>>
  BY DEF ReapplyEnds
<1>2. busy.fd \in Tuns \cup {NoTun} /\ busy.ipv6 \in BOOLEAN
  BY <1>1 DEF StackInv, TypeOK, LongCall, NotBusy, None
<1>3. ~stopped
  BY <1>1 DEF StackInv, StaysStopped
<1>4. busy' \in LongCall
  BY <1>1 DEF LongCall
<1>5. /\ serviceTun' \in Tuns \cup {NoTun} /\ tunInput' \in Tuns \cup {NoTun}
      /\ openTuns' \subseteq Tuns
  BY <1>2 DEF ReapplyEnds, StackInv, TypeOK
<1>6. PICK swapped \in BOOLEAN : restartStack(configuration, busy.ipv6, swapped)
  BY DEF ReapplyEnds, SwapFlag
<1>7. configuration \in Configs
  BY <1>3 DEF StackInv, Configured
<1>8. RestartTyped' /\ NoStaleFlow'
  BY <1>1, <1>2, <1>3, <1>6, <1>7, RestartKeeps
<1>9. TypeOK'
  BY <1>1, <1>4, <1>5, <1>8 DEF StackInv, TypeOK, RestartTyped
<1>10. Counts' /\ TaskOrder' /\ Configured' /\ StaysStopped'
  BY <1>1, <1>3, <1>8 DEF StackInv, Counts, TaskOrder, Configured, RestartTyped, StaysStopped
<1>11. QED
  BY <1>8, <1>9, <1>10 DEF StackInv

(* A wake closes the flows and keeps the rest.                             *)
LEMMA TaskWakeKeeps ==
  ASSUME StackInv, TaskWake
  PROVE  StackInv'
<1> USE DEF userVars, policyVars, tunVars, stackVars, swapVars, execVars, readerVars, readThreads
<1>1. /\ Take("wake") /\ queue' = Tail(queue)
      /\ flows' = IF running THEN {} ELSE flows
      /\ UNCHANGED <<userVars, tunVars, running, stopped, configuration, ipv6DNSEnabled, loaded,
                     loadedRules, cooling, deferredRestart, swapVars, shutdown, throttle, busy,
                     readerVars>>
  BY DEF TaskWake
<1>2. TaskOrder' /\ ~stopped
  BY <1>1, TakeKeepsOrder
<1>3. TypeOK'
  BY <1>1, <1>2 DEF StackInv, TypeOK, TaskOrder, QueueShape
<1>4. Counts' /\ Configured' /\ NoStaleFlow' /\ StaysStopped'
  BY <1>1, <1>2 DEF StackInv, Counts, Configured, NoStaleFlow, StaysStopped
<1>5. QED
  BY <1>2, <1>3, <1>4 DEF StackInv

(* The cleanup is the last task: it leaves nothing queued, nothing deferred *)
(* and no flow.                                                            *)
LEMMA TaskStopKeeps ==
  ASSUME StackInv, TaskStop
  PROVE  StackInv'
<1> USE DEF userVars, policyVars, tunVars, stackVars, swapVars, execVars, readerVars, readThreads
<1>1. /\ Take("stop") /\ queue' = Tail(queue)
      /\ running' = FALSE /\ stopped' = TRUE /\ deferredRestart' = {} /\ flows' = {}
      /\ configuration' = None /\ tunInput' = NoTun
      /\ openTuns' = openTuns \ {Head(queue).fd}
      /\ UNCHANGED <<userVars, serviceStack, serviceTun, built, ipv6DNSEnabled, loaded,
                     loadedRules, cooling, tunFdSwapped, shutdown, throttle, busy, readerVars>>
  BY DEF TaskStop
<1>2. queue # <<>> /\ Head(queue).task = "stop" /\ QueueShape(queue) /\ busy = NotBusy
  BY <1>1 DEF Take, StackInv, TaskOrder
<1>3. QueueShape(queue') /\ queue' = <<>>
  BY <1>1, <1>2, TailKeepsShape
<1>4. shutdown
  <2>1. queue[1].task = "stop"
    BY <1>2 DEF QueueShape
  <2>2. 1 \in 1..Len(queue)
    BY <1>2, EmptySeq DEF QueueShape
  <2>3. Len(queue) = 1
    BY <1>2, <2>1, <2>2 DEF QueueShape
  <2>4. HasStop(queue)
    BY <1>2, <2>1, <2>3 DEF HasStop
  <2>5. QED
    BY <2>4 DEF StackInv, TaskOrder
<1>5. TaskOrder'
  BY <1>1, <1>3, <1>4 DEF TaskOrder, HasStart, HasStop
<1>6. TypeOK'
  BY <1>1, <1>3 DEF StackInv, TypeOK, QueueShape
<1>7. Counts' /\ Configured' /\ NoStaleFlow' /\ StaysStopped'
  BY <1>1, <1>2, <1>3 DEF StackInv, Counts, Configured, NoStaleFlow, StaysStopped, NotBusy, None
<1>8. QED
  BY <1>5, <1>6, <1>7 DEF StackInv

(* A new flow takes what is in force.                                      *)
LEMMA OpenFlowKeeps ==
  ASSUME StackInv, OpenFlow
  PROVE  StackInv'
<1> USE DEF userVars, policyVars, tunVars, stackVars, swapVars, execVars, readerVars, readThreads
<1>1. /\ running
      /\ flows' = flows \cup {[config |-> configuration, rules |-> loadedRules,
                               policy |-> loadedPolicy]}
      /\ UNCHANGED <<userVars, tunVars, running, stopped, configuration, ipv6DNSEnabled, loaded,
                     loadedRules, cooling, deferredRestart, swapVars, execVars, readerVars>>
  BY DEF OpenFlow
<1>2. configuration \in Configs
  BY <1>1 DEF StackInv, StaysStopped, Configured
<1>3. TypeOK'
  BY <1>1, <1>2 DEF StackInv, TypeOK
<1>4. Counts' /\ TaskOrder' /\ Configured' /\ NoStaleFlow' /\ StaysStopped'
  BY <1>1 DEF StackInv, Counts, TaskOrder, Configured, NoStaleFlow, StaysStopped
<1>5. QED
  BY <1>3, <1>4 DEF StackInv

(* A reader thread gets to run.                                            *)
LEMMA ReaderStartsKeeps ==
  ASSUME StackInv, ReaderStarts
  PROVE  StackInv'
<1> USE DEF userVars, policyVars, tunVars, stackVars, swapVars, execVars, readerVars, readThreads
<1>1. /\ starting > 0 /\ starting' = starting - 1
      /\ reading' = IF tunInput = NoTun \/ ~running THEN reading
                    ELSE [reading EXCEPT ![tunInput] = @ + 1]
      /\ UNCHANGED <<userVars, tunVars, stackVars, swapVars, execVars, readFailed>>
  BY DEF ReaderStarts
<1>2. starting' \in Nat /\ reading' \in [Tuns -> Nat]
  BY <1>1 DEF StackInv, TypeOK
<1>3. TypeOK'
  BY <1>1, <1>2 DEF StackInv, TypeOK
<1>4. Counts' /\ TaskOrder' /\ Configured' /\ NoStaleFlow' /\ StaysStopped'
  BY <1>1 DEF StackInv, Counts, TaskOrder, Configured, NoStaleFlow, StaysStopped
<1>5. QED
  BY <1>3, <1>4 DEF StackInv

(* A reader thread's TUN is closed, or a read of it fails.                 *)
LEMMA ReaderEndsKeeps ==
  ASSUME StackInv, ReaderEnds
  PROVE  StackInv'
<1> USE DEF userVars, policyVars, tunVars, stackVars, swapVars, execVars, readerVars, readThreads
<1>1. UNCHANGED <<userVars, tunVars, stackVars, swapVars, execVars, starting>>
  BY DEF ReaderEnds
<1>2. reading' \in [Tuns -> Nat] /\ readFailed' \in BOOLEAN
  <2>1. PICK t \in Tuns :
          /\ reading[t] > 0 /\ reading' = [reading EXCEPT ![t] = @ - 1]
          /\ readFailed' = TRUE \/ readFailed' = readFailed
    BY Zenon DEF ReaderEnds
  <2>2. reading' \in [Tuns -> Nat]
    BY <2>1 DEF StackInv, TypeOK
  <2>3. readFailed' \in BOOLEAN
    BY <2>1, Zenon DEF StackInv, TypeOK
  <2>4. QED
    BY <2>2, <2>3
<1>3. TypeOK'
  BY <1>1, <1>2 DEF StackInv, TypeOK
<1>4. Counts' /\ TaskOrder' /\ Configured' /\ NoStaleFlow' /\ StaysStopped'
  BY <1>1 DEF StackInv, Counts, TaskOrder, Configured, NoStaleFlow, StaysStopped
<1>5. QED
  BY <1>3, <1>4 DEF StackInv

(* Every step of the specification keeps the invariant.                    *)
LEMMA StepKeeps == StackInv /\ [Next]_vars => StackInv'
<1> SUFFICES ASSUME StackInv, [Next]_vars PROVE StackInv'
  OBVIOUS
<1>1. CASE MainThread
  BY <1>1, ChangeSettingKeeps, ChangeRulesKeeps, SwitchKeeps, PathKeeps, WakeKeeps,
     StopVpnKeeps DEF MainThread
<1>2. CASE Clock
  BY <1>2, CooldownKeeps, ThrottleExpiresKeeps DEF Clock
<1>3. CASE RunTask
  BY <1>3, TaskStartKeeps, TaskSignalKeeps, SettingsChangedKeeps, RulesChangedKeeps,
     TaskSwitchKeeps, TaskPathKeeps, TaskWakeKeeps, TaskStopKeeps DEF RunTask
<1>4. CASE Executor
  BY <1>3, <1>4, ReapplyKeeps, TrailingRunsKeeps, DeferredKeeps, TrailingStartsKeeps
     DEF Executor
<1>5. CASE OpenFlow \/ ReaderStarts \/ ReaderEnds
  BY <1>5, OpenFlowKeeps, ReaderStartsKeeps, ReaderEndsKeeps
<1>6. CASE UNCHANGED vars
  BY <1>6 DEF vars, userVars, policyVars, tunVars, stackVars, swapVars, execVars, readerVars,
     readThreads, StackInv, TypeOK, Counts, TaskOrder, Configured, NoStaleFlow, StaysStopped
<1>7. QED
  BY <1>1, <1>2, <1>4, <1>5, <1>6 DEF Next

-----------------------------------------------------------------------------
(* The theorems. *)

(* The inductive invariant holds in every reachable state of the stack, for *)
(* every set of configurations and every bound.                             *)
THEOREM StackInvariant == Spec => []StackInv
<1>1. Init => StackInv
  BY InitKeeps
<1>2. StackInv /\ [Next]_vars => StackInv'
  BY StepKeeps
<1>3. QED
  BY <1>1, <1>2, PTL DEF Spec

(* The stack's fields, the executor's queue and throttlers and the reader  *)
(* threads are well typed; no restart ever captures a missing              *)
(* configuration.                                                          *)
THEOREM StackTypeCorrect == Spec => []TypeOK
<1>1. StackInv => TypeOK
  BY DEF StackInv
<1>2. QED
  BY <1>1, StackInvariant, PTL

(* Every restart, immediate or deferred, and every cleanup leaves no flow  *)
(* that was opened under another configuration or other rules.             *)
THEOREM FlowsNeverStale == Spec => []NoStaleFlow
<1>1. StackInv => NoStaleFlow
  BY DEF StackInv
<1>2. QED
  BY <1>1, StackInvariant, PTL

(* Once stop()'s cleanup ran, nothing queued, deferred or under way can    *)
(* bring the stack back.                                                   *)
THEOREM StopIsFinal == Spec => []StaysStopped
<1>1. StackInv => StaysStopped
  BY DEF StackInv
<1>2. QED
  BY <1>1, StackInvariant, PTL
=============================================================================
