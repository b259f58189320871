--------------------------- MODULE DynamicDelay ----------------------------
(* The DynamicDelay filter (dynamic_delay.cpp): like StaticDelay it holds one *)
(* packet at a time back by a timer, but the delay changes meanwhile.  A      *)
(* second queue, delayQ_, holds the delays; each Interval its handler takes   *)
(* one, puts it back at the end, and makes it the delay in force.             *)
(*                                                                            *)
(* queue_ is SerialQueue.  So is delayQ_, of which only what it still holds   *)
(* is kept here, for it goes round for ever.  Local time and UTC are taken to agree *)
(* (StaticDelay tells them apart), and popHandler() to start its timer before *)
(* a unit of time is over.  An empty pattern stands for a router that was     *)
(* given no --dyn-delays.                                                     *)
EXTENDS DelayCurve, FiniteSets

CONSTANTS Packets,        \* numbered in the order in which they are received
          Options,        \* --dyn-delays and --dyn-delay-res, in pairs
          Interval,       \* int_: 1000 ms
          LastArrival,    \* bound: no packet is received later
          MaxTime         \* bound: the clock stops here

ASSUME ConstantsAssumption ==
  /\ Packets \subseteq Nat
  /\ \A o \in Options : o[1] \in Seq(Nat) /\ o[2] \in Nat \ {0}
  /\ Interval \in Nat \ {0} /\ LastArrival \in Nat /\ MaxTime \in Nat

\* The patterns stay within what DelayCurve models.
ASSUME PatternAssumption == \A o \in Options : o[1] # <<>> => InRange(o[1], o[2])

VARIABLES
  pattern, resolution,  \* which of the Options
  curve,        \* what setDelays() has put into delayQ_
  now,
  delay_,
  delayQ_,
  delayPc,      \* where delayPopHandler() is, or its timer
  d,            \* its parameter
  changeDue,    \* when its timer expires
  stamp,        \* stamp_ of each packet
  outside,      \* the packets that have not been received yet
  accepted, handled, waiting,    \* queue_: see SerialQueue
  closed, ended,                 \* ... which the filter never closes
  popped,       \* popHandler()'s packet and "now", until the timer is started
  timers,       \* the timers it has started, each with its packet
  rearm,        \* a thread is about to call queue_.asyncPop()
  out,          \* the packets given to next_, in order
  turns,        \* history: how often the delay has been set
  arrivedAt, queuedAt, sentAt,   \* history
  held,         \* history: the delay_ each packet was held back by
  punctual      \* history: no time has passed while there was work to do

queueVars == <<accepted, handled, waiting, closed, ended>>
delayVars == <<delay_, delayQ_, delayPc, d, changeDue, turns>>
packetVars == <<stamp, outside, queueVars, popped, timers, rearm, out,
                arrivedAt, queuedAt, sentAt, held>>
vars == <<pattern, resolution, curve, now, delayVars, packetVars, punctual>>

Queue == INSTANCE SerialQueue WITH
  Data <- Packets, MaxPushes <- Cardinality(Packets)

Init ==
  /\ \E o \in Options : pattern = o[1] /\ resolution = o[2]
  /\ curve = IF pattern = <<>> THEN <<>> ELSE SetDelays(pattern, resolution)
  /\ now = 0
  /\ delay_ = 0
  /\ delayQ_ = curve
  /\ delayPc = "asyncPop"
  /\ d = 0 /\ changeDue = 0
  /\ stamp = [p \in Packets |-> 0]
  /\ outside = Packets
  /\ Queue!Init
  /\ popped = {} /\ timers = {}
  /\ rearm = TRUE
  /\ out = <<>>
  /\ turns = 0
  /\ arrivedAt = [p \in Packets |-> 0]
  /\ queuedAt = [p \in Packets |-> 0]
  /\ sentAt = [p \in Packets |-> 0]
  /\ held = [p \in Packets |-> 0]
  /\ punctual = TRUE

InSeq(s) == {s[i] : i \in 1..Len(s)}

-----------------------------------------------------------------------------
DelayAt(from, to) == delayPc = from /\ delayPc' = to

\* init(), and the timer's function: delayQ_.asyncPop().
DelayAsyncPop ==
  /\ DelayAt("asyncPop", "waiting")
  /\ UNCHANGED <<delay_, delayQ_, d, changeDue, turns>>

DelayPopHandler ==
  /\ DelayAt("waiting", "push")
  /\ delayQ_ # <<>>
  /\ d' = Head(delayQ_)
  /\ delayQ_' = Tail(delayQ_)
  /\ UNCHANGED <<delay_, changeDue, turns>>

\* Mutant of delayPopHandler(): the delay is not put back.
DelayPushNothing ==
  /\ DelayAt("push", "set")
  /\ UNCHANGED <<delay_, delayQ_, d, changeDue, turns>>

DelayPush ==
  /\ DelayAt("push", "set")
  /\ delayQ_' = Append(delayQ_, d)
  /\ UNCHANGED <<delay_, d, changeDue, turns>>

\* Mutants of delayPopHandler(): asks for the next delay without a timer; waits
\* for the delay instead of the interval.
DelaySetNoTimer ==
  /\ DelayAt("set", "timer")
  /\ delay_' = d
  /\ turns' = turns + 1
  /\ changeDue' = now
  /\ UNCHANGED <<delayQ_, d>>

DelaySetWaitsDelay ==
  /\ DelayAt("set", "timer")
  /\ delay_' = d
  /\ turns' = turns + 1
  /\ changeDue' = now + d
  /\ UNCHANGED <<delayQ_, d>>

\* ... and starts the timer, which it does before a unit of time is over.
DelaySet ==
  /\ DelayAt("set", "timer")
  /\ delay_' = d
  /\ turns' = turns + 1
  /\ changeDue' = now + Interval
  /\ UNCHANGED <<delayQ_, d>>

DelayTimer ==
  /\ now >= changeDue
  /\ DelayAt("timer", "asyncPop")
  /\ UNCHANGED <<delay_, delayQ_, d, changeDue, turns>>

Change ==
  /\ DelayAsyncPop \/ DelayPopHandler \/ DelayPush \/ DelaySet \/ DelayTimer
  /\ UNCHANGED <<pattern, resolution, curve, now, packetVars, punctual>>

-----------------------------------------------------------------------------
others == <<pattern, resolution, curve, now, delayVars, punctual>>

\* The packet is built from the netfilter queue, and stamped.
Receive(p) ==
  /\ p \in outside /\ \A q \in outside : p <= q
  /\ now <= LastArrival
  /\ outside' = outside \ {p}
  /\ stamp' = [stamp EXCEPT ![p] = now]
  /\ arrivedAt' = [arrivedAt EXCEPT ![p] = now]
  /\ UNCHANGED <<others, queueVars, popped, timers, rearm, out, queuedAt, sentAt, held>>

HandlePacket(p) ==
  /\ p \notin outside \cup InSeq(accepted)
  /\ Queue!Accept(p)
  /\ queuedAt' = [queuedAt EXCEPT ![p] = now]
  /\ UNCHANGED <<others, stamp, outside, popped, timers, rearm, out, arrivedAt, sentAt, held>>

\* popHandler() reads the clock ...
PopHandler ==
  /\ Queue!Handle
  /\ popped' = {[pkt |-> accepted[Len(handled) + 1], now |-> now]}
  /\ UNCHANGED <<others, stamp, outside, timers, rearm, out, arrivedAt, queuedAt, sentAt, held>>

AtLeastZero(t) == IF t < 0 THEN 0 ELSE t

\* Mutants of popHandler(): the next packet is asked for at once; the time the
\* packet has spent in the router is not deducted, or deducted from the clamped.
ArmRearms(h) ==
  /\ h \in popped
  /\ popped' = {}
  /\ held' = [held EXCEPT ![h.pkt] = delay_]
  /\ timers' = timers \cup
       {[pkt |-> h.pkt, due |-> now + AtLeastZero(delay_ - (h.now - stamp[h.pkt]))]}
  /\ rearm' = TRUE
  /\ UNCHANGED <<others, stamp, outside, queueVars, out, arrivedAt, queuedAt, sentAt>>

ArmFullDelay(h) ==
  /\ h \in popped
  /\ popped' = {}
  /\ held' = [held EXCEPT ![h.pkt] = delay_]
  /\ timers' = timers \cup {[pkt |-> h.pkt, due |-> now + AtLeastZero(delay_)]}
  /\ UNCHANGED <<others, stamp, outside, queueVars, rearm, out, arrivedAt, queuedAt, sentAt>>

ArmClampAbove(h) ==
  /\ h \in popped
  /\ popped' = {}
  /\ held' = [held EXCEPT ![h.pkt] = delay_]
  /\ timers' = timers \cup
       {[pkt |-> h.pkt, due |-> now - AtLeastZero((h.now - stamp[h.pkt]) - delay_)]}
  /\ UNCHANGED <<others, stamp, outside, queueVars, rearm, out, arrivedAt, queuedAt, sentAt>>

\* ... and then the delay, and starts the timer.
Arm(h) ==
  /\ h \in popped
  /\ popped' = {}
  /\ held' = [held EXCEPT ![h.pkt] = delay_]
  /\ timers' = timers \cup
       {[pkt |-> h.pkt, due |-> now + AtLeastZero(delay_ - (h.now - stamp[h.pkt]))]}
  /\ UNCHANGED <<others, stamp, outside, queueVars, rearm, out, arrivedAt, queuedAt, sentAt>>

\* The timer's function, up to next_->handlePacket().
Forward(t) ==
  /\ t \in timers /\ now >= t.due
  /\ timers' = timers \ {t}
  /\ stamp' = [stamp EXCEPT ![t.pkt] = now]
  /\ out' = Append(out, t.pkt)
  /\ sentAt' = [sentAt EXCEPT ![t.pkt] = now]
  /\ rearm' = TRUE
  /\ UNCHANGED <<others, outside, queueVars, popped, arrivedAt, queuedAt, held>>

\* init(), and the end of the timer's function: queue_.asyncPop().
Rearm ==
  /\ rearm
  /\ Queue!Register
  /\ rearm' = FALSE
  /\ UNCHANGED <<others, stamp, outside, popped, timers, out, arrivedAt, queuedAt, sentAt, held>>

-----------------------------------------------------------------------------
ChangeBusy ==
  \/ delayPc \in {"asyncPop", "push", "set"}
  \/ delayPc = "waiting" /\ delayQ_ # <<>>
  \/ delayPc = "timer" /\ now >= changeDue

Busy ==
  \/ ChangeBusy
  \/ rearm /\ ~waiting
  \/ waiting /\ Len(handled) < Len(accepted)
  \/ \E t \in timers : now >= t.due

Tick ==
  /\ now < MaxTime
  /\ popped = {}
  /\ now' = now + 1
  /\ punctual' = (punctual /\ ~Busy)
  /\ UNCHANGED <<pattern, resolution, curve, delayVars, packetVars>>

Next ==
  \/ Change
  \/ \E p \in Packets : Receive(p) \/ HandlePacket(p)
  \/ PopHandler
  \/ \E h \in popped : Arm(h)
  \/ \E t \in timers : Forward(t)
  \/ Rearm
  \/ Tick

Spec == Init /\ [][Next]_vars

\* Time passes, expired timers fire and the pool runs what is posted to it.
Fairness ==
  /\ WF_vars(Tick)
  /\ WF_vars(Change)
  /\ WF_vars(PopHandler)
  /\ WF_vars(\E h \in popped : Arm(h))
  /\ WF_vars(\E t \in timers : Forward(t))
  /\ WF_vars(Rearm)

FairSpec == Spec /\ Fairness

-----------------------------------------------------------------------------
TypeOK ==
  /\ now \in 0..MaxTime /\ changeDue \in 0..(MaxTime + Interval)
  /\ delay_ \in Int /\ d \in Int
  /\ delayQ_ \in Seq(Int) /\ Len(delayQ_) \in {Len(curve) - 1, Len(curve)}
  /\ delayPc \in {"asyncPop", "waiting", "push", "set", "timer"}
  /\ stamp \in [Packets -> 0..MaxTime]
  /\ outside \subseteq Packets
  /\ accepted \in Seq(Packets) /\ handled \in Seq(Packets) /\ out \in Seq(Packets)
  /\ ~closed /\ ~ended
  /\ \A h \in popped : h.pkt \in InSeq(handled) /\ h.now \in 0..now
  /\ \A t \in timers : t.pkt \in InSeq(handled) /\ t.due \in Nat
  /\ \A h \in popped : rearm = FALSE /\ timers = {}

\* The delay in force when "turn" changes have been made, the first at the
\* start: before it, the constructor's 0.
Delay(turn) == IF turn = 0 THEN 0 ELSE curve[((turn - 1) % Len(curve)) + 1]

\* Every delay of the curve comes to be in force, in order, again and again,
\* and none before its time, although the queue that holds them is emptied and
\* filled by the handler itself.
InTurn == delay_ = Delay(turns) /\ (turns > 0 => (turns - 1) * Interval <= now)

\* README: the first delay holds "when the router starts", and the others from
\* then on at their seconds: if no thread is ever late, the changes neither drift
\* nor stop.  delayPopHandler() starts its timer from the time at which it runs,
\* so that a thread that is late delays all changes that follow; how far they get
\* behind in this way, nothing in the code bounds.
OnSchedule ==
  punctual /\ curve # <<>> /\ ~ChangeBusy => turns = now \div Interval + 1

\* If the threads keep up, a packet is popped once it is queued and the one
\* before it is gone, and leaves as soon as it has been in the router for the
\* delay in force at that moment; where that is the moment of a change, the
\* delay before or after it.
DelayOfTheMoment ==
  punctual /\ curve # <<>> =>
    \A i \in 1..Len(out) :
      LET p == out[i]
          Later(a, b) == IF a >= b THEN a ELSE b
          at == Later(queuedAt[p], IF i = 1 THEN 0 ELSE sentAt[out[i - 1]])
          turn == at \div Interval
      IN  \E n \in {turn + 1} \cup (IF at % Interval = 0 THEN {turn} ELSE {}) :
            sentAt[p] = Later(at, arrivedAt[p] + Delay(n))

\* If not, a packet may leave later, but never before it has been in the router
\* for the delay that was in force when its timer was started.
NotEarly == \A p \in InSeq(out) : sentAt[p] >= arrivedAt[p] + held[p]

\* Rounding costs little: the curve is nowhere above the floored interpolation,
\* and below it by at most one millisecond for each fix point behind, and one.
NearPattern ==
  curve # <<>> =>
    LET exact == Interpolation(pattern, resolution) IN
    /\ Len(curve) = Len(exact)
    /\ \A k \in 1..Len(curve) :
         /\ curve[k] <= exact[k]
         /\ curve[k] >= exact[k] - (k - 1) \div resolution - 1

\* dynamic_delay.hpp: "delay values are the delay values at time n*resolution".
FixPointsKept ==
  curve # <<>> =>
    \A i \in 1..Len(pattern) : curve[(i - 1) * resolution + 1] = pattern[i]

\* The outline by which Router knows the filter: a packet is kept from its
\* queueing to its forwarding, and passed on until the next is asked for.  So
\* packets leave in the order in which they were queued, also when the delay has
\* fallen since the one before was popped, and every one of them does.
Outline == INSTANCE KeepingFilter WITH
  LetsThrough <- FALSE, passed <- out,
  kept <- SubSeq(accepted, Len(out) + 1, Len(accepted)),
  passing <- IF rearm /\ out # <<>> THEN {out[Len(out)]} ELSE {}

Outlined == Outline!FairSpec
=============================================================================
