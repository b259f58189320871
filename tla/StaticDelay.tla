---------------------------- MODULE StaticDelay ----------------------------
(* The StaticDelay filter (shaper.cpp): packets are queued as they come, and  *)
(* one at a time is popped, held back by a timer until it has been in the     *)
(* router for delay_, forwarded, and only then is the next one asked for.     *)
(* The queue is SerialQueue, which AsyncQueue implements; nobody closes it,   *)
(* so popHandler's "stopped" branch is never taken.                           *)
(*                                                                            *)
(* Packets are stamped and delays computed with the local wall clock          *)
(* (microsec_clock::local_time), while timers run on UTC: "now" is UTC and    *)
(* now + shift the local clock.                                               *)
EXTENDS Integers, Sequences, FiniteSets

CONSTANTS Packets,        \* numbered in the order in which they are received
          Delay,          \* delay_
          Shifts,         \* by how much the local clock may be set, once ({}: never)
          LastArrival,    \* bound: no packet is received later
          MaxTime         \* bound: the clock stops here

ASSUME ConstantsAssumption ==
  /\ Packets \subseteq Nat
  /\ Delay \in Nat /\ LastArrival \in Nat
  /\ Shifts \subseteq Int
  /\ MaxTime \in Nat
  /\ \A s \in Shifts \cup {0} : MaxTime >= LastArrival + Delay - s

VARIABLES
  now, shift,
  stamp,        \* stamp_ of each packet, by the local clock
  outside,      \* the packets that have not been received yet
  accepted, handled, waiting,    \* queue_: see SerialQueue
  closed, ended,                 \* ... which the filter never closes
  timers,       \* the pending deadline_timers, each with its packet
  rearm,        \* a thread is about to call queue_.asyncPop()
  out,          \* the packets given to next_, in order
  arrivedAt, queuedAt, sentAt,   \* history, by UTC
  punctual      \* history: no time has passed while there was work to do

queueVars == <<accepted, handled, waiting, closed, ended>>
history == <<arrivedAt, queuedAt, sentAt, punctual>>
vars == <<now, shift, stamp, outside, queueVars, timers, rearm, out, history>>

Queue == INSTANCE SerialQueue WITH
  Data <- Packets, MaxPushes <- Cardinality(Packets)

Init ==
  /\ now = 0 /\ shift = 0
  /\ stamp = [p \in Packets |-> 0]
  /\ outside = Packets
  /\ Queue!Init
  /\ timers = {}
  /\ rearm = TRUE
  /\ out = <<>>
  /\ arrivedAt = [p \in Packets |-> 0]
  /\ queuedAt = [p \in Packets |-> 0]
  /\ sentAt = [p \in Packets |-> 0]
  /\ punctual = TRUE

InSeq(s) == {s[i] : i \in 1..Len(s)}

\* The packet is built from the netfilter queue, and stamped.
Receive(p) ==
  /\ p \in outside /\ \A q \in outside : p <= q
  /\ now <= LastArrival
  /\ outside' = outside \ {p}
  /\ stamp' = [stamp EXCEPT ![p] = now + shift]
  /\ arrivedAt' = [arrivedAt EXCEPT ![p] = now]
  /\ UNCHANGED <<now, shift, queueVars, timers, rearm, out, queuedAt, sentAt, punctual>>

\* handlePacket(): the packet, on its way since Receive, is queued.
HandlePacket(p) ==
  /\ p \notin outside \cup InSeq(accepted)
  /\ Queue!Accept(p)
  /\ queuedAt' = [queuedAt EXCEPT ![p] = now]
  /\ UNCHANGED <<now, shift, stamp, outside, timers, rearm, out, arrivedAt, sentAt, punctual>>

AtLeastZero(d) == IF d < 0 THEN 0 ELSE d

\* Mutants of popHandler(): the clamp turned round; the time already spent in
\* the router not deducted; the next packet asked for at once.
PopHandlerClampAbove ==
  LET p == accepted[Len(handled) + 1]
      delay == Delay - (now + shift - stamp[p])
  IN  /\ Queue!Handle
      /\ timers' = timers \cup {[pkt |-> p, due |-> now + (IF delay > 0 THEN 0 ELSE delay)]}
      /\ UNCHANGED <<now, shift, stamp, outside, rearm, out, history>>

PopHandlerFullDelay ==
  LET p == accepted[Len(handled) + 1]
  IN  /\ Queue!Handle
      /\ timers' = timers \cup {[pkt |-> p, due |-> now + Delay]}
      /\ UNCHANGED <<now, shift, stamp, outside, rearm, out, history>>

PopHandlerRearms ==
  LET p == accepted[Len(handled) + 1]
      delay == Delay - (now + shift - stamp[p])
  IN  /\ Queue!Handle
      /\ timers' = timers \cup {[pkt |-> p, due |-> now + AtLeastZero(delay)]}
      /\ rearm' = TRUE
      /\ UNCHANGED <<now, shift, stamp, outside, out, history>>

\* popHandler(), run by the pool with the packet the queue gives it.
PopHandler ==
  LET p == accepted[Len(handled) + 1]
      delay == Delay - (now + shift - stamp[p])
  IN  /\ Queue!Handle
      /\ timers' = timers \cup {[pkt |-> p, due |-> now + AtLeastZero(delay)]}
      /\ UNCHANGED <<now, shift, stamp, outside, rearm, out, history>>

\* Mutant of the timer's function: forwards, and forgets to ask for the next.
ForwardNoRearm(t) ==
  /\ t \in timers
  /\ now >= t.due
  /\ timers' = timers \ {t}
  /\ stamp' = [stamp EXCEPT ![t.pkt] = now + shift]
  /\ out' = Append(out, t.pkt)
  /\ sentAt' = [sentAt EXCEPT ![t.pkt] = now]
  /\ UNCHANGED <<now, shift, outside, queueVars, rearm, arrivedAt, queuedAt, punctual>>

\* The timer's function, up to next_->handlePacket().
Forward(t) ==
  /\ t \in timers
  /\ now >= t.due
  /\ timers' = timers \ {t}
  /\ stamp' = [stamp EXCEPT ![t.pkt] = now + shift]
  /\ out' = Append(out, t.pkt)
  /\ sentAt' = [sentAt EXCEPT ![t.pkt] = now]
  /\ rearm' = TRUE
  /\ UNCHANGED <<now, shift, outside, queueVars, arrivedAt, queuedAt, punctual>>

\* init(), and the end of the timer's function: queue_.asyncPop().
Rearm ==
  /\ rearm
  /\ Queue!Register
  /\ rearm' = FALSE
  /\ UNCHANGED <<now, shift, stamp, outside, timers, out, history>>

Busy ==
  \/ rearm /\ ~waiting
  \/ waiting /\ Len(handled) < Len(accepted)
  \/ \E t \in timers : now >= t.due

Tick ==
  /\ now < MaxTime
  /\ now' = now + 1
  /\ punctual' = (punctual /\ ~Busy)
  /\ UNCHANGED <<shift, stamp, outside, queueVars, timers, rearm, out,
                 arrivedAt, queuedAt, sentAt>>

\* The local clock is set, or daylight saving time begins or ends.
SetClock(s) ==
  /\ shift = 0
  /\ shift' = s
  /\ UNCHANGED <<now, stamp, outside, queueVars, timers, rearm, out, history>>

Next ==
  \/ \E p \in Packets : Receive(p) \/ HandlePacket(p)
  \/ PopHandler
  \/ \E t \in timers : Forward(t)
  \/ Rearm
  \/ Tick
  \/ \E s \in Shifts : SetClock(s)

Spec == Init /\ [][Next]_vars

\* Time passes, expired timers fire and the pool runs what is posted to it.
Fairness ==
  /\ WF_vars(Tick)
  /\ WF_vars(PopHandler)
  /\ WF_vars(\E t \in timers : Forward(t))
  /\ WF_vars(Rearm)

FairSpec == Spec /\ Fairness

-----------------------------------------------------------------------------
TypeOK ==
  /\ now \in 0..MaxTime
  /\ shift \in Shifts \cup {0}
  /\ stamp \in [Packets -> Int]
  /\ outside \subseteq Packets
  /\ accepted \in Seq(Packets) /\ handled \in Seq(Packets) /\ out \in Seq(Packets)
  /\ waiting \in BOOLEAN /\ rearm \in BOOLEAN
  /\ ~closed /\ ~ended
  /\ \A t \in timers : t.pkt \in Packets /\ t.due \in 0..MaxTime
  /\ arrivedAt \in [Packets -> 0..MaxTime]
  /\ queuedAt \in [Packets -> 0..MaxTime]
  /\ sentAt \in [Packets -> 0..MaxTime]
  /\ punctual \in BOOLEAN

\* "This filter promises no packet reordering": packets leave in the order in
\* which they were queued, none twice and none skipped, although every one of
\* them is delayed by a timer of its own that any thread may run.
NoReordering == Len(out) <= Len(accepted) /\ out = SubSeq(accepted, 1, Len(out))

\* A packet is "not forwarded to the next filter until [it has] been in the
\* router for the amount" of the delay, however late it is queued or popped; if
\* the local clock is set forth, it is early by no more than that.
NotEarly ==
  \A p \in InSeq(out) : sentAt[p] >= arrivedAt[p] + Delay - AtLeastZero(shift)

\* Holding packets back one at a time adds no delay: if the threads keep up,
\* packet number i leaves at the first moment at which it is queued and every
\* packet queued before it, and itself, has been in the router for Delay.
DelaysDoNotAddUp ==
  punctual /\ shift = 0 =>
    \A i \in 1..Len(out) :
      LET bounds == {queuedAt[out[i]]} \cup {arrivedAt[out[j]] + Delay : j \in 1..i}
      IN  sentAt[out[i]] \in bounds /\ \A b \in bounds : b <= sentAt[out[i]]

\* The outline by which Router knows the filter: a packet is kept from its
\* queueing to its forwarding, and passed on until the next is asked for.  So two
\* timers never run next_->handlePacket() at once, although no lock prevents it,
\* and the pump popHandler - timer - asyncPop never stops: every queued packet is
\* forwarded.
Outline == INSTANCE KeepingFilter WITH
  LetsThrough <- FALSE, passed <- out,
  kept <- SubSeq(accepted, Len(out) + 1, Len(accepted)),
  passing <- IF rearm /\ out # <<>> THEN {out[Len(out)]} ELSE {}

Outlined == Outline!FairSpec
=============================================================================
