---------------------------- MODULE TokenBucket ----------------------------
(* One direction of the TokenBucketFilter (tbf_filter.hpp): run(), which a    *)
(* timer starts every tokenInterval_, adds tokens for the time gone by;       *)
(* handlePacket(), on the thread of the filter before, queues a packet; both  *)
(* end in trySend(), which sends packets from the head of the queue as long   *)
(* as there are tokens for them, holding the mutex through next_.             *)
(*                                                                            *)
(* A packet that has been sent or dropped may come again: traffic never ends, *)
(* and time is what has passed since timerStart_.  The clock is taken not to  *)
(* be set back.                                                               *)
EXTENDS Integers, Sequences, FiniteSets

CONSTANTS
  Packets,
  PacketLen,      \* packet |-> its length in bytes
  MaxTokens,      \* maxTokens_
  MaxPackets,     \* maxPackets_
  RedStart,       \* redStart_
  Rates,          \* the values of dataRate_, of which ...
  PerToken,       \* ... one unit of time makes dataRate_ / PerToken tokens (8000 in the code)
  Interval,       \* tokenInterval_
  TokenSpace,     \* how many values tokens_ can take (2^32 in the code)
  Feeder,         \* the thread that calls handlePacket()
  Runner,         \* the thread of the pool that runs the timer's function
  None,
  MaxElapsed      \* bound: the pool runs the timer's function by then

ASSUME ConstantsAssumption ==
  /\ PacketLen \in [Packets -> Nat]
  /\ MaxTokens \in Nat /\ MaxPackets \in Nat /\ RedStart \in Nat
  /\ Rates \subseteq Nat /\ PerToken \in Nat \ {0}
  /\ Interval \in Nat \ {0} /\ MaxElapsed \in Nat /\ MaxElapsed >= Interval
  /\ TokenSpace \in Nat /\ TokenSpace > MaxTokens
  /\ Feeder # Runner /\ None \notin {Feeder, Runner}

Threads == {Feeder, Runner}

VARIABLES
  queue_, tokens_,
  dataRate_,    \* set before run()
  elapsed,      \* the clock, minus timerStart_
  diff,         \* run()'s diff
  mutex_,       \* who holds it from one step to the next, or None
  pc,           \* where each thread is
  excess        \* history: see Measured

vars == <<queue_, tokens_, dataRate_, elapsed, diff, mutex_, pc, excess>>

Init ==
  /\ queue_ = <<>>
  /\ tokens_ = 0
  /\ dataRate_ \in Rates
  /\ elapsed = 0
  /\ diff = 0
  /\ mutex_ = None
  /\ pc = [t \in Threads |-> IF t = Runner THEN "run" ELSE "idle"]
  /\ excess = 0

Goto(t, from, to) == pc[t] = from /\ pc' = [pc EXCEPT ![t] = to]
\* The time for which tokens will be added, and have not been yet.
Unpaid == IF pc[Runner] = "restart" THEN diff ELSE elapsed + diff

\* History.  Begin to count at any moment: what has left since, times PerToken,
\* exceeds dataRate_ times (the time gone by since, and the time Unpaid when the
\* count began) by at most "excess".  After a step the counts already begun
\* exceed it by "counted", one that begins now by what is Unpaid now.
Measured(counted) ==
  LET begun == -(dataRate_ * Unpaid')
  IN  excess' = IF counted > begun THEN counted ELSE begun

InQueue == {queue_[i] : i \in 1..Len(queue_)}

-----------------------------------------------------------------------------
\* run(): diff is one reading of the clock, the new timerStart_ another.
ReadClock ==
  /\ Goto(Runner, "run", "restart")
  /\ diff' = elapsed
  /\ UNCHANGED <<queue_, tokens_, dataRate_, elapsed, mutex_, excess>>

Restart ==
  /\ Goto(Runner, "restart", "add")
  /\ elapsed' = 0
  /\ UNCHANGED <<queue_, tokens_, dataRate_, diff, mutex_, excess>>

\* Mutant of run(): the tokens are not capped.
AddUncapped ==
  /\ Goto(Runner, "add", "trySend")
  /\ mutex_ = None
  /\ tokens_' = IF tokens_ < MaxTokens
                THEN (tokens_ + (dataRate_ * diff) \div PerToken) % TokenSpace
                ELSE tokens_
  /\ diff' = 0
  /\ UNCHANGED <<queue_, dataRate_, elapsed, mutex_>>
  /\ Measured(excess)

\* run(), first critical section.
Add ==
  /\ Goto(Runner, "add", "trySend")
  /\ mutex_ = None
  /\ LET sum == (tokens_ + (dataRate_ * diff) \div PerToken) % TokenSpace
     IN  tokens_' = IF tokens_ >= MaxTokens THEN tokens_
                    ELSE IF sum > MaxTokens THEN MaxTokens ELSE sum
  /\ diff' = 0
  /\ UNCHANGED <<queue_, dataRate_, elapsed, mutex_>>
  /\ Measured(excess)

\* Mutant of handlePacket(): the queue is not limited.
EnqueueUnlimited(p) ==
  /\ Goto(Feeder, "idle", "trySend")
  /\ mutex_ = None
  /\ p \notin InQueue
  /\ queue_' = Append(queue_, p)
  /\ UNCHANGED <<tokens_, dataRate_, elapsed, diff, mutex_, excess>>

\* Mutant of handlePacket(): the packet waits for the next run().
EnqueueOnly(p) ==
  /\ pc[Feeder] = "idle"
  /\ mutex_ = None
  /\ p \notin InQueue
  /\ Len(queue_) < MaxPackets
  /\ queue_' = Append(queue_, p)
  /\ UNCHANGED <<tokens_, dataRate_, elapsed, diff, mutex_, pc, excess>>

\* handlePacket(), first critical section.  Early detection divides integers:
\* its quotient is always 0, so only a random number of 0 drops the packet.  A
\* packet that is not queued is forgotten.
Enqueue(p) ==
  /\ Goto(Feeder, "idle", "trySend")
  /\ mutex_ = None
  /\ p \notin InQueue
  /\ \/ /\ Len(queue_) < MaxPackets
        /\ queue_' = Append(queue_, p)
     \/ /\ Len(queue_) >= MaxPackets \/ Len(queue_) >= RedStart
        /\ UNCHANGED queue_
  /\ UNCHANGED <<tokens_, dataRate_, elapsed, diff, mutex_, excess>>

\* trySend(): the mutex is held through the loop, and through next_.
TrySend(t) ==
  /\ Goto(t, "trySend", "sending")
  /\ mutex_ = None
  /\ mutex_' = t
  /\ UNCHANGED <<queue_, tokens_, dataRate_, elapsed, diff, excess>>

CanSend == queue_ # <<>> /\ PacketLen[Head(queue_)] <= tokens_

Send(t) ==
  /\ pc[t] = "sending"
  /\ CanSend
  /\ tokens_' = tokens_ - PacketLen[Head(queue_)]
  /\ queue_' = Tail(queue_)
  /\ UNCHANGED <<dataRate_, elapsed, diff, mutex_, pc>>
  /\ Measured(excess + PacketLen[Head(queue_)] * PerToken)

\* Mutant of run(): the timer is not started again.
EndSendNoTimer(t) ==
  /\ ~CanSend
  /\ Goto(t, "sending", "idle")
  /\ mutex_' = None
  /\ UNCHANGED <<queue_, tokens_, dataRate_, elapsed, diff, excess>>

\* run() ends by starting the timer, handlePacket() by returning.
EndSend(t) ==
  /\ ~CanSend
  /\ Goto(t, "sending", IF t = Runner THEN "timer" ELSE "idle")
  /\ mutex_' = None
  /\ UNCHANGED <<queue_, tokens_, dataRate_, elapsed, diff, excess>>

\* The timer's function calls run().  The timer was started after the clock
\* was read, so it fires no sooner than an Interval after that.
TimerFires ==
  /\ elapsed >= Interval
  /\ Goto(Runner, "timer", "run")
  /\ UNCHANGED <<queue_, tokens_, dataRate_, elapsed, diff, mutex_, excess>>

Tick ==
  /\ elapsed < MaxElapsed
  /\ elapsed' = elapsed + 1
  /\ UNCHANGED <<queue_, tokens_, dataRate_, diff, mutex_, pc>>
  /\ Measured(excess - dataRate_)

Run == ReadClock \/ Restart \/ Add \/ TimerFires

Next ==
  \/ Run
  \/ \E p \in Packets : Enqueue(p)
  \/ \E t \in Threads : TrySend(t) \/ Send(t) \/ EndSend(t)
  \/ Tick

Spec == Init /\ [][Next]_vars

\* Time passes, timers fire, threads go on; a mutex that is free again and
\* again is got in the end.
Fairness ==
  /\ WF_vars(Tick)
  /\ SF_vars(Run)
  /\ \A t \in Threads : SF_vars(TrySend(t)) /\ WF_vars(Send(t) \/ EndSend(t))

FairSpec == Spec /\ Fairness

-----------------------------------------------------------------------------
\* The state has its types, and no more packets wait than may.
TypeOK ==
  /\ queue_ \in Seq(Packets) /\ Len(queue_) <= MaxPackets
  /\ tokens_ \in 0..MaxTokens /\ dataRate_ \in Rates
  /\ elapsed \in 0..MaxElapsed /\ diff \in 0..MaxElapsed
  /\ mutex_ \in Threads \cup {None}
  /\ \A t \in Threads : (mutex_ = t) <=> (pc[t] = "sending")
  /\ pc \in [Threads -> {"idle", "run", "restart", "add", "trySend", "sending", "timer"}]
  /\ excess \in Int

\* The rate: over any span of time, no more leaves than a full bucket and what
\* the rate allows in that time, and in the time before it for which run() had not
\* yet added tokens.
RateConformance == excess <= MaxTokens * PerToken

\* No missed send: a packet that could leave never waits for the next timer.
NoMissedSend ==
  CanSend => \E t \in Threads : pc[t] \in {"trySend", "sending"}

\* The two ways in which the queue can be stuck: its head is longer than the
\* bucket, or what the slow rate brings between two calls of run() is less than
\* one token, and is cut off to 0.
Starved == dataRate_ * MaxElapsed < PerToken
Stuck == queue_ # <<>> /\ PacketLen[Head(queue_)] > (IF Starved THEN 0 ELSE MaxTokens)

\* Such a queue stays as it is for ever, whatever time and traffic bring ...
StuckForEver == [][Stuck => Stuck' /\ Head(queue_') = Head(queue_)]_vars

\* ... and where an interval brings a token, every packet that is queued leaves,
\* unless a packet that is longer than the bucket stands before it.
Fed(p) == p \in InQueue /\ dataRate_ * Interval >= PerToken
EventuallySent == \A p \in Packets : Fed(p) ~> p \notin InQueue \/ Stuck
=============================================================================
