------------------------- MODULE TokenBucketProofs -------------------------
(* Proofs about TokenBucket for every rate, size of bucket and queue, set of  *)
(* packets and interval: its types, and the rate.                             *)
EXTENDS TokenBucket, SequenceTheorems, TLAPS

\* What adding tokens may add: at least as much time has been spent on it, and
\* cutting off, or an overflow, only loses some.
LEMMA Tokens ==
  ASSUME NEW n \in Nat, NEW a \in Nat, NEW p \in Nat \ {0}, NEW s \in Nat \ {0}
  PROVE  /\ (n + a \div p) % s \in Nat
         /\ (n + a \div p) % s <= n + a \div p
         /\ ((n + a \div p) % s) * p <= n * p + a
<1> DEFINE q == a \div p
           m == (n + q) % s
<1>1. q \in Nat /\ q * p <= a
  OBVIOUS
<1>2. m \in Nat /\ m <= n + q
  <2>1. n + q \in Nat
    BY <1>1
  <2> HIDE DEF q
  <2> QED
    BY <2>1
<1>3. m * p <= n * p + a
  <2> HIDE DEF q, m
  <2>1. m * p <= (n + q) * p
    BY <1>1, <1>2
  <2> QED
    BY <1>1, <1>2, <2>1
<1> QED
  BY <1>2, <1>3

\* A multiple of more is more.
LEMMA Monotonic ==
  ASSUME NEW a \in Nat, NEW b \in Nat, NEW c \in Nat, a <= b
  PROVE  c * a <= c * b
OBVIOUS

\* The types of the constants.
LEMMA Constants ==
  /\ MaxTokens \in Nat /\ MaxPackets \in Nat /\ Rates \subseteq Nat
  /\ PerToken \in Nat \ {0} /\ MaxElapsed \in Nat /\ Interval \in Nat
  /\ TokenSpace \in Nat \ {0}
  /\ Threads = {Feeder, Runner} /\ Feeder # Runner /\ None \notin Threads
BY ConstantsAssumption DEF Threads

\* What waits for its tokens is a time, and the rate a number.
LEMMA UnpaidType == TypeOK => Unpaid \in Nat /\ dataRate_ \in Nat
BY Constants DEF TypeOK, Unpaid

\* The rate is set once.
LEMMA RateKept == [Next]_vars => dataRate_' = dataRate_
BY DEF Next, vars, Run, ReadClock, Restart, Add, TimerFires, Enqueue, TrySend, Send, EndSend, Tick

\* The history variable stays a number, at least "counted".
LEMMA MeasuredType ==
  ASSUME dataRate_ \in Nat, NEW counted \in Int, NEW u \in Nat, Unpaid' = u, Measured(counted)
  PROVE  /\ excess' \in Int
         /\ excess' = counted \/ excess' = -(dataRate_ * u)
<1>1. dataRate_ * u \in Nat
  BY Constants
<1>2. excess' = IF counted > -(dataRate_ * u) THEN counted ELSE -(dataRate_ * u)
  BY DEF Measured
<1> QED
  BY <1>1, <1>2

-----------------------------------------------------------------------------
\* At the start the state has its types.
LEMMA TypeInit == Init => TypeOK
BY Constants, EmptySeq DEF Init, TypeOK

\* The head of a queue that has one is a packet, and the rest a queue.
LEMMA QueueHead ==
  ASSUME TypeOK, CanSend
  PROVE  /\ Head(queue_) \in Packets
         /\ Tail(queue_) \in Seq(Packets)
         /\ Len(Tail(queue_)) <= MaxPackets
         /\ PacketLen[Head(queue_)] \in Nat
         /\ PacketLen[Head(queue_)] <= tokens_
<1>1. queue_ \in Seq(Packets) /\ queue_ # <<>>
  BY DEF TypeOK, CanSend
<1>2. Head(queue_) \in Packets /\ Tail(queue_) \in Seq(Packets)
      /\ Len(Tail(queue_)) = Len(queue_) - 1
  BY <1>1, HeadTailProperties
<1> QED
  BY <1>1, <1>2, ConstantsAssumption DEF TypeOK, CanSend

\* run() leaves no more tokens than the bucket holds, and adds no more than
\* the time it adds them for allows.
LEMMA AddTokens ==
  ASSUME TypeOK, Add
  PROVE  /\ tokens_' \in 0..MaxTokens
         /\ tokens_' * PerToken <= tokens_ * PerToken + dataRate_ * diff
<1> DEFINE sum == (tokens_ + (dataRate_ * diff) \div PerToken) % TokenSpace
<1>1. tokens_ \in Nat /\ tokens_ <= MaxTokens /\ diff \in Nat /\ dataRate_ \in Nat
  BY Constants DEF TypeOK
<1>2. dataRate_ * diff \in Nat
  BY <1>1, Constants
<1>3. sum \in Nat /\ sum * PerToken <= tokens_ * PerToken + dataRate_ * diff
  BY <1>1, <1>2, Constants, Tokens
<1>4. tokens_' = IF tokens_ >= MaxTokens THEN tokens_
                 ELSE IF sum > MaxTokens THEN MaxTokens ELSE sum
  BY DEF Add
<1> HIDE DEF sum
<1>5. CASE tokens_ >= MaxTokens
  BY <1>1, <1>2, <1>4, <1>5, Constants
<1>6. CASE tokens_ < MaxTokens /\ sum > MaxTokens
  <2>1. MaxTokens * PerToken <= sum * PerToken
    BY <1>3, <1>6, Constants
  <2> QED
    BY <1>1, <1>2, <1>3, <1>4, <1>6, <2>1, Constants
<1>7. CASE tokens_ < MaxTokens /\ ~(sum > MaxTokens)
  BY <1>1, <1>2, <1>3, <1>4, <1>7, Constants
<1> QED
  BY <1>1, <1>5, <1>6, <1>7, Constants

\* No step disturbs the types.
LEMMA TypeStep == TypeOK /\ [Next]_vars => TypeOK'
<1> SUFFICES ASSUME TypeOK, [Next]_vars PROVE TypeOK'
  OBVIOUS
<1> USE Constants DEF TypeOK, Goto
<1>r. dataRate_ \in Nat
  OBVIOUS
<1>1. CASE ReadClock
  BY <1>1 DEF ReadClock
<1>2. CASE Restart
  BY <1>2 DEF Restart
<1>3. CASE Add
  <2>1. tokens_' \in 0..MaxTokens
    BY <1>3, AddTokens
  <2>2. elapsed' = elapsed /\ diff' = 0 /\ pc' = [pc EXCEPT ![Runner] = "trySend"]
    BY <1>3 DEF Add
  <2>3. Unpaid' = elapsed
    BY <2>2 DEF Unpaid
  <2>4. excess' \in Int
    BY <1>3, <1>r, <2>3, MeasuredType DEF Add
  <2> QED
    BY <1>3, <2>1, <2>2, <2>4 DEF Add
<1>4. CASE TimerFires
  BY <1>4 DEF TimerFires
<1>5. ASSUME NEW p \in Packets, Enqueue(p) PROVE TypeOK'
  <2>1. queue_' \in Seq(Packets) /\ Len(queue_') <= MaxPackets
    <3>1. CASE Len(queue_) < MaxPackets /\ queue_' = Append(queue_, p)
      BY <3>1
    <3>2. CASE UNCHANGED queue_
      BY <3>2
    <3> QED
      BY <1>5, <3>1, <3>2 DEF Enqueue
  <2> QED
    BY <1>5, <2>1 DEF Enqueue
<1>6. ASSUME NEW t \in Threads, TrySend(t) PROVE TypeOK'
  BY <1>6 DEF TrySend
<1>7. ASSUME NEW t \in Threads, Send(t) PROVE TypeOK'
  <2>1. PICK u \in Nat : u = Unpaid
    BY UnpaidType
  <2>5. Unpaid' = u
    BY <1>7, <2>1 DEF Send, Unpaid
  <2>2. CanSend
    BY <1>7 DEF Send
  <2>3. excess + PacketLen[Head(queue_)] * PerToken \in Int
    BY <2>2, QueueHead
  <2>4. excess' \in Int
    BY <1>7, <1>r, <2>5, <2>3, MeasuredType DEF Send
  <2>6. tokens_' \in 0..MaxTokens
    <3>1. PICK len \in Nat : len = PacketLen[Head(queue_)] /\ len <= tokens_
      BY <2>2, QueueHead
    <3>2. tokens_' = tokens_ - len
      BY <1>7, <3>1 DEF Send
    <3>3. tokens_ \in 0..MaxTokens
      BY DEF TypeOK
    <3> QED
      BY <3>1, <3>2, <3>3, Constants
  <2>7. queue_' \in Seq(Packets) /\ Len(queue_') <= MaxPackets
    BY <1>7, <2>2, QueueHead DEF Send
  <2> QED
    BY <1>7, <2>4, <2>6, <2>7 DEF Send
<1>8. ASSUME NEW t \in Threads, EndSend(t) PROVE TypeOK'
  BY <1>8 DEF EndSend
<1>9. CASE Tick
  <2>1. Unpaid' \in Nat
    BY <1>9 DEF Tick, Unpaid
  <2>2. excess - dataRate_ \in Int
    BY <1>r
  <2>3. excess' \in Int
    BY <1>9, <1>r, <2>1, <2>2, MeasuredType DEF Tick
  <2> QED
    BY <1>9, <2>3 DEF Tick
<1>10. CASE UNCHANGED vars
  BY <1>10 DEF vars
<1> QED
  BY <1>1, <1>2, <1>3, <1>4, <1>5, <1>6, <1>7, <1>8, <1>9, <1>10 DEF Next, Run

\* In every behaviour the state has its types.
THEOREM TypeCorrect == Spec => []TypeOK
BY TypeInit, TypeStep, PTL DEF Spec

-----------------------------------------------------------------------------
\* The inductive invariant of the rate: what has left too much, what may leave
\* at once, and what the time not yet paid for will bring, fit in one bucket.
Budget == excess + tokens_ * PerToken + dataRate_ * Unpaid <= MaxTokens * PerToken

\* At the start the bucket is empty and no time has passed.
LEMMA BudgetInit == Init => Budget
<1> SUFFICES ASSUME Init PROVE Budget
  OBVIOUS
<1>1. Unpaid = 0
  BY DEF Init, Unpaid
<1>2. 0 <= MaxTokens * PerToken
  BY Constants
<1> QED
  BY <1>1, <1>2, Constants DEF Init, Budget

\* A count of what leaves keeps within the budget if the counts already begun
\* do: one that begins now has a bucketful at most.
LEMMA BudgetMeasured ==
  ASSUME dataRate_ \in Nat, dataRate_' = dataRate_, NEW counted \in Int, NEW u \in Nat, NEW n \in 0..MaxTokens,
         Unpaid' = u, tokens_' = n, Measured(counted),
         counted + n * PerToken + dataRate_ * u <= MaxTokens * PerToken
  PROVE  Budget'
<1>1. dataRate_ * u \in Nat /\ n * PerToken \in Nat /\ MaxTokens * PerToken \in Nat
  BY Constants
<1>2. n * PerToken <= MaxTokens * PerToken
  BY Constants
<1>3. excess' = counted \/ excess' = -(dataRate_ * u)
  BY MeasuredType
<1>4. excess' + n * PerToken + dataRate_ * u <= MaxTokens * PerToken
  BY <1>1, <1>2, <1>3
<1> QED
  BY <1>4 DEF Budget

\* No step overdraws the budget.
LEMMA BudgetStep == TypeOK /\ Budget /\ [Next]_vars => Budget'
<1> SUFFICES ASSUME TypeOK, Budget, [Next]_vars PROVE Budget'
  OBVIOUS
<1> USE Constants
<1>u. PICK u \in Nat : u = Unpaid
  BY UnpaidType
<1>r. dataRate_ \in Nat /\ dataRate_' = dataRate_
  BY UnpaidType, RateKept
<1>b. excess + tokens_ * PerToken + dataRate_ * u <= MaxTokens * PerToken
  BY <1>u DEF Budget
<1>t. /\ excess \in Int /\ tokens_ \in 0..MaxTokens
      /\ elapsed \in Nat /\ diff \in Nat /\ DOMAIN pc = Threads
      /\ pc = [t \in Threads |-> pc[t]]
  BY DEF TypeOK
\* As long as less time is to be paid for, and nothing else changes.
<1>s. ASSUME NEW v \in Nat, v <= u, Unpaid' = v, UNCHANGED <<tokens_, excess>>
      PROVE  Budget'
  <2>1. dataRate_ * v <= dataRate_ * u
    BY <1>r, <1>s
  <2>2. excess + tokens_ * PerToken + dataRate_ * v <= MaxTokens * PerToken
    BY <1>r, <1>b, <1>t, <2>1
  <2> QED
    BY <1>r, <1>s, <2>2 DEF Budget
<1>1. CASE ReadClock
  BY <1>1, <1>s, <1>t, <1>u DEF ReadClock, Goto, Unpaid
<1>2. CASE Restart
  BY <1>2, <1>s, <1>t, <1>u DEF Restart, Goto, Unpaid
<1>3. CASE Add
  <2>1. pc[Runner] = "add" /\ pc'[Runner] = "trySend" /\ diff' = 0 /\ elapsed' = elapsed
    BY <1>3, <1>t DEF Add, Goto
  <2>2. u = elapsed + diff /\ Unpaid' = elapsed
    BY <1>t, <1>u, <2>1 DEF Unpaid
  <2>3. PICK n \in 0..MaxTokens : n = tokens_'
    BY <1>3, AddTokens
  <2>4. n * PerToken <= tokens_ * PerToken + dataRate_ * diff
    BY <1>3, <2>3, AddTokens
  <2>5. dataRate_ * u = dataRate_ * elapsed + dataRate_ * diff
    BY <1>r, <1>t, <2>2
  <2>6. excess + n * PerToken + dataRate_ * elapsed <= MaxTokens * PerToken
    BY <1>r, <1>b, <1>t, <2>4, <2>5
  <2>7. Measured(excess)
    BY <1>3 DEF Add
  <2> QED
    BY <1>r, <1>t, <2>2, <2>3, <2>6, <2>7, BudgetMeasured
<1>4. CASE TimerFires
  BY <1>4, <1>s, <1>t, <1>u DEF TimerFires, Goto, Unpaid
<1>5. ASSUME NEW p \in Packets, Enqueue(p) PROVE Budget'
  <2>1. pc' = [pc EXCEPT ![Feeder] = "trySend"] /\ UNCHANGED <<tokens_, elapsed, diff, excess>>
    BY <1>5 DEF Enqueue, Goto
  <2>2. Unpaid' = u
    BY <1>t, <1>u, <2>1 DEF Unpaid
  <2> QED
    BY <1>s, <2>1, <2>2
<1>6. ASSUME NEW t \in Threads, TrySend(t) PROVE Budget'
  BY <1>6, <1>s, <1>t, <1>u DEF TrySend, Goto, Unpaid
<1>7. ASSUME NEW t \in Threads, Send(t) PROVE Budget'
  <2>1. PICK len \in Nat : len = PacketLen[Head(queue_)] /\ len <= tokens_
    BY <1>7, QueueHead DEF Send
  <2>2. tokens_' = tokens_ - len /\ Measured(excess + len * PerToken) /\ Unpaid' = u
    BY <1>7, <1>u, <2>1 DEF Send, Unpaid
  <2>3. tokens_ - len \in 0..MaxTokens
    BY <1>t, <2>1
  <2>4. (tokens_ - len) * PerToken = tokens_ * PerToken - len * PerToken
    BY <1>t
  <2>5. excess + len * PerToken + (tokens_ - len) * PerToken + dataRate_ * u <= MaxTokens * PerToken
    BY <1>b, <1>t, <2>4
  <2>6. excess + len * PerToken \in Int
    BY <1>t
  <2> QED
    BY <1>r, <2>2, <2>3, <2>5, <2>6, BudgetMeasured
<1>8. ASSUME NEW t \in Threads, EndSend(t) PROVE Budget'
  BY <1>8, <1>s, <1>t, <1>u DEF EndSend, Goto, Unpaid
<1>9. CASE Tick
  <2>1. PICK v \in Nat : v = Unpaid' /\ v <= u + 1
    BY <1>9, <1>t, <1>u DEF Tick, Unpaid
  <2>2. dataRate_ * v <= dataRate_ * u + dataRate_
    <3>1. dataRate_ * v <= dataRate_ * (u + 1)
      BY <1>r, <2>1, u + 1 \in Nat, Monotonic
    <3>2. dataRate_ * (u + 1) = dataRate_ * u + dataRate_
      BY <1>r
    <3> QED
      BY <3>1, <3>2
  <2>3. (excess - dataRate_) + tokens_ * PerToken + dataRate_ * v <= MaxTokens * PerToken
    BY <1>r, <1>b, <1>t, <2>2
  <2>4. excess - dataRate_ \in Int /\ Measured(excess - dataRate_) /\ tokens_' = tokens_
    BY <1>r, <1>9, <1>t DEF Tick
  <2> QED
    BY <1>r, <1>t, <2>1, <2>3, <2>4, BudgetMeasured
<1>10. CASE UNCHANGED vars
  BY <1>10, <1>s, <1>u DEF vars, Unpaid
<1> QED
  BY <1>1, <1>2, <1>3, <1>4, <1>5, <1>6, <1>7, <1>8, <1>9, <1>10 DEF Next, Run

\* The rate: in every behaviour, and over every span of time, no more leaves
\* than a full bucket and what the rate allows.
THEOREM RateSafe == Spec => []RateConformance
<1>1. TypeOK /\ Budget => RateConformance
  <2> SUFFICES ASSUME TypeOK, Budget PROVE RateConformance
    OBVIOUS
  <2>1. PICK u \in Nat : u = Unpaid
    BY UnpaidType
  <2>2. excess \in Int /\ tokens_ * PerToken \in Nat /\ dataRate_ * u \in Nat
    BY Constants DEF TypeOK
  <2>3. excess + tokens_ * PerToken + dataRate_ * u <= MaxTokens * PerToken
    BY <2>1 DEF Budget
  <2> QED
    BY <2>2, <2>3, Constants DEF RateConformance
<1> QED
  BY <1>1, TypeInit, TypeStep, BudgetInit, BudgetStep, PTL DEF Spec

-----------------------------------------------------------------------------
\* What a rate that is too slow leaves behind.
NoToken == Starved => tokens_ = 0

\* Less than one token is none.
LEMMA CutOff ==
  ASSUME NEW a \in Nat, NEW p \in Nat \ {0}, NEW s \in Nat \ {0}, a < p
  PROVE  (0 + a \div p) % s = 0
<1>1. a \div p = 0
  OBVIOUS
<1> QED
  BY <1>1

\* The bucket of such a filter stays empty.
LEMMA NoTokenStep == TypeOK /\ NoToken /\ [Next]_vars => NoToken'
<1> SUFFICES ASSUME TypeOK, NoToken, [Next]_vars, Starved PROVE tokens_' = 0
  BY RateKept DEF NoToken, Starved
<1>0. tokens_ = 0 /\ dataRate_ \in Nat /\ diff \in 0..MaxElapsed
  BY UnpaidType DEF NoToken, TypeOK
<1>1. CASE Add
  <2>1. dataRate_ * diff \in Nat /\ dataRate_ * diff <= dataRate_ * MaxElapsed
    BY <1>0, Constants, Monotonic
  <2>2. dataRate_ * MaxElapsed \in Nat /\ dataRate_ * MaxElapsed < PerToken
    BY <1>0, Constants DEF Starved
  <2>3. dataRate_ * diff < PerToken
    <3> DEFINE d == dataRate_ * diff
               e == dataRate_ * MaxElapsed
    <3>1. d \in Nat /\ e \in Nat /\ d <= e /\ e < PerToken
      BY <2>1, <2>2
    <3> HIDE DEF d, e
    <3>2. d < PerToken
      BY <3>1, Constants
    <3> QED
      BY <3>2 DEF d
  <2>4. (tokens_ + (dataRate_ * diff) \div PerToken) % TokenSpace = 0
    BY <1>0, <2>1, <2>3, CutOff, Constants
  <2> QED
    BY <1>0, <1>1, <2>4, Constants DEF Add
<1>2. ASSUME NEW t \in Threads, Send(t) PROVE tokens_' = 0
  BY <1>0, <1>2, QueueHead DEF Send
<1>3. CASE UNCHANGED tokens_
  BY <1>0, <1>3
<1> QED
  BY <1>1, <1>2, <1>3
  DEF Next, vars, Run, ReadClock, Restart, TimerFires, Enqueue, TrySend, EndSend, Tick

\* No step moves the head of a queue that is stuck: only Send could, and it has not the tokens.
LEMMA StuckStep ==
  TypeOK /\ NoToken /\ [Next]_vars => (Stuck => Stuck' /\ Head(queue_') = Head(queue_))
<1> SUFFICES ASSUME TypeOK, NoToken, [Next]_vars, Stuck
             PROVE  Stuck' /\ Head(queue_') = Head(queue_)
  OBVIOUS
<1>1. queue_ \in Seq(Packets) /\ queue_ # <<>> /\ tokens_ \in 0..MaxTokens
  BY DEF TypeOK, Stuck
<1>2. SUFFICES queue_' # <<>> /\ Head(queue_') = Head(queue_)
  BY RateKept DEF Stuck, Starved
<1>3. ~CanSend
  <2> SUFFICES ASSUME CanSend PROVE FALSE
    OBVIOUS
  <2>1. PacketLen[Head(queue_)] \in Nat /\ PacketLen[Head(queue_)] <= tokens_
    BY QueueHead
  <2> QED
    BY <1>1, <2>1, Constants DEF Stuck, NoToken
<1>4. ASSUME NEW p \in Packets, Enqueue(p)
      PROVE  queue_' # <<>> /\ Head(queue_') = Head(queue_)
  <2>1. queue_' = queue_ \/ queue_' = Append(queue_, p)
    BY <1>4 DEF Enqueue
  <2> QED
    BY <1>1, <2>1
<1>5. CASE UNCHANGED queue_
  BY <1>1, <1>5
<1> QED
  BY <1>3, <1>4, <1>5
  DEF Next, vars, Run, ReadClock, Restart, Add, TimerFires, TrySend, Send, EndSend, Tick

\* A packet longer than the bucket, or any packet at a rate too slow for a token
\* between two calls of run(), stays at the head of the queue for ever.
THEOREM StuckSafe == Spec => StuckForEver
<1>1. Init => NoToken
  BY DEF Init, NoToken
<1> QED
  BY <1>1, TypeInit, TypeStep, NoTokenStep, StuckStep, PTL DEF Spec, StuckForEver

-----------------------------------------------------------------------------
\* Whoever makes a send possible looks for it afterwards, and a thread that
\* stops looking has seen that there is none.
LEMMA NoMissedStep == TypeOK /\ NoMissedSend /\ [Next]_vars => NoMissedSend'
<1> SUFFICES ASSUME TypeOK, NoMissedSend, [Next]_vars, CanSend'
             PROVE  \E t \in Threads : pc'[t] \in {"trySend", "sending"}
  BY DEF NoMissedSend
<1>t. pc = [t \in Threads |-> pc[t]] /\ Runner \in Threads /\ Feeder \in Threads
  BY Constants DEF TypeOK
\* A step of a thread elsewhere, if there was a send before.
<1>s. ASSUME NEW t \in Threads, pc[t] \notin {"trySend", "sending"}, NEW to,
             pc' = [pc EXCEPT ![t] = to], UNCHANGED <<queue_, tokens_>>
      PROVE  \E u \in Threads : pc'[u] \in {"trySend", "sending"}
  <2>1. CanSend
    BY <1>s DEF CanSend
  <2>2. PICK u \in Threads : pc[u] \in {"trySend", "sending"}
    BY <2>1 DEF NoMissedSend
  <2> QED
    BY <1>s, <1>t, <2>2
<1>1. CASE ReadClock
  BY <1>1, <1>s, <1>t DEF ReadClock, Goto
<1>2. CASE Restart
  BY <1>2, <1>s, <1>t DEF Restart, Goto
<1>3. CASE Add
  BY <1>3, <1>t DEF Add, Goto
<1>4. CASE TimerFires
  BY <1>4, <1>s, <1>t DEF TimerFires, Goto
<1>5. ASSUME NEW p \in Packets, Enqueue(p)
      PROVE  \E t \in Threads : pc'[t] \in {"trySend", "sending"}
  BY <1>5, <1>t DEF Enqueue, Goto
<1>6. ASSUME NEW t \in Threads, TrySend(t)
      PROVE  \E u \in Threads : pc'[u] \in {"trySend", "sending"}
  BY <1>6, <1>t DEF TrySend, Goto
<1>7. ASSUME NEW t \in Threads, Send(t)
      PROVE  \E u \in Threads : pc'[u] \in {"trySend", "sending"}
  BY <1>7 DEF Send
<1>8. ASSUME NEW t \in Threads, EndSend(t) PROVE FALSE
  BY <1>8 DEF EndSend, CanSend
<1>9. CASE Tick \/ UNCHANGED vars
  <2>1. UNCHANGED <<queue_, tokens_, pc>>
    BY <1>9 DEF Tick, vars
  <2>2. CanSend
    BY <2>1 DEF CanSend
  <2> QED
    BY <2>1, <2>2 DEF NoMissedSend
<1> QED
  BY <1>1, <1>2, <1>3, <1>4, <1>5, <1>6, <1>7, <1>8, <1>9 DEF Next, Run

\* A packet for which there are tokens never waits for the next timer.
THEOREM NoMissedSendSafe == Spec => []NoMissedSend
<1>1. Init => NoMissedSend
  BY DEF Init, NoMissedSend, CanSend
<1> QED
  BY <1>1, TypeInit, TypeStep, NoMissedStep, PTL DEF Spec
=============================================================================
