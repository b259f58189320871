------------------------- MODULE StaticDelayProofs --------------------------
(* Proofs about StaticDelay for every set of packets, delay, setting of the   *)
(* local clock and bound: its invariants, and that its steps are those of the *)
(* outline by which Router knows it.                                          *)
EXTENDS StaticDelay, SequenceLemmas

(* The pump: either nothing is popped, and then the callback is registered or *)
(* about to be; or one packet is, and a timer has it.  Packets go through the *)
(* filter in the order in which they were queued.                             *)
Pump ==
  /\ \A i, j \in 1..Len(accepted) : accepted[i] = accepted[j] => i = j
  /\ \A i \in 1..Len(accepted) : accepted[i] \notin outside
  /\ Len(handled) <= Len(accepted)
  /\ Len(out) <= Len(handled)
  /\ \A i \in 1..Len(out) : out[i] = accepted[i]
  /\ \/ /\ timers = {} /\ Len(handled) = Len(out)
        /\ waiting <=> ~rearm
     \/ /\ ~waiting /\ ~rearm /\ Len(handled) = Len(out) + 1
        /\ \E due \in 0..MaxTime :
             timers = {[pkt |-> accepted[Len(handled)], due |-> due]}

(* A packet that has not been sent bears the local time of its arrival, by a  *)
(* clock that has been set once at most since.                                *)
Stamps ==
  /\ \A p \in Packets \ outside : arrivedAt[p] <= now /\ arrivedAt[p] <= LastArrival
  /\ \A p \in Packets \ (outside \cup InSeq(out)) :
       stamp[p] = arrivedAt[p] \/ stamp[p] = arrivedAt[p] + shift

(* The timers of packets that are held back, and the packets that were. *)
Early ==
  /\ \A t \in timers : t.due >= arrivedAt[t.pkt] + Delay - AtLeastZero(shift)
  /\ NotEarly

(* When the last packet was sent. *)
LastSent == IF out = <<>> THEN 0 ELSE sentAt[out[Len(out)]]

(* Packets are queued and sent one after the other. *)
Clocked ==
  /\ LastSent <= now
  /\ \A i \in 1..Len(accepted) : queuedAt[accepted[i]] <= now
  /\ \A i, j \in 1..Len(accepted) :
       i <= j => queuedAt[accepted[i]] <= queuedAt[accepted[j]]

(* If the threads keep up, the next packet is popped as soon as it is queued  *)
(* and the one before it is gone, and a timer fires when it expires ...       *)
Prompt ==
  punctual =>
    /\ rearm => now = LastSent
    /\ waiting /\ Len(handled) < Len(accepted) =>
         now \in {LastSent, queuedAt[accepted[Len(handled) + 1]]}
    /\ \A t \in timers : now <= t.due

(* ... at that moment, or once the packet has been in the router for Delay.   *)
Tight ==
  punctual /\ shift = 0 =>
    \A t \in timers :
      /\ t.due \in {queuedAt[t.pkt], LastSent, arrivedAt[t.pkt] + Delay}
      /\ queuedAt[t.pkt] <= t.due /\ LastSent <= t.due /\ arrivedAt[t.pkt] + Delay <= t.due

-----------------------------------------------------------------------------
\* The packet of the one timer there may be was popped last, and is sent next.
LEMMA TimerPacket ==
  ASSUME TypeOK, Pump, NEW t \in timers
  PROVE  /\ Len(handled) = Len(out) + 1 /\ Len(handled) \in 1..Len(accepted)
         /\ t.pkt = accepted[Len(handled)] /\ t.due \in 0..MaxTime
         /\ timers = {t} /\ timers \ {t} = {}
         /\ ~waiting /\ ~rearm
<1>1. /\ ~waiting /\ ~rearm /\ Len(handled) = Len(out) + 1
      /\ \E due \in 0..MaxTime :
           timers = {[pkt |-> accepted[Len(handled)], due |-> due]}
  BY DEF Pump
<1>2. PICK due \in 0..MaxTime : timers = {[pkt |-> accepted[Len(handled)], due |-> due]}
  BY <1>1
<1>3. t = [pkt |-> accepted[Len(handled)], due |-> due]
  BY <1>2
<1>4. Len(handled) \in 1..Len(accepted)
  BY <1>1 DEF TypeOK, Pump
<1> QED
  BY <1>1, <1>2, <1>3, <1>4

\* All times are integers.
LEMMA Times ==
  ASSUME TypeOK
  PROVE  /\ now \in Nat /\ shift \in Int /\ AtLeastZero(shift) \in Nat
         /\ Delay \in Nat /\ LastArrival \in Nat /\ MaxTime \in Nat
         /\ \A p \in Packets : arrivedAt[p] \in Nat /\ queuedAt[p] \in Nat /\ sentAt[p] \in Nat
         /\ \A t \in timers : t.pkt \in Packets /\ t.due \in Nat
<1>1. now \in Nat /\ shift \in Int /\ Delay \in Nat /\ LastArrival \in Nat /\ MaxTime \in Nat
  BY ConstantsAssumption DEF TypeOK
<1>2. AtLeastZero(shift) \in Nat
  BY <1>1 DEF AtLeastZero
<1>3. \A p \in Packets : arrivedAt[p] \in Nat /\ queuedAt[p] \in Nat /\ sentAt[p] \in Nat
  BY <1>1 DEF TypeOK
<1>4. \A t \in timers : t.pkt \in Packets /\ t.due \in Nat
  BY <1>1 DEF TypeOK
<1> QED
  BY <1>1, <1>2, <1>3, <1>4

\* What has been sent was queued, and what is to be sent has not been sent.
LEMMA SentPackets ==
  ASSUME TypeOK, Pump
  PROVE  /\ \A i \in 1..Len(out) : out[i] = accepted[i] /\ out[i] \in Packets \ outside
         /\ \A p \in InSeq(out) : p \in InSeq(accepted) /\ p \in Packets \ outside
         /\ \A i \in 1..Len(accepted) : i > Len(out) => accepted[i] \notin InSeq(out)
<1>1. Len(out) \in Nat /\ Len(accepted) \in Nat /\ Len(out) <= Len(accepted)
  BY DEF TypeOK, Pump
<1>2. \A i \in 1..Len(accepted) : accepted[i] \in Packets \ outside
  <2>1. accepted \in Seq(Packets)
    BY DEF TypeOK
  <2>2. \A i \in 1..Len(accepted) : accepted[i] \in Packets
    BY <2>1
  <2> QED
    BY <2>2 DEF Pump
<1>3. \A i \in 1..Len(out) : i \in 1..Len(accepted) /\ out[i] = accepted[i]
  BY <1>1 DEF Pump
<1>4. \A p \in InSeq(out) : p \in InSeq(accepted) /\ p \in Packets \ outside
  BY <1>2, <1>3 DEF InSeq
<1>5. ASSUME NEW i \in 1..Len(accepted), i > Len(out) PROVE accepted[i] \notin InSeq(out)
  <2>1. \A j \in 1..Len(out) : j # i /\ j \in 1..Len(accepted) /\ out[j] = accepted[j]
    BY <1>1, <1>3, <1>5
  <2> QED
    BY <2>1 DEF InSeq, Pump
<1> QED
  BY <1>2, <1>3, <1>4, <1>5

\* Appending a packet adds it to those in the sequence.
LEMMA InAppend ==
  ASSUME NEW s \in Seq(Packets), NEW p \in Packets
  PROVE  InSeq(Append(s, p)) = InSeq(s) \cup {p}
<1> DEFINE r == Append(s, p)
<1>1. \A x : (\E i \in 1..Len(r) : r[i] = x) <=> x = p \/ \E i \in 1..Len(s) : s[i] = x
  BY AppendElements
<1> HIDE DEF r
<1>2. InSeq(r) = InSeq(s) \cup {p}
  BY <1>1, Zenon DEF InSeq
<1> QED
  BY <1>2 DEF r

-----------------------------------------------------------------------------
\* At the start all is empty, and the callback is about to be registered.
LEMMA InvInit == Init =>
  TypeOK /\ Pump /\ Stamps /\ Early /\ Clocked /\ Prompt /\ Tight /\ DelaysDoNotAddUp
<1> SUFFICES ASSUME Init
             PROVE  /\ TypeOK /\ Pump /\ Stamps /\ Early
                    /\ Clocked /\ Prompt /\ Tight /\ DelaysDoNotAddUp
  OBVIOUS
<1> USE ConstantsAssumption DEF Init, Queue!Init
<1>1. TypeOK
  <2>1. <<>> \in Seq(Packets)
    OBVIOUS
  <2>2. now \in 0..MaxTime /\ shift \in Shifts \cup {0}
    OBVIOUS
  <2>3. /\ stamp \in [Packets -> Int] /\ arrivedAt \in [Packets -> 0..MaxTime]
        /\ queuedAt \in [Packets -> 0..MaxTime] /\ sentAt \in [Packets -> 0..MaxTime]
    OBVIOUS
  <2> QED
    BY <2>1, <2>2, <2>3 DEF TypeOK
<1>2. Pump
  BY DEF Pump
<1>3. Stamps
  BY DEF Stamps, InSeq
<1>4. Early
  BY DEF Early, NotEarly, InSeq
<1>5. Clocked /\ Prompt /\ Tight
  BY DEF Clocked, Prompt, Tight, LastSent
<1>6. DelaysDoNotAddUp
  BY DEF DelaysDoNotAddUp
<1> QED
  BY <1>1, <1>2, <1>3, <1>4, <1>5, <1>6

\* When the timer that popHandler() starts expires: now, or as soon as the packet
\* has been in the router for Delay by a clock that may have been set since.
LEMMA TimerDue ==
  ASSUME TypeOK, Pump, Stamps, PopHandler
  PROVE  LET p == accepted[Len(handled) + 1]
             due == now + AtLeastZero(Delay - (now + shift - stamp[p]))
         IN  /\ p \in Packets \ (outside \cup InSeq(out))
             /\ timers' = {[pkt |-> p, due |-> due]}
             /\ due \in now..MaxTime
             /\ due >= arrivedAt[p] + Delay - AtLeastZero(shift)
             /\ shift = 0 => due \in {now, arrivedAt[p] + Delay} /\ due >= arrivedAt[p] + Delay
<1> DEFINE p == accepted[Len(handled) + 1]
           due == now + AtLeastZero(Delay - (now + shift - stamp[p]))
<1>1. waiting /\ Len(handled) < Len(accepted) /\ Len(handled) = Len(out) /\ timers = {}
  BY DEF PopHandler, Queue!Handle, Pump
<1>2. p \in Packets \ (outside \cup InSeq(out))
  <2>1. Len(handled) + 1 \in 1..Len(accepted) /\ Len(handled) + 1 > Len(out)
    BY <1>1, SMTT(30) DEF TypeOK
  <2> QED
    BY <2>1, SentPackets, ElementOfSeq DEF TypeOK, Pump
<1>3. timers' = {[pkt |-> p, due |-> due]}
  BY <1>1 DEF PopHandler
<1>4. /\ arrivedAt[p] \in 0..LastArrival /\ arrivedAt[p] <= now
      /\ stamp[p] = arrivedAt[p] \/ stamp[p] = arrivedAt[p] + shift
      /\ stamp[p] \in Int /\ shift \in Int /\ now \in 0..MaxTime
      /\ Delay \in Nat /\ MaxTime \in Nat /\ LastArrival \in Nat
      /\ MaxTime >= LastArrival + Delay - shift /\ MaxTime >= LastArrival + Delay
  <2>1. /\ stamp \in [Packets -> Int] /\ arrivedAt \in [Packets -> 0..MaxTime]
        /\ now \in 0..MaxTime /\ shift \in Shifts \cup {0}
    BY DEF TypeOK
  <2>2. /\ arrivedAt[p] <= LastArrival /\ arrivedAt[p] <= now
        /\ stamp[p] = arrivedAt[p] \/ stamp[p] = arrivedAt[p] + shift
    BY <1>2 DEF Stamps
  <2>3. arrivedAt[p] \in 0..MaxTime /\ stamp[p] \in Int
    BY <1>2, <2>1
  <2> HIDE DEF p
  <2> QED
    BY <2>1, <2>2, <2>3, ConstantsAssumption
<1>5. /\ due \in now..MaxTime
      /\ due >= arrivedAt[p] + Delay - AtLeastZero(shift)
      /\ shift = 0 => due \in {now, arrivedAt[p] + Delay} /\ due >= arrivedAt[p] + Delay
  <2> HIDE DEF p
  <2> QED
    BY <1>4 DEF AtLeastZero
<1> QED
  BY <1>2, <1>3, <1>5

\* No step disturbs the types; popHandler()'s timer expires before MaxTime.
LEMMA TypeStep == TypeOK /\ Pump /\ Stamps /\ [Next]_vars => TypeOK'
<1> SUFFICES ASSUME TypeOK, Pump, Stamps, [Next]_vars PROVE TypeOK'
  OBVIOUS
<1> USE ConstantsAssumption DEF TypeOK, queueVars, history
<1>1. ASSUME NEW p \in Packets, Receive(p) PROVE TypeOK'
  <2>1. now + shift \in Int /\ now \in 0..MaxTime
    OBVIOUS
  <2> QED
    BY <1>1, <2>1 DEF Receive
<1>2. ASSUME NEW p \in Packets, HandlePacket(p) PROVE TypeOK'
  BY <1>2, SMTT(30) DEF HandlePacket, Queue!Accept
<1>3. ASSUME PopHandler PROVE TypeOK'
  <2>1. handled' \in Seq(Packets) /\ waiting' = FALSE
    BY <1>3 DEF PopHandler, Queue!Handle
  <2>2. PICK p \in Packets, due \in now..MaxTime : timers' = {[pkt |-> p, due |-> due]}
    BY <1>3, TimerDue
  <2>4. \A t \in timers' : t.pkt \in Packets /\ t.due \in 0..MaxTime
    BY <2>2
  <2>3. UNCHANGED <<now, shift, stamp, outside, accepted, closed, ended, rearm, out,
                    arrivedAt, queuedAt, sentAt, punctual>>
    BY <1>3 DEF PopHandler, Queue!Handle
  <2> QED
    BY <2>1, <2>3, <2>4
<1>4. ASSUME NEW t \in timers, Forward(t) PROVE TypeOK'
  <2>1. now + shift \in Int /\ now \in 0..MaxTime
    OBVIOUS
  <2> QED
    BY <1>4, <2>1 DEF Forward
<1>5. ASSUME Rearm PROVE TypeOK'
  BY <1>5 DEF Rearm, Queue!Register
<1>6. ASSUME Tick PROVE TypeOK'
  BY <1>6 DEF Tick
<1>7. ASSUME NEW s \in Shifts, SetClock(s) PROVE TypeOK'
  BY <1>7 DEF SetClock
<1>8. CASE UNCHANGED vars
  BY <1>8 DEF vars
<1> QED
  BY <1>1, <1>2, <1>3, <1>4, <1>5, <1>6, <1>7, <1>8 DEF Next

\* Every step leaves the pump in one of its two states: no packet overtakes
\* another, none is popped while a timer runs, and the callback is not lost.
LEMMA PumpStep == TypeOK /\ Pump /\ Stamps /\ [Next]_vars => Pump'
<1> SUFFICES ASSUME TypeOK, Pump, Stamps, [Next]_vars PROVE Pump'
  OBVIOUS
<1> USE ConstantsAssumption DEF queueVars, history
<1>1. ASSUME NEW p \in Packets, Receive(p) PROVE Pump'
  BY <1>1 DEF Receive, Pump
<1>2. ASSUME NEW p \in Packets, HandlePacket(p) PROVE Pump'
  <2>1. /\ accepted' = Append(accepted, p) /\ accepted \in Seq(Packets)
        /\ p \notin outside /\ \A i \in 1..Len(accepted) : accepted[i] # p
        /\ UNCHANGED <<handled, waiting, outside, timers, rearm, out>>
    BY <1>2 DEF HandlePacket, Queue!Accept, InSeq, TypeOK
  <2>2. /\ Len(accepted') = Len(accepted) + 1 /\ accepted'[Len(accepted) + 1] = p
        /\ \A i \in 1..Len(accepted) : accepted'[i] = accepted[i]
    BY <2>1
  <2>3. /\ Len(accepted) \in Nat /\ Len(handled) \in Nat /\ Len(out) \in Nat
    BY DEF TypeOK
  <2>4. /\ \A i, j \in 1..Len(accepted') : accepted'[i] = accepted'[j] => i = j
        /\ \A i \in 1..Len(accepted') : accepted'[i] \notin outside
        /\ \A i \in 1..Len(out) : out[i] = accepted'[i]
    BY <2>1, <2>2, <2>3 DEF Pump
  <2>5. Len(handled) > 0 => accepted'[Len(handled)] = accepted[Len(handled)]
    BY <2>2, <2>3 DEF Pump
  <2> QED
    BY <2>1, <2>2, <2>3, <2>4, <2>5, SMTT(30) DEF Pump
<1>3. ASSUME PopHandler PROVE Pump'
  <2>1. /\ Len(handled') = Len(handled) + 1 /\ waiting' = FALSE
        /\ UNCHANGED <<accepted, outside, rearm, out>>
        /\ waiting /\ Len(handled) < Len(accepted)
    BY <1>3 DEF PopHandler, Queue!Handle, TypeOK
  <2>2. \E due \in 0..MaxTime : timers' = {[pkt |-> accepted'[Len(handled')], due |-> due]}
    BY <1>3, <2>1, TimerDue DEF TypeOK
  <2> QED
    BY <2>1, <2>2 DEF Pump, TypeOK
<1>4. ASSUME NEW t \in timers, Forward(t) PROVE Pump'
  <2>1. /\ Len(handled) = Len(out) + 1 /\ timers' = {} /\ rearm' = TRUE
        /\ out' = Append(out, accepted[Len(handled)]) /\ ~waiting
        /\ UNCHANGED <<accepted, handled, waiting, outside>>
    BY <1>4, TimerPacket DEF Forward
  <2> QED
    BY <2>1 DEF Pump, TypeOK
<1>5. ASSUME Rearm PROVE Pump'
  BY <1>5 DEF Rearm, Queue!Register, Pump
<1>6. ASSUME Tick PROVE Pump'
  BY <1>6 DEF Tick, Pump
<1>7. ASSUME NEW s \in Shifts, SetClock(s) PROVE Pump'
  BY <1>7 DEF SetClock, Pump
<1>8. CASE UNCHANGED vars
  BY <1>8 DEF vars, Pump
<1> QED
  BY <1>1, <1>2, <1>3, <1>4, <1>5, <1>6, <1>7, <1>8 DEF Next

\* A stamp is written at arrival and when the packet is sent, and the clock is
\* set once.
LEMMA StampsStep == TypeOK /\ Pump /\ Stamps /\ [Next]_vars => Stamps'
<1> SUFFICES ASSUME TypeOK, Pump, Stamps, [Next]_vars PROVE Stamps'
  OBVIOUS
<1> USE ConstantsAssumption DEF TypeOK, queueVars, history, Stamps
<1>1. ASSUME NEW p \in Packets, Receive(p) PROVE Stamps'
  <2>1. /\ outside' = outside \ {p} /\ now <= LastArrival
        /\ stamp'[p] = now + shift /\ arrivedAt'[p] = now
        /\ \A q \in Packets \ {p} : stamp'[q] = stamp[q] /\ arrivedAt'[q] = arrivedAt[q]
        /\ UNCHANGED <<now, shift, out>>
    BY <1>1 DEF Receive
  <2>2. InSeq(out') = InSeq(out)
    BY <2>1
  <2>3. \A q \in Packets \ outside' : arrivedAt'[q] <= now' /\ arrivedAt'[q] <= LastArrival
    BY <2>1, SMTT(30)
  <2>4. ASSUME NEW q \in Packets \ (outside' \cup InSeq(out'))
        PROVE  stamp'[q] = arrivedAt'[q] \/ stamp'[q] = arrivedAt'[q] + shift'
    <3>1. CASE q = p
      BY <2>1, <3>1
    <3>2. CASE q # p
      BY <2>1, <2>2, <3>2
    <3> QED
      BY <3>1, <3>2
  <2> QED
    BY <2>3, <2>4
<1>2. ASSUME NEW p \in Packets, HandlePacket(p) PROVE Stamps'
  BY <1>2 DEF HandlePacket
<1>3. ASSUME PopHandler PROVE Stamps'
  BY <1>3 DEF PopHandler
<1>4. ASSUME NEW t \in timers, Forward(t) PROVE Stamps'
  <2>1. InSeq(out') = InSeq(out) \cup {t.pkt}
    BY <1>4, InAppend DEF Forward
  <2> QED
    BY <1>4, <2>1 DEF Forward
<1>5. ASSUME Rearm PROVE Stamps'
  BY <1>5 DEF Rearm
<1>6. ASSUME Tick PROVE Stamps'
  BY <1>6 DEF Tick
<1>7. ASSUME NEW s \in Shifts, SetClock(s) PROVE Stamps'
  BY <1>7 DEF SetClock
<1>8. CASE UNCHANGED vars
  BY <1>8 DEF vars
<1> QED
  BY <1>1, <1>2, <1>3, <1>4, <1>5, <1>6, <1>7, <1>8 DEF Next

-----------------------------------------------------------------------------
(* The types, the pump and the stamps hold together, for a timer's time of    *)
(* expiry is within MaxTime only because of the stamp it is computed from.    *)
Inv == TypeOK /\ Pump /\ Stamps

\* The three parts of Inv hold in every behaviour.
LEMMA InvSafe == Spec => []Inv
<1>1. Init => Inv
  BY InvInit DEF Inv
<1>2. Inv /\ [Next]_vars => Inv'
  BY TypeStep, PumpStep, StampsStep DEF Inv
<1> QED
  BY <1>1, <1>2, PTL DEF Spec

\* In every behaviour, the state keeps its types, and no timer is set to a time
\* that the clock does not reach.
THEOREM TypeCorrect == Spec => []TypeOK
BY InvSafe, PTL DEF Inv

\* What has been sent is what was queued first, in the same order: the filter
\* "promises no packet reordering".
LEMMA InOrder == TypeOK /\ Pump => NoReordering
<1> SUFFICES ASSUME TypeOK, Pump PROVE NoReordering
  OBVIOUS
<1>1. /\ Len(out) \in Nat /\ Len(out) <= Len(accepted)
      /\ \A i \in 1..Len(out) : out[i] = accepted[i]
  BY DEF TypeOK, Pump
<1>2. out \in Seq(Packets) /\ SubSeq(accepted, 1, Len(out)) \in Seq(Packets)
  BY <1>1 DEF TypeOK
<1>3. /\ Len(SubSeq(accepted, 1, Len(out))) = Len(out)
      /\ \A i \in 1..Len(out) : SubSeq(accepted, 1, Len(out))[i] = accepted[i]
  BY <1>1 DEF TypeOK
<1>4. out = SubSeq(accepted, 1, Len(out))
  BY <1>1, <1>2, <1>3, SeqEqual
<1> QED
  BY <1>1, <1>4 DEF NoReordering

\* Packets leave in the order in which they were queued, none twice and none
\* skipped, for any number of packets, any delay and any setting of the clock.
THEOREM NoReorderingSafe == Spec => []NoReordering
BY InvSafe, InOrder, PTL DEF Inv

-----------------------------------------------------------------------------
\* No timer is started to expire before its packet's time, and the time of what
\* was sent does not change any more.
LEMMA EarlyStep == Inv /\ Early /\ [Next]_vars => Early'
<1> SUFFICES ASSUME TypeOK, Pump, Stamps, Early, [Next]_vars PROVE Early'
  BY DEF Inv
<1> USE DEF queueVars, history, Early, NotEarly
<1>1. ASSUME NEW p \in Packets, Receive(p) PROVE Early'
  <2>1. /\ \A q \in Packets \ {p} : arrivedAt'[q] = arrivedAt[q]
        /\ UNCHANGED <<shift, timers, out, sentAt>> /\ p \in outside
    BY <1>1 DEF Receive
  <2>2. \A q \in InSeq(out) : q \in Packets /\ q # p
    BY <2>1, SentPackets
  <2>3. \A t \in timers : t.pkt \in Packets /\ t.pkt # p
    <3>1. ASSUME NEW t \in timers PROVE t.pkt \in Packets \ outside
      <4>1. t.pkt \in Packets /\ t.pkt = accepted[Len(handled)] /\ Len(handled) \in 1..Len(accepted)
        BY TimerPacket, Times
      <4> QED
        BY <4>1 DEF Pump
    <3> QED
      BY <2>1, <3>1
  <2>4. InSeq(out') = InSeq(out) /\ AtLeastZero(shift') = AtLeastZero(shift)
    BY <2>1
  <2> QED
    BY <2>1, <2>2, <2>3, <2>4
<1>2. ASSUME NEW p \in Packets, HandlePacket(p) PROVE Early'
  BY <1>2 DEF HandlePacket
<1>3. ASSUME PopHandler PROVE Early'
  <2>1. UNCHANGED <<shift, out, arrivedAt, sentAt>>
    BY <1>3 DEF PopHandler
  <2>2. PICK p \in Packets, due \in now..MaxTime :
          /\ timers' = {[pkt |-> p, due |-> due]}
          /\ due >= arrivedAt[p] + Delay - AtLeastZero(shift)
    BY <1>3, TimerDue
  <2>3. \A t \in timers' : t.pkt = p /\ t.due = due
    BY <2>2
  <2> QED
    BY <2>1, <2>2, <2>3
<1>4. ASSUME NEW t \in timers, Forward(t) PROVE Early'
  <2>1. /\ timers' = {} /\ now >= t.due /\ t.pkt \in Packets
        /\ t.pkt = accepted[Len(handled)] /\ out' = Append(out, t.pkt)
        /\ sentAt' = [sentAt EXCEPT ![t.pkt] = now]
        /\ UNCHANGED <<now, shift, arrivedAt>>
    BY <1>4, TimerPacket DEF TypeOK, Forward
  <2>2. InSeq(out') = InSeq(out) \cup {t.pkt}
    BY <2>1, InAppend DEF TypeOK
  <2>3. t.pkt \notin InSeq(out)
    <3>1. Len(handled) \in 1..Len(accepted) /\ Len(handled) > Len(out)
      BY TimerPacket
    <3> QED
      BY <2>1, <3>1, SentPackets
  <2>4. sentAt'[t.pkt] = now /\ \A q \in InSeq(out) : sentAt'[q] = sentAt[q]
    BY <2>1, <2>3, SentPackets DEF TypeOK
  <2>5. t.due >= arrivedAt[t.pkt] + Delay - AtLeastZero(shift)
    OBVIOUS
  <2>6. now >= arrivedAt[t.pkt] + Delay - AtLeastZero(shift)
    <3>1. arrivedAt[t.pkt] \in Int /\ t.due \in Int /\ now \in Int /\ AtLeastZero(shift) \in Int
      BY <2>1, Times
    <3> QED
      BY <2>1, <2>5, <3>1, ConstantsAssumption
  <2> QED
    BY <2>1, <2>2, <2>4, <2>6
<1>5. ASSUME Rearm PROVE Early'
  BY <1>5 DEF Rearm
<1>6. ASSUME Tick PROVE Early'
  BY <1>6 DEF Tick
<1>7. ASSUME NEW s \in Shifts, SetClock(s) PROVE Early'
  <2>1. AtLeastZero(shift) = 0 /\ AtLeastZero(s) \in Nat /\ shift' = s
    BY <1>7, ConstantsAssumption DEF SetClock, AtLeastZero
  <2>2. UNCHANGED <<timers, out, arrivedAt, sentAt>>
    BY <1>7 DEF SetClock
  <2>3. ASSUME NEW t \in timers PROVE t.due >= arrivedAt[t.pkt] + Delay - AtLeastZero(s)
    <3>1. arrivedAt[t.pkt] \in Int /\ t.due \in Int /\ t.due >= arrivedAt[t.pkt] + Delay - 0
      BY <2>1, Times
    <3> QED
      BY <2>1, <3>1, ConstantsAssumption
  <2>4. ASSUME NEW p \in InSeq(out) PROVE sentAt[p] >= arrivedAt[p] + Delay - AtLeastZero(s)
    <3>1. arrivedAt[p] \in Int /\ sentAt[p] \in Int /\ sentAt[p] >= arrivedAt[p] + Delay - 0
      BY <2>1, Times, SentPackets
    <3> QED
      BY <2>1, <3>1, ConstantsAssumption
  <2> QED
    BY <2>1, <2>2, <2>3, <2>4
<1>8. CASE UNCHANGED vars
  BY <1>8 DEF vars
<1> QED
  BY <1>1, <1>2, <1>3, <1>4, <1>5, <1>6, <1>7, <1>8 DEF Next

\* No packet leaves before it has been in the router for Delay, however long it
\* was on its way to the queue or in it; except, if the local clock is set forth
\* meanwhile, by as much as that.
THEOREM NotEarlySafe == Spec => []NotEarly
<1>1. Init => Early
  BY InvInit
<1>2. Early => NotEarly
  BY DEF Early
<1> QED
  BY <1>1, <1>2, InvSafe, EarlyStep, PTL DEF Spec

-----------------------------------------------------------------------------
\* LastSent is a time, and changes only when a packet is sent.
LEMMA LastSentChanges ==
  ASSUME TypeOK, Pump
  PROVE  /\ LastSent \in Nat
         /\ UNCHANGED <<out, sentAt>> => LastSent' = LastSent
         /\ \A t \in timers : Forward(t) => LastSent' = now
<1>1. LastSent \in Nat
  <2>1. CASE out = <<>>
    BY <2>1 DEF LastSent
  <2>2. CASE out # <<>>
    <3>1. out[Len(out)] \in Packets
      BY <2>2 DEF TypeOK
    <3> QED
      BY <2>2, <3>1, Times DEF LastSent
  <2> QED
    BY <2>1, <2>2
<1>2. UNCHANGED <<out, sentAt>> => LastSent' = LastSent
  BY DEF LastSent
<1>3. ASSUME NEW t \in timers, Forward(t) PROVE LastSent' = now
  <2>1. out \in Seq(Packets) /\ t.pkt \in Packets /\ sentAt \in [Packets -> 0..MaxTime]
    BY DEF TypeOK
  <2>2. out' = Append(out, t.pkt) /\ sentAt'[t.pkt] = now
    BY <1>3, <2>1 DEF Forward
  <2>3. out' # <<>> /\ out'[Len(out')] = t.pkt
    BY <2>1, <2>2
  <2> QED
    BY <2>2, <2>3 DEF LastSent
<1> QED
  BY <1>1, <1>2, <1>3

\* What handlePacket() does to the queue.
LEMMA Queued ==
  ASSUME TypeOK, Pump, NEW p \in Packets, HandlePacket(p)
  PROVE  /\ Len(accepted) \in Nat /\ Len(accepted') = Len(accepted) + 1
         /\ accepted'[Len(accepted) + 1] = p /\ queuedAt'[p] = now
         /\ \A i \in 1..Len(accepted) :
              accepted'[i] = accepted[i] /\ queuedAt'[accepted[i]] = queuedAt[accepted[i]]
         /\ UNCHANGED <<now, shift, handled, waiting, timers, rearm, out, arrivedAt, sentAt, punctual>>
<1>1. /\ accepted' = Append(accepted, p) /\ accepted \in Seq(Packets)
      /\ queuedAt' = [queuedAt EXCEPT ![p] = now] /\ queuedAt \in [Packets -> 0..MaxTime]
      /\ UNCHANGED <<now, shift, handled, waiting, timers, rearm, out, arrivedAt, sentAt, punctual>>
  BY DEF HandlePacket, Queue!Accept, TypeOK
<1>2. \A i \in 1..Len(accepted) : accepted[i] \in Packets /\ accepted[i] # p
  BY <1>1 DEF HandlePacket, InSeq
<1>3. \A i \in 1..Len(accepted) : queuedAt'[accepted[i]] = queuedAt[accepted[i]]
  BY <1>1, <1>2
<1> QED
  BY <1>1, <1>3

\* A packet is queued after those that are queued, and sent after those sent.
LEMMA ClockedStep == Inv /\ Clocked /\ [Next]_vars => Clocked'
<1> SUFFICES ASSUME TypeOK, Pump, Clocked, [Next]_vars PROVE Clocked'
  BY DEF Inv
<1> USE DEF queueVars, history
<1>1. ASSUME NEW p \in Packets, HandlePacket(p) PROVE Clocked'
  <2>1. LastSent' = LastSent
    BY <1>1, Queued, LastSentChanges
  <2>2. now \in Nat /\ \A i \in 1..Len(accepted) : queuedAt[accepted[i]] \in Nat
    <3>1. \A i \in 1..Len(accepted) : accepted[i] \in Packets
      BY DEF TypeOK
    <3> QED
      BY <3>1, Times
  <2>3. \A i \in 1..Len(accepted') :
          queuedAt'[accepted'[i]] = IF i = Len(accepted) + 1 THEN now ELSE queuedAt[accepted[i]]
    BY <1>1, Queued
  <2>4. \A i \in 1..Len(accepted') : i = Len(accepted) + 1 \/ i \in 1..Len(accepted)
    BY <1>1, Queued
  <2>5. \A i \in 1..Len(accepted') : queuedAt'[accepted'[i]] <= now
    BY <2>2, <2>3, <2>4 DEF Clocked
  <2>6. ASSUME NEW i \in 1..Len(accepted'), NEW j \in 1..Len(accepted'), i <= j
        PROVE  queuedAt'[accepted'[i]] <= queuedAt'[accepted'[j]]
    <3>1. CASE j = Len(accepted) + 1
      BY <2>3, <2>5, <3>1
    <3>2. CASE j # Len(accepted) + 1
      <4>1. j \in 1..Len(accepted) /\ i \in 1..Len(accepted) /\ i # Len(accepted) + 1
        BY <2>4, <2>6, <3>2, Queued, <1>1
      <4> QED
        BY <2>3, <2>6, <3>2, <4>1 DEF Clocked
    <3> QED
      BY <3>1, <3>2
  <2>7. now' = now
    BY <1>1, Queued
  <2> QED
    BY <2>1, <2>5, <2>6, <2>7 DEF Clocked
<1>2. ASSUME NEW t \in timers, Forward(t) PROVE Clocked'
  <2>1. LastSent' = now /\ UNCHANGED <<now, accepted, queuedAt>> /\ now \in Nat
    BY <1>2, LastSentChanges, Times DEF Forward
  <2> QED
    BY <2>1 DEF Clocked
<1>3. ASSUME Tick PROVE Clocked'
  <2>1. LastSent' = LastSent /\ LastSent \in Nat /\ now' = now + 1 /\ now \in Nat
        /\ UNCHANGED <<accepted, queuedAt>>
    BY <1>3, LastSentChanges, Times DEF Tick
  <2>2. \A i \in 1..Len(accepted) : queuedAt[accepted[i]] \in Nat
    BY Times DEF TypeOK
  <2> QED
    BY <2>1, <2>2 DEF Clocked
<1>4. ASSUME \/ \E p \in Packets : Receive(p)
             \/ PopHandler \/ Rearm
             \/ \E s \in Shifts : SetClock(s)
             \/ UNCHANGED vars
      PROVE  Clocked'
  <2>1. UNCHANGED <<now, accepted, queuedAt, out, sentAt>>
    BY <1>4 DEF Receive, PopHandler, Queue!Handle, Rearm, Queue!Register, SetClock, vars
  <2> QED
    BY <2>1, LastSentChanges DEF Clocked
<1> QED
  BY <1>1, <1>2, <1>3, <1>4 DEF Next

\* As long as no time passes while there is work to do, work is done at once.
LEMMA PromptStep == Inv /\ Clocked /\ Prompt /\ [Next]_vars => Prompt'
<1> SUFFICES ASSUME TypeOK, Pump, Stamps, Clocked, Prompt, [Next]_vars, punctual' PROVE Prompt'
  BY DEF Inv, Prompt
<1> USE DEF queueVars, history
<1>1. ASSUME NEW p \in Packets, HandlePacket(p) PROVE Prompt'
  <2>1. /\ LastSent' = LastSent
        /\ UNCHANGED <<now, handled, waiting, timers, rearm, punctual>>
    BY <1>1, Queued, LastSentChanges
  <2>2. ASSUME waiting, Len(handled) < Len(accepted')
        PROVE  now \in {LastSent, queuedAt'[accepted'[Len(handled) + 1]]}
    <3>1. CASE Len(handled) < Len(accepted)
      <4>1. Len(handled) + 1 \in 1..Len(accepted)
        BY <3>1 DEF TypeOK
      <4> QED
        BY <1>1, <2>1, <2>2, <3>1, <4>1, Queued DEF Prompt
    <3>2. CASE Len(handled) = Len(accepted)
      BY <1>1, <3>2, Queued
    <3> QED
      BY <3>1, <3>2 DEF Pump, TypeOK
  <2> QED
    BY <2>1, <2>2 DEF Prompt
<1>2. ASSUME PopHandler PROVE Prompt'
  <2>1. PICK p \in Packets, due \in now..MaxTime : timers' = {[pkt |-> p, due |-> due]}
    BY <1>2, TimerDue
  <2>2. \A t \in timers' : now <= t.due
    BY <2>1, Times
  <2>3. waiting /\ waiting' = FALSE /\ ~rearm /\ UNCHANGED <<now, rearm>>
    BY <1>2 DEF PopHandler, Queue!Handle, Pump
  <2> QED
    BY <2>2, <2>3 DEF Prompt
<1>3. ASSUME NEW t \in timers, Forward(t) PROVE Prompt'
  <2>1. LastSent' = now /\ ~waiting /\ timers' = {} /\ UNCHANGED <<now, waiting>>
    BY <1>3, LastSentChanges, TimerPacket DEF Forward
  <2> QED
    BY <2>1 DEF Prompt
<1>4. ASSUME Rearm PROVE Prompt'
  <2>1. /\ LastSent' = LastSent /\ rearm /\ rearm' = FALSE
        /\ UNCHANGED <<now, accepted, handled, timers, punctual>>
    BY <1>4, LastSentChanges DEF Rearm, Queue!Register
  <2> QED
    BY <2>1 DEF Prompt
<1>5. ASSUME Tick PROVE Prompt'
  <2>1. /\ punctual /\ ~Busy /\ now' = now + 1 /\ now \in Nat
        /\ UNCHANGED <<accepted, handled, waiting, rearm, timers>>
    BY <1>5, Times DEF Tick
  <2>2. ~rearm /\ ~(waiting /\ Len(handled) < Len(accepted))
    BY <2>1 DEF Busy, Pump
  <2>3. \A t \in timers : now + 1 <= t.due
    BY <2>1, Times DEF Busy, Prompt
  <2> QED
    BY <2>1, <2>2, <2>3 DEF Prompt
<1>6. ASSUME \/ \E p \in Packets : Receive(p)
             \/ \E s \in Shifts : SetClock(s)
             \/ UNCHANGED vars
      PROVE  Prompt'
  <2>1. UNCHANGED <<now, accepted, handled, waiting, rearm, timers, queuedAt, out, sentAt, punctual>>
    BY <1>6 DEF Receive, SetClock, vars
  <2> QED
    BY <2>1, LastSentChanges DEF Prompt
<1> QED
  BY <1>1, <1>2, <1>3, <1>4, <1>5, <1>6 DEF Next

\* If the threads keep up, a packet's timer expires at the latest of the times
\* at which it was queued, the one before it was sent and its delay is over.
LEMMA TightStep == Inv /\ Clocked /\ Prompt /\ Tight /\ [Next]_vars => Tight'
<1> SUFFICES ASSUME TypeOK, Pump, Stamps, Clocked, Prompt, Tight, [Next]_vars,
                    punctual', shift' = 0
             PROVE  Tight'
  BY DEF Inv, Tight
<1> USE DEF queueVars, history
<1>1. ASSUME NEW p \in Packets, Receive(p) PROVE Tight'
  <2>1. /\ \A q \in Packets \ {p} : arrivedAt'[q] = arrivedAt[q]
        /\ p \in outside /\ UNCHANGED <<shift, timers, out, queuedAt, sentAt, punctual>>
    BY <1>1 DEF Receive, TypeOK
  <2>2. ASSUME NEW t \in timers PROVE arrivedAt'[t.pkt] = arrivedAt[t.pkt]
    <3>1. t.pkt = accepted[Len(handled)] /\ Len(handled) \in 1..Len(accepted)
      BY TimerPacket
    <3>2. t.pkt \in Packets /\ t.pkt # p
      BY <2>1, <3>1 DEF TypeOK, Pump
    <3> QED
      BY <2>1, <3>2
  <2>3. LastSent' = LastSent
    BY <2>1, LastSentChanges
  <2> QED
    BY <2>1, <2>2, <2>3 DEF Tight
<1>2. ASSUME NEW p \in Packets, HandlePacket(p) PROVE Tight'
  <2>1. UNCHANGED <<shift, timers, out, arrivedAt, sentAt, punctual>>
    BY <1>2, Queued
  <2>2. ASSUME NEW t \in timers PROVE queuedAt'[t.pkt] = queuedAt[t.pkt]
    <3>1. t.pkt = accepted[Len(handled)] /\ Len(handled) \in 1..Len(accepted)
      BY TimerPacket
    <3>2. \A i \in 1..Len(accepted) : queuedAt'[accepted[i]] = queuedAt[accepted[i]]
      BY <1>2, Queued
    <3> QED
      BY <3>1, <3>2
  <2>3. LastSent' = LastSent
    BY <2>1, LastSentChanges
  <2> QED
    BY <2>1, <2>2, <2>3 DEF Tight
<1>3. ASSUME PopHandler PROVE Tight'
  <2>1. /\ waiting /\ Len(handled) < Len(accepted) /\ punctual /\ shift = 0
        /\ UNCHANGED <<now, out, arrivedAt, queuedAt, sentAt>>
    BY <1>3 DEF PopHandler, Queue!Handle
  <2> DEFINE p == accepted[Len(handled) + 1]
  <2>2. PICK due \in now..MaxTime :
          /\ timers' = {[pkt |-> p, due |-> due]}
          /\ due \in {now, arrivedAt[p] + Delay} /\ due >= arrivedAt[p] + Delay
    BY <1>3, <2>1, TimerDue
  <2>3. p \in Packets
    BY <1>3, TimerDue
  <2>4. now \in {LastSent, queuedAt[p]} /\ LastSent <= now
    BY <2>1 DEF Prompt, Clocked
  <2>5. queuedAt[p] <= now
    BY <2>1 DEF Clocked, TypeOK
  <2>6. LastSent' = LastSent /\ LastSent \in Nat
    BY <2>1, LastSentChanges
  <2>7. now \in Nat /\ queuedAt[p] \in Nat /\ arrivedAt[p] + Delay \in Nat /\ due \in Nat
    BY <2>3, Times
  <2>8. \A t \in timers' : t.pkt = p /\ t.due = due
    BY <2>2
  <2> HIDE DEF p
  <2>9. /\ due \in {queuedAt[p], LastSent, arrivedAt[p] + Delay}
        /\ queuedAt[p] <= due /\ LastSent <= due /\ arrivedAt[p] + Delay <= due
    BY <2>2, <2>4, <2>5, <2>6, <2>7
  <2> QED
    BY <2>1, <2>6, <2>8, <2>9 DEF Tight
<1>4. ASSUME NEW t \in timers, Forward(t) PROVE Tight'
  BY <1>4, TimerPacket DEF Forward, Tight
<1>5. ASSUME Rearm \/ Tick \/ (\E s \in Shifts : SetClock(s)) \/ UNCHANGED vars
      PROVE  Tight'
  <2>1. UNCHANGED <<timers, out, arrivedAt, queuedAt, sentAt>> /\ punctual /\ shift = 0
    BY <1>5 DEF Rearm, Tick, SetClock, vars
  <2> QED
    BY <2>1, LastSentChanges DEF Tight
<1> QED
  BY <1>1, <1>2, <1>3, <1>4, <1>5 DEF Next

\* A packet that is sent when its timer expires is not delayed by more than what
\* has delayed those before it.
LEMMA DelaysStep ==
  Inv /\ Clocked /\ Prompt /\ Tight /\ DelaysDoNotAddUp /\ [Next]_vars => DelaysDoNotAddUp'
<1> SUFFICES ASSUME TypeOK, Pump, Stamps, Clocked, Prompt, Tight, DelaysDoNotAddUp, [Next]_vars,
                    punctual', shift' = 0
             PROVE  DelaysDoNotAddUp'
  BY DEF Inv, DelaysDoNotAddUp
<1> USE DEF queueVars, history
<1>1. ASSUME NEW t \in timers, Forward(t) PROVE DelaysDoNotAddUp'
  <2> DEFINE n == Len(out)
             p == t.pkt
  <2>1. /\ n \in Nat /\ p \in Packets /\ out' = Append(out, p) /\ now >= t.due
        /\ sentAt' = [sentAt EXCEPT ![p] = now] /\ punctual /\ shift = 0
        /\ UNCHANGED <<arrivedAt, queuedAt, accepted>>
    BY <1>1, Times DEF Forward, TypeOK
  <2>2. /\ Len(out') = n + 1 /\ out'[n + 1] = p /\ \A i \in 1..n : out'[i] = out[i]
    BY <2>1 DEF TypeOK
  <2>3. p = accepted[n + 1] /\ n + 1 \in 1..Len(accepted)
    BY TimerPacket
  <2>4. \A i \in 1..n : out[i] \in Packets /\ out[i] # p
    BY <2>1, <2>3, SentPackets DEF InSeq, Pump
  <2>5. sentAt'[p] = now /\ \A i \in 1..n : sentAt'[out[i]] = sentAt[out[i]]
    BY <2>1, <2>4 DEF TypeOK
  <2>6. now = t.due
    BY <2>1, Times DEF Prompt
  <2>7. /\ now \in {queuedAt[p], LastSent, arrivedAt[p] + Delay}
        /\ queuedAt[p] <= now /\ LastSent <= now /\ arrivedAt[p] + Delay <= now
    BY <2>1, <2>6 DEF Tight
  <2>8. /\ now \in Nat /\ queuedAt[p] \in Nat /\ arrivedAt[p] + Delay \in Nat
        /\ \A i \in 1..n : /\ queuedAt[out[i]] \in Nat /\ sentAt[out[i]] \in Nat
                           /\ arrivedAt[out[i]] + Delay \in Nat
    <3>1. \A q \in Packets : /\ queuedAt[q] \in Nat /\ sentAt[q] \in Nat
                             /\ arrivedAt[q] + Delay \in Nat
      BY Times
    <3> QED
      BY <2>1, <2>4, <3>1, Times
  <2>9. \A i \in 1..n : /\ sentAt[out[i]] \in {queuedAt[out[i]]} \cup {arrivedAt[out[j]] + Delay : j \in 1..i}
                        /\ \A j \in 1..i : arrivedAt[out[j]] + Delay <= sentAt[out[i]]
                        /\ queuedAt[out[i]] <= sentAt[out[i]]
    BY <2>1 DEF DelaysDoNotAddUp
  <2>10. n > 0 => /\ LastSent = sentAt[out[n]] /\ n \in 1..n
                  /\ queuedAt[out[n]] <= queuedAt[p]
    <3> SUFFICES ASSUME n > 0 PROVE /\ LastSent = sentAt[out[n]] /\ n \in 1..n
                                    /\ queuedAt[out[n]] <= queuedAt[p]
      OBVIOUS
    <3>0. out # <<>> /\ Len(accepted) \in Nat
      BY DEF TypeOK
    <3>1. n \in 1..n /\ n \in 1..Len(accepted)
      BY <2>1, <2>3, <3>0
    <3>2. out[n] = accepted[n] /\ LastSent = sentAt[out[n]]
      BY <3>1 DEF LastSent, Pump
    <3>3. n <= n + 1
      BY <2>1
    <3> QED
      BY <2>3, <3>1, <3>2, <3>3 DEF Clocked
  <2>11. n = 0 => LastSent = 0
    BY DEF LastSent, TypeOK
  <2> HIDE DEF n, p
  <2>12. /\ now \in {queuedAt[p], arrivedAt[p] + Delay} \cup {arrivedAt[out[j]] + Delay : j \in 1..n}
         /\ \A j \in 1..n : arrivedAt[out[j]] + Delay <= now
    <3>1. CASE n = 0
      BY <2>7, <2>8, <2>11, <3>1
    <3>2. CASE n > 0
      <4>1. LastSent \in {queuedAt[out[n]]} \cup {arrivedAt[out[j]] + Delay : j \in 1..n}
        BY <2>9, <2>10, <3>2
      <4>2. \A j \in 1..n : arrivedAt[out[j]] + Delay <= LastSent
        BY <2>9, <2>10, <3>2
      <4>3. LastSent \in Nat
        BY <2>8, <2>10, <3>2
      <4>4. now = LastSent /\ LastSent = queuedAt[out[n]] => now = queuedAt[p]
        BY <2>7, <2>8, <2>10, <3>2
      <4>5. \A j \in 1..n : arrivedAt[out[j]] + Delay <= now
        BY <2>7, <2>8, <4>2, <4>3
      <4> QED
        BY <2>7, <4>1, <4>4, <4>5
    <3> QED
      BY <2>1, <3>1, <3>2
  <2>13. ASSUME NEW i \in 1..Len(out')
         PROVE  /\ sentAt'[out'[i]] \in {queuedAt'[out'[i]]} \cup {arrivedAt'[out'[j]] + Delay : j \in 1..i}
                /\ \A j \in 1..i : arrivedAt'[out'[j]] + Delay <= sentAt'[out'[i]]
                /\ queuedAt'[out'[i]] <= sentAt'[out'[i]]
    <3>1. CASE i = n + 1
      <4>1. /\ sentAt'[out'[i]] = now /\ queuedAt'[out'[i]] = queuedAt[p]
            /\ arrivedAt'[out'[i]] = arrivedAt[p] /\ i \in 1..i
            /\ \A j \in 1..i : j = i \/ j \in 1..n
            /\ \A j \in 1..n : j \in 1..i /\ arrivedAt'[out'[j]] = arrivedAt[out[j]]
        BY <2>1, <2>2, <2>5, <3>1
      <4> QED
        BY <2>7, <2>12, <4>1
    <3>2. CASE i \in 1..n
      <4>1. /\ sentAt'[out'[i]] = sentAt[out[i]] /\ queuedAt'[out'[i]] = queuedAt[out[i]]
            /\ \A j \in 1..i : arrivedAt'[out'[j]] = arrivedAt[out[j]]
        BY <2>1, <2>2, <2>5, <3>2
      <4> QED
        BY <2>9, <3>2, <4>1
    <3> QED
      BY <2>1, <2>2, <3>1, <3>2
  <2> QED
    BY <2>13 DEF DelaysDoNotAddUp
<1>2. ASSUME NEW p \in Packets, Receive(p) \/ HandlePacket(p) PROVE DelaysDoNotAddUp'
  <2>1. UNCHANGED <<shift, out, sentAt, punctual>>
    BY <1>2 DEF Receive, HandlePacket
  <2>2. \A i \in 1..Len(out) : out[i] \in Packets \ outside /\ out[i] \in InSeq(accepted)
    BY SentPackets DEF InSeq
  <2>3. \A i \in 1..Len(out) :
          arrivedAt'[out[i]] = arrivedAt[out[i]] /\ queuedAt'[out[i]] = queuedAt[out[i]]
    <3>1. \A q \in Packets \ {p} : arrivedAt'[q] = arrivedAt[q] /\ queuedAt'[q] = queuedAt[q]
      BY <1>2 DEF Receive, HandlePacket, TypeOK
    <3>2. p \in outside \/ (p \notin InSeq(accepted) /\ arrivedAt' = arrivedAt)
      BY <1>2 DEF Receive, HandlePacket
    <3> QED
      BY <2>2, <3>1, <3>2
  <2>4. ASSUME NEW i \in 1..Len(out')
        PROVE  /\ sentAt'[out'[i]] \in {queuedAt'[out'[i]]} \cup {arrivedAt'[out'[j]] + Delay : j \in 1..i}
               /\ \A b \in {queuedAt'[out'[i]]} \cup {arrivedAt'[out'[j]] + Delay : j \in 1..i} :
                    b <= sentAt'[out'[i]]
    <3>1. i \in 1..Len(out) /\ \A j \in 1..i : j \in 1..Len(out)
      BY <2>1 DEF TypeOK
    <3>2. {arrivedAt'[out'[j]] + Delay : j \in 1..i} = {arrivedAt[out[j]] + Delay : j \in 1..i}
      BY <2>1, <2>3, <3>1
    <3> QED
      BY <2>1, <2>3, <3>1, <3>2 DEF DelaysDoNotAddUp
  <2> QED
    BY <2>4 DEF DelaysDoNotAddUp
<1>3. ASSUME PopHandler \/ Rearm \/ Tick \/ (\E s \in Shifts : SetClock(s)) \/ UNCHANGED vars
      PROVE  DelaysDoNotAddUp'
  <2>1. UNCHANGED <<out, arrivedAt, queuedAt, sentAt>> /\ punctual /\ shift = 0
    BY <1>3 DEF PopHandler, Rearm, Tick, SetClock, vars
  <2> QED
    BY <2>1 DEF DelaysDoNotAddUp
<1> QED
  BY <1>1, <1>2, <1>3 DEF Next

\* Holding packets back one at a time, by a timer that is started only when the
\* packet before has been sent, adds no delay if the threads keep up.
THEOREM DelaysDoNotAddUpSafe == Spec => []DelaysDoNotAddUp
<1>1. Init => Clocked /\ Prompt /\ Tight /\ DelaysDoNotAddUp
  BY InvInit
<1> QED
  BY <1>1, InvSafe, ClockedStep, PromptStep, TightStep, DelaysStep, PTL DEF Spec

-----------------------------------------------------------------------------
(* The outline by which Router knows the filter. *)
\* The filter starts where its outline does, keeping nothing.
LEMMA OutlineInit == Init => Outline!Init
<1> SUFFICES ASSUME Init PROVE Outline!Init
  OBVIOUS
<1>1. accepted = <<>> /\ out = <<>>
  BY DEF Init, Queue!Init
<1>2. SubSeq(accepted, Len(out) + 1, Len(accepted)) = <<>>
  BY <1>1
<1> QED
  BY <1>1, <1>2 DEF Outline!Init

\* Every step of the filter is a step of its outline, or unseen by it.
LEMMA OutlineStep == Inv /\ [Next]_vars => [Outline!Next]_(Outline!vars)
<1> SUFFICES ASSUME TypeOK, Pump, [Next]_vars PROVE [Outline!Next]_(Outline!vars)
  BY DEF Inv
<1> USE DEF queueVars, history
<1>0. /\ accepted \in Seq(Packets) /\ out \in Seq(Packets)
      /\ Len(out) \in 0..Len(accepted) /\ Len(accepted) \in Nat
  BY DEF TypeOK, Pump
<1>1. ASSUME NEW p \in Packets, HandlePacket(p) PROVE Outline!Keep(p)
  <2>1. accepted' = Append(accepted, p) /\ UNCHANGED <<out, rearm>>
    BY <1>1 DEF HandlePacket, Queue!Accept
  <2>2. SubSeq(accepted', Len(out) + 1, Len(accepted'))
          = Append(SubSeq(accepted, Len(out) + 1, Len(accepted)), p)
    BY <1>0, <2>1, Remainder
  <2> QED
    BY <2>1, <2>2 DEF Outline!Keep
<1>2. ASSUME NEW t \in timers, Forward(t) PROVE Outline!PassOn
  <2>1. /\ Len(out) < Len(accepted) /\ t.pkt = accepted[Len(out) + 1] /\ ~rearm
        /\ t.pkt \in Packets
    BY <1>0, TimerPacket, Times
  <2>2. out' = Append(out, t.pkt) /\ rearm' = TRUE /\ UNCHANGED accepted
    BY <1>2 DEF Forward
  <2>3. out' # <<>> /\ Len(out') = Len(out) + 1 /\ out'[Len(out')] = t.pkt
    BY <1>0, <2>1, <2>2
  <2>4. /\ SubSeq(accepted, Len(out) + 1, Len(accepted)) # <<>>
        /\ Head(SubSeq(accepted, Len(out) + 1, Len(accepted))) = t.pkt
        /\ Tail(SubSeq(accepted, Len(out) + 1, Len(accepted)))
             = SubSeq(accepted', Len(out') + 1, Len(accepted'))
    <3>1. Len(out') + 1 = Len(out) + 2
      BY <1>0, <2>3
    <3> QED
      BY <1>0, <2>1, <2>2, <3>1, Remainder
  <2> QED
    BY <2>1, <2>2, <2>3, <2>4 DEF Outline!PassOn
<1>3. ASSUME Rearm PROVE Outline!Return \/ UNCHANGED Outline!vars
  <2>1. rearm /\ rearm' = FALSE /\ UNCHANGED <<accepted, out>>
    BY <1>3 DEF Rearm, Queue!Register
  <2> QED
    BY <2>1 DEF Outline!Return, Outline!vars
<1>4. ASSUME \/ \E p \in Packets : Receive(p)
             \/ PopHandler \/ Tick
             \/ \E s \in Shifts : SetClock(s)
             \/ UNCHANGED vars
      PROVE  UNCHANGED Outline!vars
  <2>1. UNCHANGED <<accepted, out, rearm>>
    BY <1>4 DEF Receive, PopHandler, Queue!Handle, Tick, SetClock, vars
  <2> QED
    BY <2>1 DEF Outline!vars
<1> QED
  BY <1>1, <1>2, <1>3, <1>4 DEF Next, Outline!Next

\* The safety half of Outlined: packets are kept and passed on in order, and no
\* packet is passed on while the call for the one before may last, although
\* every packet has a timer of its own and no lock prevents it.
THEOREM ImplementsOutline == Spec => Outline!Spec
BY InvSafe, OutlineInit, OutlineStep, PTL DEF Spec, Outline!Spec
=============================================================================
