---------------------------- MODULE BurstProofs -----------------------------
(* Proofs about Burst for every set of packets and callers and every length   *)
(* of the two periods: its invariants, and that its steps are those of the    *)
(* outline by which Router knows it.                                          *)
EXTENDS Burst, SequenceLemmas

(* Where init()'s loop is: it has sent nothing before it is entered, and all  *)
(* of the queue when it is left.                                              *)
Loop ==
  /\ phase = "clear" => next = Len(queue_)
  /\ MutexFree => next = 0

(* No packet is in two places ... *)
Apart ==
  /\ \A i, j \in 1..Len(queue_) : queue_[i] = queue_[j] => i = j
  /\ \A i, j \in 1..Len(out) : out[i] = out[j] => i = j
  /\ \A i \in 1..Len(queue_), j \in 1..Len(out) : i > next => queue_[i] # out[j]
  /\ \A i \in 1..Len(queue_) : queue_[i] \notin outside
  /\ \A i \in 1..Len(out) : out[i] \notin outside
  /\ \A c, d \in Callers : carried[c] = carried[d] /\ carried[c] # None => c = d
  /\ \A c \in Callers : /\ carried[c] \notin outside
                        /\ \A i \in 1..Len(queue_) : carried[c] # queue_[i]
                        /\ \A i \in 1..Len(out) : carried[c] # out[i]

(* ... and every packet is somewhere. *)
Somewhere ==
  \A p \in Packets :
    \/ p \in outside
    \/ \E c \in Callers : carried[c] = p
    \/ \E i \in 1..Len(queue_) : i > next /\ queue_[i] = p
    \/ \E i \in 1..Len(out) : out[i] = p

(* The timer runs for the time of the period, and not while init() does. *)
Timer ==
  /\ left <= IF sleeping_ THEN SleepDur ELSE BurstDur
  /\ phase # "timer" => left = 0

(* If the threads keep up, no time passes while a packet is with a caller, and *)
(* one in the queue has come after the last burst was sent.                    *)
Ages ==
  /\ \A p \in outside : age[p] = 0
  /\ punctual =>
       /\ \A c \in Callers : carried[c] # None => age[carried[c]] = 0
       /\ \A i \in 1..Len(queue_) :
            i > next =>
              age[queue_[i]] + left <= SleepDur + (IF sleeping_ THEN 0 ELSE BurstDur)

-----------------------------------------------------------------------------
\* At the start, every packet is outside.
LEMMA InvInit == Init => TypeOK /\ Loop /\ Apart /\ Somewhere /\ Timer /\ Ages
<1> SUFFICES ASSUME Init PROVE TypeOK /\ Loop /\ Apart /\ Somewhere /\ Timer /\ Ages
  OBVIOUS
<1> USE ConstantsAssumption DEF Init
<1>1. TypeOK
  <2>1. <<>> \in Seq(Packets) /\ Len(<<>>) = 0
    OBVIOUS
  <2>2. Cardinality(Packets) \in Nat
    BY FS_CardinalityType
  <2>3. /\ pc \in [Callers -> {"idle", "forward", "buffer"}]
        /\ carried \in [Callers -> Packets \cup {None}] /\ age \in [Packets -> 0..MaxAge]
        /\ \A c \in Callers : pc[c] = "idle" <=> carried[c] = None
    OBVIOUS
  <2>4. left \in 0..(IF BurstDur > SleepDur THEN BurstDur ELSE SleepDur)
    OBVIOUS
  <2> QED
    BY <2>1, <2>2, <2>3, <2>4 DEF TypeOK
<1>2. Loop /\ Apart /\ Somewhere
  BY DEF Loop, Apart, Somewhere
<1>3. Timer /\ Ages
  BY DEF Timer, Ages
<1> QED
  BY <1>1, <1>2, <1>3

\* init()'s loop is entered with nothing sent and left when all is.
LEMMA LoopStep == TypeOK /\ Loop /\ [Next]_vars => Loop'
<1> SUFFICES ASSUME TypeOK, Loop, [Next]_vars PROVE Loop'
  OBVIOUS
<1> USE DEF TypeOK, Loop, MutexFree
<1>1. ASSUME NEW c \in Callers, NEW p \in Packets, HandlePacket(c, p) PROVE Loop'
  BY <1>1 DEF HandlePacket
<1>2. ASSUME NEW c \in Callers, Forward(c) PROVE Loop'
  BY <1>2 DEF Forward
<1>3. ASSUME NEW c \in Callers, Buffer(c) PROVE Loop'
  BY <1>3 DEF Buffer
<1>4. ASSUME StartBurst \/ Lock \/ TimerFires PROVE Loop'
  BY <1>4 DEF StartBurst, Lock, TimerFires
<1>5. ASSUME Flush PROVE Loop'
  BY <1>5 DEF Flush
<1>6. ASSUME EndFlush PROVE Loop'
  BY <1>6 DEF EndFlush
<1>7. ASSUME Clear PROVE Loop'
  BY <1>7 DEF Clear
<1>8. ASSUME Tick \/ UNCHANGED vars PROVE Loop'
  BY <1>8 DEF Tick, vars
<1> QED
  BY <1>1, <1>2, <1>3, <1>4, <1>5, <1>6, <1>7, <1>8 DEF Next, Run

\* The types are kept, the length of the output left aside.
LEMMA TypeStep ==
  TypeOK /\ [Next]_vars /\ (\A i, j \in 1..Len(out') : out'[i] = out'[j] => i = j) => TypeOK'
<1> SUFFICES ASSUME TypeOK, [Next]_vars, \A i, j \in 1..Len(out') : out'[i] = out'[j] => i = j
             PROVE  TypeOK'
  OBVIOUS
<1>0. out' \in Seq(Packets) => Len(out') <= Cardinality(Packets)
  BY NoRepetition, ConstantsAssumption
<1> USE ConstantsAssumption DEF TypeOK, Goto
<1>1. ASSUME NEW c \in Callers, NEW p \in Packets, HandlePacket(c, p) PROVE TypeOK'
  BY <1>1 DEF HandlePacket
<1>2. ASSUME NEW c \in Callers, Forward(c) PROVE TypeOK'
  <2>1. carried[c] \in Packets /\ out' = Append(out, carried[c])
    BY <1>2 DEF Forward
  <2>2. out' \in Seq(Packets)
    BY <2>1
  <2>3. UNCHANGED <<queue_, sleeping_, phase, next, left, outside, age, punctual>>
    BY <1>2 DEF Forward
  <2>4. /\ pc' \in [Callers -> {"idle", "forward", "buffer"}]
        /\ carried' \in [Callers -> Packets \cup {None}]
        /\ \A d \in Callers : pc'[d] = "idle" <=> carried'[d] = None
    BY <1>2 DEF Forward
  <2> QED
    BY <1>0, <2>2, <2>3, <2>4
<1>3. ASSUME NEW c \in Callers, Buffer(c) PROVE TypeOK'
  <2>1. carried[c] \in Packets /\ queue_' = Append(queue_, carried[c]) /\ next' = next
    BY <1>3 DEF Buffer
  <2>2. queue_' \in Seq(Packets) /\ next' \in 0..Len(queue_')
    BY <2>1
  <2>3. UNCHANGED <<sleeping_, phase, left, outside, out, age, punctual>>
    BY <1>3 DEF Buffer
  <2>4. /\ pc' \in [Callers -> {"idle", "forward", "buffer"}]
        /\ carried' \in [Callers -> Packets \cup {None}]
        /\ \A d \in Callers : pc'[d] = "idle" <=> carried'[d] = None
    BY <1>3 DEF Buffer
  <2> QED
    BY <2>2, <2>3, <2>4
<1>4. ASSUME StartBurst \/ Lock \/ TimerFires \/ EndFlush PROVE TypeOK'
  <2>1. UNCHANGED <<queue_, pc, carried, outside, out, age, punctual>>
    BY <1>4 DEF StartBurst, Lock, TimerFires, EndFlush
  <2>2. sleeping_' \in BOOLEAN /\ phase' \in {"init", "flush", "clear", "timer"}
    BY <1>4 DEF StartBurst, Lock, TimerFires, EndFlush
  <2>3. /\ next' \in 0..Len(queue_)
        /\ left' \in 0..(IF BurstDur > SleepDur THEN BurstDur ELSE SleepDur)
    BY <1>4 DEF StartBurst, Lock, TimerFires, EndFlush
  <2> QED
    BY <2>1, <2>2, <2>3
<1>5. ASSUME Flush PROVE TypeOK'
  <2>1. next < Len(queue_) /\ out' = Append(out, queue_[next + 1]) /\ next' = next + 1
    BY <1>5 DEF Flush
  <2>2. out' \in Seq(Packets) /\ next' \in 0..Len(queue_)
    BY <2>1
  <2>3. UNCHANGED <<queue_, sleeping_, pc, carried, phase, left, outside, age, punctual>>
    BY <1>5 DEF Flush
  <2> QED
    BY <1>0, <2>2, <2>3
<1>6. ASSUME Clear PROVE TypeOK'
  BY <1>6 DEF Clear
<1>7. ASSUME Tick PROVE TypeOK'
  <2>1. age' \in [Packets -> 0..MaxAge]
    <3>1. \A p \in Packets : (IF p \in Inside /\ age[p] < MaxAge THEN age[p] + 1 ELSE age[p]) \in 0..MaxAge
      OBVIOUS
    <3> QED
      BY <1>7, <3>1 DEF Tick
  <2>2. left' \in 0..(IF BurstDur > SleepDur THEN BurstDur ELSE SleepDur)
    BY <1>7 DEF Tick
  <2>3. punctual' \in BOOLEAN
    BY <1>7 DEF Tick
  <2> QED
    BY <1>7, <2>1, <2>2, <2>3 DEF Tick
<1>8. CASE UNCHANGED vars
  BY <1>8 DEF vars
<1> QED
  BY <1>1, <1>2, <1>3, <1>4, <1>5, <1>6, <1>7, <1>8 DEF Next, Run

\* What carries over when a caller takes, or gives away, a packet.
LEMMA CarriedChanges ==
  ASSUME TypeOK, NEW c \in Callers, NEW v, carried' = [carried EXCEPT ![c] = v]
  PROVE  carried'[c] = v /\ \A d \in Callers : d # c => carried'[d] = carried[d]
BY DEF TypeOK

\* No step puts a packet into a second place: the loop of init() sends from a
\* queue it clears only afterwards, but holds the mutex that long.
LEMMA ApartStep == TypeOK /\ Loop /\ Apart /\ [Next]_vars => Apart'
<1> SUFFICES ASSUME TypeOK, Loop, Apart, [Next]_vars PROVE Apart'
  OBVIOUS
<1>0. /\ Len(queue_) \in Nat /\ Len(out) \in Nat /\ next \in 0..Len(queue_)
      /\ queue_ \in Seq(Packets) /\ out \in Seq(Packets) /\ None \notin Packets
      /\ \A i \in 1..Len(queue_) : queue_[i] \in Packets
      /\ \A i \in 1..Len(out) : out[i] \in Packets
  BY ConstantsAssumption DEF TypeOK
<1>1. ASSUME NEW c \in Callers, NEW p \in Packets, HandlePacket(c, p) PROVE Apart'
  <2>1. /\ p \in outside /\ outside' = outside \ {p} /\ UNCHANGED <<queue_, next, out>>
        /\ carried' = [carried EXCEPT ![c] = p]
    BY <1>1 DEF HandlePacket
  <2>2. carried'[c] = p /\ \A d \in Callers : d # c => carried'[d] = carried[d]
    BY <2>1, CarriedChanges
  <2> QED
    BY <2>1, <2>2 DEF Apart
<1>2. ASSUME NEW c \in Callers, Forward(c) PROVE Apart'
  <2>1. /\ carried[c] \in Packets /\ out' = Append(out, carried[c])
        /\ carried' = [carried EXCEPT ![c] = None] /\ UNCHANGED <<queue_, next, outside>>
    BY <1>2 DEF Forward, Goto, TypeOK
  <2>2. carried'[c] = None /\ \A d \in Callers : d # c => carried'[d] = carried[d]
    BY <2>1, CarriedChanges
  <2>3. /\ Len(out') = Len(out) + 1 /\ out'[Len(out) + 1] = carried[c]
        /\ \A i \in 1..Len(out) : out'[i] = out[i]
        /\ 1..Len(out') = 1..Len(out) \cup {Len(out) + 1} /\ Len(out) + 1 \notin 1..Len(out)
    BY <1>0, <2>1, Appended
  <2>4. outside \subseteq Packets
    BY DEF TypeOK
  <2> QED
    BY <1>0, <2>1, <2>2, <2>3, <2>4 DEF Apart
<1>3. ASSUME NEW c \in Callers, Buffer(c) PROVE Apart'
  <2>1. /\ carried[c] \in Packets /\ queue_' = Append(queue_, carried[c])
        /\ carried' = [carried EXCEPT ![c] = None] /\ UNCHANGED <<out, next, outside>>
    BY <1>3 DEF Buffer, Goto, TypeOK
  <2>2. carried'[c] = None /\ \A d \in Callers : d # c => carried'[d] = carried[d]
    BY <2>1, CarriedChanges
  <2>3. /\ Len(queue_') = Len(queue_) + 1 /\ queue_'[Len(queue_) + 1] = carried[c]
        /\ \A i \in 1..Len(queue_) : queue_'[i] = queue_[i]
        /\ 1..Len(queue_') = 1..Len(queue_) \cup {Len(queue_) + 1}
        /\ Len(queue_) + 1 \notin 1..Len(queue_)
    BY <1>0, <2>1, Appended
  <2>4. outside \subseteq Packets
    BY DEF TypeOK
  <2> QED
    BY <1>0, <2>1, <2>2, <2>3, <2>4 DEF Apart
<1>4. ASSUME Lock PROVE Apart'
  <2>1. next = 0 /\ next' = 0 /\ UNCHANGED <<queue_, carried, outside, out>>
    BY <1>4 DEF Lock, Loop, MutexFree
  <2> QED
    BY <2>1 DEF Apart
<1>5. ASSUME Flush PROVE Apart'
  <2> DEFINE p == queue_[next + 1]
  <2>1. /\ next + 1 \in 1..Len(queue_) /\ out' = Append(out, p) /\ next' = next + 1
        /\ UNCHANGED <<queue_, carried, outside>> /\ p \in Packets
    BY <1>0, <1>5 DEF Flush
  <2>2. /\ Len(out') = Len(out) + 1 /\ out'[Len(out) + 1] = p
        /\ \A i \in 1..Len(out) : out'[i] = out[i]
        /\ 1..Len(out') = 1..Len(out) \cup {Len(out) + 1} /\ Len(out) + 1 \notin 1..Len(out)
    BY <1>0, <2>1, Appended
  <2>3. \A i \in 1..Len(out) : p # out[i]
    BY <1>0, <2>1 DEF Apart
  <2>4. \A i, j \in 1..Len(out') : out'[i] = out'[j] => i = j
    BY <2>2, <2>3 DEF Apart
  <2>5. ASSUME NEW i \in 1..Len(queue_), NEW j \in 1..Len(out'), i > next + 1
        PROVE  queue_[i] # out'[j]
    <3>1. i > next /\ i # next + 1
      BY <1>0, <2>5
    <3>2. queue_[i] # p /\ \A k \in 1..Len(out) : queue_[i] # out[k]
      BY <2>1, <3>1 DEF Apart
    <3> QED
      BY <2>2, <3>2
  <2>6. /\ \A i \in 1..Len(out') : out'[i] \notin outside
        /\ \A c \in Callers : \A i \in 1..Len(out') : carried[c] # out'[i]
    BY <2>1, <2>2 DEF Apart
  <2> QED
    BY <2>1, <2>4, <2>5, <2>6, SMTT(30) DEF Apart
<1>6. ASSUME Clear PROVE Apart'
  <2>1. queue_' = <<>> /\ UNCHANGED <<carried, outside, out>>
    BY <1>6 DEF Clear
  <2> QED
    BY <2>1 DEF Apart
<1>7. ASSUME StartBurst \/ TimerFires \/ EndFlush \/ Tick \/ UNCHANGED vars PROVE Apart'
  <2>1. UNCHANGED <<queue_, next, carried, outside, out>>
    BY <1>7 DEF StartBurst, TimerFires, EndFlush, Tick, vars
  <2> QED
    BY <2>1 DEF Apart
<1> QED
  BY <1>1, <1>2, <1>3, <1>4, <1>5, <1>6, <1>7 DEF Next, Run

\* No step loses a packet: what init() clears away, it has sent.
LEMMA SomewhereStep == TypeOK /\ Loop /\ Somewhere /\ [Next]_vars => Somewhere'
<1> SUFFICES ASSUME TypeOK, Loop, Somewhere, [Next]_vars, NEW q \in Packets
             PROVE  \/ q \in outside'
                    \/ \E c \in Callers : carried'[c] = q
                    \/ \E i \in 1..Len(queue_') : i > next' /\ queue_'[i] = q
                    \/ \E i \in 1..Len(out') : out'[i] = q
  BY DEF Somewhere
<1> DEFINE Found == \/ q \in outside'
                    \/ \E c \in Callers : carried'[c] = q
                    \/ \E i \in 1..Len(queue_') : i > next' /\ queue_'[i] = q
                    \/ \E i \in 1..Len(out') : out'[i] = q
<1>0. /\ Len(queue_) \in Nat /\ Len(out) \in Nat /\ next \in 0..Len(queue_)
      /\ queue_ \in Seq(Packets) /\ out \in Seq(Packets) /\ None \notin Packets
      /\ \A i \in 1..Len(queue_) : queue_[i] \in Packets
  BY ConstantsAssumption DEF TypeOK
<1>a. \/ q \in outside
      \/ \E c \in Callers : carried[c] = q
      \/ \E i \in 1..Len(queue_) : i > next /\ queue_[i] = q
      \/ \E i \in 1..Len(out) : out[i] = q
  BY DEF Somewhere
<1>1. ASSUME NEW c \in Callers, NEW p \in Packets, HandlePacket(c, p) PROVE Found
  <2>1. /\ p \in outside /\ outside' = outside \ {p} /\ UNCHANGED <<queue_, next, out>>
        /\ carried' = [carried EXCEPT ![c] = p] /\ carried[c] = None
    BY <1>1 DEF HandlePacket, Goto, TypeOK
  <2>2. carried'[c] = p /\ \A d \in Callers : d # c => carried'[d] = carried[d]
    BY <2>1, CarriedChanges
  <2> QED
    BY <1>0, <1>a, <2>1, <2>2
<1>2. ASSUME NEW c \in Callers, Forward(c) PROVE Found
  <2>1. /\ carried[c] \in Packets /\ out' = Append(out, carried[c])
        /\ carried' = [carried EXCEPT ![c] = None] /\ UNCHANGED <<queue_, next, outside>>
    BY <1>2 DEF Forward, Goto, TypeOK
  <2>2. \A d \in Callers : d # c => carried'[d] = carried[d]
    BY <2>1, CarriedChanges
  <2>3. /\ out'[Len(out) + 1] = carried[c]
        /\ \A i \in 1..Len(out) : out'[i] = out[i]
        /\ 1..Len(out') = 1..Len(out) \cup {Len(out) + 1}
    BY <1>0, <2>1, Appended
  <2> QED
    BY <1>a, <2>1, <2>2, <2>3
<1>3. ASSUME NEW c \in Callers, Buffer(c) PROVE Found
  <2>1. /\ carried[c] \in Packets /\ queue_' = Append(queue_, carried[c])
        /\ carried' = [carried EXCEPT ![c] = None] /\ UNCHANGED <<out, next, outside>>
    BY <1>3 DEF Buffer, Goto, TypeOK
  <2>2. \A d \in Callers : d # c => carried'[d] = carried[d]
    BY <2>1, CarriedChanges
  <2>3. /\ queue_'[Len(queue_) + 1] = carried[c] /\ Len(queue_) + 1 > next
        /\ \A i \in 1..Len(queue_) : queue_'[i] = queue_[i]
        /\ 1..Len(queue_') = 1..Len(queue_) \cup {Len(queue_) + 1}
    BY <1>0, <2>1, Appended
  <2> QED
    BY <1>a, <2>1, <2>2, <2>3
<1>4. ASSUME Lock PROVE Found
  <2>1. next = 0 /\ next' = 0 /\ UNCHANGED <<queue_, carried, outside, out>>
    BY <1>4 DEF Lock, Loop, MutexFree
  <2> QED
    BY <1>a, <2>1
<1>5. ASSUME Flush PROVE Found
  <2>1. /\ next + 1 \in 1..Len(queue_) /\ out' = Append(out, queue_[next + 1])
        /\ next' = next + 1 /\ UNCHANGED <<queue_, carried, outside>>
    BY <1>0, <1>5 DEF Flush
  <2>2. /\ out'[Len(out) + 1] = queue_[next + 1]
        /\ \A i \in 1..Len(out) : out'[i] = out[i]
        /\ 1..Len(out') = 1..Len(out) \cup {Len(out) + 1}
    BY <1>0, <2>1, Appended
  <2>3. \A i \in 1..Len(queue_) : i > next => i = next + 1 \/ i > next'
    BY <1>0, <2>1
  <2> QED
    BY <1>a, <2>1, <2>2, <2>3
<1>6. ASSUME Clear PROVE Found
  <2>1. ~ \E i \in 1..Len(queue_) : i > next
    BY <1>0, <1>6 DEF Clear, Loop
  <2>2. UNCHANGED <<carried, outside, out>>
    BY <1>6 DEF Clear
  <2> QED
    BY <1>a, <2>1, <2>2
<1>7. ASSUME StartBurst \/ TimerFires \/ EndFlush \/ Tick \/ UNCHANGED vars PROVE Found
  <2>1. UNCHANGED <<queue_, next, carried, outside, out>>
    BY <1>7 DEF StartBurst, TimerFires, EndFlush, Tick, vars
  <2> QED
    BY <1>a, <2>1
<1> QED
  BY <1>1, <1>2, <1>3, <1>4, <1>5, <1>6, <1>7 DEF Next, Run

-----------------------------------------------------------------------------
(* Where every packet is, and where the loop is that moves them. *)
Inv == TypeOK /\ Loop /\ Apart /\ Somewhere

\* The parts of Inv hold together in every behaviour.
LEMMA InvSafe == Spec => []Inv
<1>1. Init => Inv
  BY InvInit DEF Inv
<1>2. ASSUME Inv, [Next]_vars PROVE Inv'
  <2>1. Loop' /\ Apart' /\ Somewhere'
    BY <1>2, LoopStep, ApartStep, SomewhereStep DEF Inv
  <2>2. \A i, j \in 1..Len(out') : out'[i] = out'[j] => i = j
    BY <2>1 DEF Apart
  <2> QED
    BY <1>2, <2>1, <2>2, TypeStep DEF Inv
<1> QED
  BY <1>1, <1>2, PTL DEF Spec

\* In every behaviour, the state keeps its types; nothing is sent twice, so no
\* more is sent than there is.
THEOREM TypeCorrect == Spec => []TypeOK
BY InvSafe, PTL DEF Inv

\* What waits is the end of the queue.
LEMMA WaitingElements ==
  ASSUME TypeOK
  PROVE  /\ Waiting \in Seq(Packets) /\ Len(Waiting) = Len(queue_) - next
         /\ \A i \in 1..Len(Waiting) : Waiting[i] = queue_[next + i]
         /\ \A i \in 1..Len(Waiting) : next + i \in 1..Len(queue_) /\ next + i > next
         /\ \A i \in 1..Len(queue_) : i > next => i - next \in 1..Len(Waiting)
<1>1. queue_ \in Seq(Packets) /\ next \in 0..Len(queue_) /\ Len(queue_) \in Nat
  BY DEF TypeOK
<1>2. Waiting \in Seq(Packets) /\ Len(Waiting) = Len(queue_) - next
  BY <1>1, Remainder DEF Waiting
<1>3. \A i \in 1..Len(Waiting) : Waiting[i] = queue_[next + i]
  BY <1>1, RemainderElements DEF Waiting
<1> QED
  BY <1>1, <1>2, <1>3

\* No packet in two places and every packet in one is Conservation, said of the
\* waiting and the sent packets as of one sequence.
LEMMA ConservationFollows == Inv => Conservation
<1> SUFFICES ASSUME TypeOK, Apart, Somewhere PROVE Conservation
  BY DEF Inv
<1> DEFINE all == Waiting \o out
           w == Len(Waiting)
<1>1. /\ Waiting \in Seq(Packets) /\ out \in Seq(Packets)
      /\ w \in Nat /\ Len(out) \in Nat /\ next \in Nat /\ Len(queue_) \in Nat
  BY WaitingElements DEF TypeOK
<1>2. /\ all \in Seq(Packets) /\ Len(all) = w + Len(out)
      /\ \A i \in 1..w : i \in 1..Len(all) /\ all[i] = Waiting[i]
      /\ \A i \in 1..Len(out) : w + i \in 1..Len(all) /\ all[w + i] = out[i]
  BY <1>1, ConcatProperties
<1>3. \A i \in 1..Len(all) : i \in 1..w \/ (i - w \in 1..Len(out) /\ i = w + (i - w))
  BY <1>1, <1>2
<1>4. \A i \in 1..w : all[i] = queue_[next + i] /\ next + i \in 1..Len(queue_) /\ next + i > next
  BY <1>2, WaitingElements
<1> HIDE DEF all, w
<1>5. \A i \in 1..Len(all) :
        \/ i \in 1..w /\ \E k \in 1..Len(queue_) : k = next + i /\ k > next /\ all[i] = queue_[k]
        \/ \E k \in 1..Len(out) : i = w + k /\ all[i] = out[k]
  <2> TAKE i \in 1..Len(all)
  <2>1. CASE i \in 1..w
    BY <1>4, <2>1
  <2>2. CASE i - w \in 1..Len(out) /\ i = w + (i - w)
    BY <1>2, <2>2
  <2> QED
    BY <1>3, <2>1, <2>2
<1>6. ASSUME NEW i \in 1..Len(all), NEW j \in 1..Len(all), all[i] = all[j] PROVE i = j
  <2>1. CASE i \in 1..w /\ j \in 1..w
    <3>1. next + i = next + j
      BY <1>4, <1>6, <2>1 DEF Apart
    <3> QED
      BY <1>1, <2>1, <3>1
  <2>2. CASE i \in 1..w /\ j \notin 1..w
    BY <1>4, <1>5, <1>6, <2>2 DEF Apart
  <2>3. CASE i \notin 1..w /\ j \in 1..w
    BY <1>4, <1>5, <1>6, <2>3 DEF Apart
  <2>4. CASE i \notin 1..w /\ j \notin 1..w
    BY <1>5, <1>6, <2>4 DEF Apart
  <2> QED
    BY <2>1, <2>2, <2>3, <2>4
<1>7. \A c \in Callers : carried[c] \notin InSeq(all) \cup outside
  BY <1>5 DEF Apart, InSeq
<1>8. Packets = outside \cup InSeq(all) \cup ({carried[c] : c \in Callers} \ {None})
  <2>1. ASSUME NEW p \in Packets
        PROVE  p \in outside \cup InSeq(all) \cup ({carried[c] : c \in Callers} \ {None})
    <3>1. CASE p \in outside
      BY <3>1
    <3>2. CASE \E c \in Callers : carried[c] = p
      BY <3>2, ConstantsAssumption
    <3>3. CASE \E i \in 1..Len(queue_) : i > next /\ queue_[i] = p
      <4>1. PICK i \in 1..Len(queue_) : i > next /\ queue_[i] = p
        BY <3>3
      <4>2. i - next \in 1..w /\ next + (i - next) = i
        BY <1>1, <4>1, WaitingElements DEF w
      <4>3. i - next \in 1..Len(all) /\ all[i - next] = p
        BY <1>2, <1>4, <4>1, <4>2
      <4> QED
        BY <4>3 DEF InSeq
    <3>4. CASE \E i \in 1..Len(out) : out[i] = p
      BY <1>2, <3>4 DEF InSeq
    <3> QED
      BY <3>1, <3>2, <3>3, <3>4 DEF Somewhere
  <2>2. outside \subseteq Packets /\ InSeq(all) \subseteq Packets
    BY <1>2 DEF TypeOK, InSeq
  <2>3. ({carried[c] : c \in Callers} \ {None}) \subseteq Packets
    BY DEF TypeOK
  <2> QED
    BY <2>1, <2>2, <2>3
<1>9. \A c, d \in Callers : carried[c] = carried[d] /\ carried[c] # None => c = d
  BY DEF Apart
<1> QED
  BY <1>6, <1>7, <1>8, <1>9 DEF Conservation, all

\* Callers that act on a stale sleeping_, and a loop that sends from the queue
\* and clears it afterwards, lose and repeat no packet.
THEOREM ConservationSafe == Spec => []Conservation
BY InvSafe, ConservationFollows, PTL

-----------------------------------------------------------------------------
\* The timer is started for one period, and runs out before init() is called.
LEMMA TimerStep == TypeOK /\ Timer /\ [Next]_vars => Timer'
<1> SUFFICES ASSUME TypeOK, Timer, [Next]_vars PROVE Timer'
  OBVIOUS
<1> USE ConstantsAssumption DEF TypeOK, Timer
<1>1. ASSUME NEW c \in Callers, Forward(c) \/ Buffer(c) \/ \E p \in Packets : HandlePacket(c, p)
      PROVE  Timer'
  BY <1>1 DEF Forward, Buffer, HandlePacket
<1>2. ASSUME StartBurst \/ Clear PROVE Timer'
  BY <1>2 DEF StartBurst, Clear
<1>3. ASSUME Lock \/ Flush \/ EndFlush \/ TimerFires PROVE Timer'
  BY <1>3 DEF Lock, Flush, EndFlush, TimerFires
<1>4. ASSUME Tick PROVE Timer'
  BY <1>4 DEF Tick
<1>5. CASE UNCHANGED vars
  BY <1>5 DEF vars
<1> QED
  BY <1>1, <1>2, <1>3, <1>4, <1>5 DEF Next, Run

\* A packet grows older only while it waits, by no more than the timer has run.
LEMMA AgesStep == Inv /\ Timer /\ Ages /\ [Next]_vars => Ages'
<1> SUFFICES ASSUME TypeOK, Loop, Apart, Timer, Ages, [Next]_vars PROVE Ages'
  BY DEF Inv
<1>0. /\ Len(queue_) \in Nat /\ next \in 0..Len(queue_)
      /\ queue_ \in Seq(Packets) /\ None \notin Packets
      /\ SleepDur \in Nat /\ BurstDur \in Nat /\ left \in Nat
      /\ \A i \in 1..Len(queue_) : queue_[i] \in Packets
      /\ \A p \in Packets : age[p] \in Nat
  BY ConstantsAssumption DEF TypeOK
<1>1. ASSUME NEW c \in Callers, NEW p \in Packets, HandlePacket(c, p) PROVE Ages'
  <2>1. /\ p \in outside /\ outside' = outside \ {p}
        /\ carried' = [carried EXCEPT ![c] = p]
        /\ UNCHANGED <<queue_, sleeping_, next, left, age, punctual>>
    BY <1>1 DEF HandlePacket
  <2>2. carried'[c] = p /\ \A d \in Callers : d # c => carried'[d] = carried[d]
    BY <2>1, CarriedChanges
  <2> QED
    BY <2>1, <2>2 DEF Ages
<1>2. ASSUME NEW c \in Callers, Forward(c) PROVE Ages'
  <2>1. /\ carried' = [carried EXCEPT ![c] = None]
        /\ UNCHANGED <<queue_, sleeping_, next, left, outside, age, punctual>>
    BY <1>2 DEF Forward
  <2>2. carried'[c] = None /\ \A d \in Callers : d # c => carried'[d] = carried[d]
    BY <2>1, CarriedChanges
  <2> QED
    BY <2>1, <2>2 DEF Ages
<1>3. ASSUME NEW c \in Callers, Buffer(c) PROVE Ages'
  <2>1. /\ carried[c] \in Packets /\ queue_' = Append(queue_, carried[c])
        /\ carried' = [carried EXCEPT ![c] = None]
        /\ UNCHANGED <<sleeping_, next, left, outside, age, punctual>>
    BY <1>3 DEF Buffer, Goto, TypeOK
  <2>2. carried'[c] = None /\ \A d \in Callers : d # c => carried'[d] = carried[d]
    BY <2>1, CarriedChanges
  <2>3. /\ queue_'[Len(queue_) + 1] = carried[c]
        /\ \A i \in 1..Len(queue_) : queue_'[i] = queue_[i]
        /\ 1..Len(queue_') = 1..Len(queue_) \cup {Len(queue_) + 1}
    BY <1>0, <2>1, Appended
  <2>4. punctual => age[carried[c]] + left <= SleepDur + (IF sleeping_ THEN 0 ELSE BurstDur)
    <3>1. punctual => age[carried[c]] = 0
      BY <1>0, <2>1 DEF Ages
    <3> QED
      BY <1>0, <3>1 DEF Timer
  <2> QED
    BY <2>1, <2>2, <2>3, <2>4 DEF Ages
<1>4. ASSUME StartBurst PROVE Ages'
  <2>1. /\ sleeping_ /\ ~sleeping_' /\ left = 0 /\ left' = BurstDur
        /\ UNCHANGED <<queue_, carried, next, outside, age, punctual>>
    BY <1>4 DEF StartBurst, Timer
  <2>2. punctual => \A i \in 1..Len(queue_) : i > next => age[queue_[i]] + BurstDur <= SleepDur + BurstDur
    BY <1>0, <2>1 DEF Ages
  <2> QED
    BY <2>1, <2>2 DEF Ages
<1>5. ASSUME Flush PROVE Ages'
  <2>1. next' = next + 1 /\ UNCHANGED <<queue_, sleeping_, carried, left, outside, age, punctual>>
    BY <1>5 DEF Flush
  <2>2. \A i \in 1..Len(queue_) : i > next' => i > next
    BY <1>0, <2>1
  <2> QED
    BY <2>1, <2>2 DEF Ages
<1>6. ASSUME Lock PROVE Ages'
  <2>1. next = 0 /\ next' = 0 /\ UNCHANGED <<queue_, sleeping_, carried, left, outside, age, punctual>>
    BY <1>6 DEF Lock, Loop, MutexFree
  <2> QED
    BY <2>1 DEF Ages
<1>7. ASSUME Clear PROVE Ages'
  <2>1. queue_' = <<>> /\ UNCHANGED <<carried, outside, age, punctual>>
    BY <1>7 DEF Clear
  <2> QED
    BY <2>1 DEF Ages
<1>8. ASSUME Tick PROVE Ages'
  <2>1. /\ punctual' = (punctual /\ ~Busy)
        /\ left' = IF left > 0 THEN left - 1 ELSE 0
        /\ age' = [p \in Packets |->
                     IF p \in Inside /\ age[p] < MaxAge THEN age[p] + 1 ELSE age[p]]
        /\ UNCHANGED <<queue_, sleeping_, carried, next, outside>>
    BY <1>8 DEF Tick
  <2>2. \A p \in outside : age'[p] = 0
    BY <2>1 DEF Ages, Inside, TypeOK
  <2>3. ASSUME punctual' PROVE \A c \in Callers : carried[c] = None
    BY <2>1, <2>3 DEF Busy, TypeOK
  <2>4. ASSUME punctual', NEW i \in 1..Len(queue_), i > next
        PROVE  age'[queue_[i]] + left' <= SleepDur + (IF sleeping_ THEN 0 ELSE BurstDur)
    <3>1. punctual /\ left # 0
      BY <2>1, <2>4 DEF Busy
    <3>4. left > 0 /\ left' = left - 1
      BY <1>0, <2>1, <3>1
    <3>5. SleepDur + (IF sleeping_ THEN 0 ELSE BurstDur) \in Nat
      BY <1>0
    <3>2. age[queue_[i]] + left <= SleepDur + (IF sleeping_ THEN 0 ELSE BurstDur)
      BY <2>4, <3>1 DEF Ages
    <3>3. age'[queue_[i]] <= age[queue_[i]] + 1 /\ age'[queue_[i]] \in Nat
      BY <1>0, <2>1
    <3> QED
      BY <1>0, <3>2, <3>3, <3>4, <3>5, SMTT(30)
  <2> QED
    BY <2>1, <2>2, <2>3, <2>4 DEF Ages
<1>9. ASSUME TimerFires \/ EndFlush \/ UNCHANGED vars PROVE Ages'
  <2>1. UNCHANGED <<queue_, sleeping_, carried, next, left, outside, age, punctual>>
    BY <1>9 DEF TimerFires, EndFlush, vars
  <2> QED
    BY <2>1 DEF Ages
<1> QED
  BY <1>1, <1>2, <1>3, <1>4, <1>5, <1>6, <1>7, <1>8, <1>9 DEF Next, Run

\* If the threads keep up, a packet waits for the sleep and the burst, at most.
LEMMA HeldFollows == Inv /\ Ages => HeldOnePeriod
<1> SUFFICES ASSUME TypeOK, Somewhere, Ages, punctual, NEW p \in Inside
             PROVE  age[p] <= BurstDur + SleepDur
  BY DEF Inv, HeldOnePeriod
<1>1. p \in Packets /\ p \notin outside /\ ~ \E i \in 1..Len(out) : out[i] = p
  BY DEF Inside, InSeq
<1>2. SleepDur \in Nat /\ BurstDur \in Nat /\ left \in Nat /\ age[p] \in Nat
  BY <1>1, ConstantsAssumption DEF TypeOK
<1>3. CASE \E c \in Callers : carried[c] = p
  BY <1>1, <1>2, <1>3, ConstantsAssumption DEF Ages
<1>4. CASE \E i \in 1..Len(queue_) : i > next /\ queue_[i] = p
  BY <1>2, <1>4 DEF Ages
<1> QED
  BY <1>1, <1>3, <1>4 DEF Somewhere

\* For every length of the two periods: no packet stays for longer than both.
THEOREM HeldOnePeriodSafe == Spec => []HeldOnePeriod
<1>1. Init => Timer /\ Ages
  BY InvInit
<1>2. Inv /\ Timer /\ Ages /\ [Next]_vars => (Timer /\ Ages)'
  BY TimerStep, AgesStep DEF Inv
<1> QED
  BY <1>1, <1>2, InvSafe, HeldFollows, PTL DEF Spec

-----------------------------------------------------------------------------
(* The outline by which Router knows the filter. *)
\* The filter starts where its outline does, keeping nothing.
LEMMA OutlineInit == Init => Outline!Init
BY DEF Init, Outline!Init, Waiting

\* Every step of the filter is a step of its outline, or unseen by it.
LEMMA OutlineStep == Inv /\ [Next]_vars => [Outline!Next]_(Outline!vars)
<1> SUFFICES ASSUME TypeOK, Loop, [Next]_vars PROVE [Outline!Next]_(Outline!vars)
  BY DEF Inv
<1>0. queue_ \in Seq(Packets) /\ next \in 0..Len(queue_) /\ Len(queue_) \in Nat
  BY DEF TypeOK
<1>1. ASSUME NEW c \in Callers, Forward(c) PROVE \E p \in Packets : Outline!LetThrough(p)
  <2>1. carried[c] \in Packets /\ out' = Append(out, carried[c]) /\ UNCHANGED <<queue_, next>>
    BY <1>1 DEF Forward, Goto, TypeOK
  <2> QED
    BY <2>1 DEF Outline!LetThrough, Waiting
<1>2. ASSUME NEW c \in Callers, Buffer(c) PROVE \E p \in Packets : Outline!Keep(p)
  <2>1. carried[c] \in Packets /\ queue_' = Append(queue_, carried[c]) /\ UNCHANGED <<out, next>>
    BY <1>2 DEF Buffer, Goto, TypeOK
  <2>2. SubSeq(queue_', next + 1, Len(queue_')) = Append(SubSeq(queue_, next + 1, Len(queue_)), carried[c])
    BY <1>0, <2>1, Remainder
  <2> QED
    BY <2>1, <2>2 DEF Outline!Keep, Waiting
<1>3. ASSUME Flush PROVE Outline!PassOn
  <2>1. next < Len(queue_) /\ out' = Append(out, queue_[next + 1]) /\ next' = next + 1 /\ UNCHANGED queue_
    BY <1>3 DEF Flush
  <2>2. /\ SubSeq(queue_, next + 1, Len(queue_)) # <<>>
        /\ Head(SubSeq(queue_, next + 1, Len(queue_))) = queue_[next + 1]
        /\ Tail(SubSeq(queue_, next + 1, Len(queue_))) = SubSeq(queue_, next + 2, Len(queue_))
    BY <1>0, <2>1, Remainder
  <2>3. SubSeq(queue_', next' + 1, Len(queue_')) = SubSeq(queue_, next + 2, Len(queue_))
    <3>1. next' + 1 = next + 2
      BY <1>0, <2>1
    <3> QED
      BY <2>1, <3>1
  <2> QED
    BY <2>1, <2>2, <2>3 DEF Outline!PassOn, Waiting
<1>4. ASSUME Lock PROVE UNCHANGED Outline!vars
  <2>1. next' = next /\ UNCHANGED <<queue_, out>>
    BY <1>4 DEF Lock, Loop, MutexFree
  <2> QED
    BY <2>1 DEF Outline!vars, Waiting
<1>5. ASSUME Clear PROVE UNCHANGED Outline!vars
  <2>1. next = Len(queue_) /\ queue_' = <<>> /\ next' = 0 /\ UNCHANGED out
    BY <1>5 DEF Clear, Loop
  <2>2. Waiting = <<>>
    BY <1>0, <2>1 DEF Waiting
  <2>3. Waiting' = <<>>
    BY <2>1 DEF Waiting
  <2> QED
    BY <2>1, <2>2, <2>3 DEF Outline!vars
<1>6. ASSUME \/ \E c \in Callers, p \in Packets : HandlePacket(c, p)
             \/ StartBurst \/ EndFlush \/ TimerFires \/ Tick \/ UNCHANGED vars
      PROVE  UNCHANGED Outline!vars
  <2>1. UNCHANGED <<queue_, next, out>>
    BY <1>6 DEF HandlePacket, StartBurst, EndFlush, TimerFires, Tick, vars
  <2> QED
    BY <2>1 DEF Outline!vars, Waiting
<1> QED
  BY <1>1, <1>2, <1>3, <1>4, <1>5, <1>6 DEF Next, Run, Outline!Next

\* The safety half of Outlined: what is buffered is sent in the order in which
\* it was, and before the queue is cleared.
THEOREM ImplementsOutline == Spec => Outline!Spec
BY InvSafe, OutlineInit, OutlineStep, PTL DEF Spec, Outline!Spec
=============================================================================
