------------------------- MODULE DynamicDelayProofs -------------------------
(* Proofs about DynamicDelay for every set of packets, every pattern of delays *)
(* and every interval: its invariants, and that its steps are those of the     *)
(* outline by which Router knows it.                                           *)
EXTENDS DynamicDelay, SequenceLemmas

(* The types of what TypeOK leaves out. *)
MoreTypes ==
  /\ curve \in Seq(Int) /\ turns \in Nat
  /\ arrivedAt \in [Packets -> 0..MaxTime]
  /\ queuedAt \in [Packets -> 0..MaxTime]
  /\ sentAt \in [Packets -> 0..MaxTime]
  /\ held \in [Packets -> Int]
  /\ waiting \in BOOLEAN /\ rearm \in BOOLEAN /\ punctual \in BOOLEAN

(* The pump: nothing is popped, and the callback is registered or about to be; *)
(* or one packet is, for which the timer is about to be started, or has been.  *)
Pump ==
  /\ \A i, j \in 1..Len(accepted) : accepted[i] = accepted[j] => i = j
  /\ \A i \in 1..Len(accepted) : accepted[i] \notin outside
  /\ Len(handled) <= Len(accepted)
  /\ \A i \in 1..Len(handled) : handled[i] = accepted[i]
  /\ Len(out) <= Len(handled)
  /\ \A i \in 1..Len(out) : out[i] = accepted[i]
  /\ \/ /\ popped = {} /\ timers = {} /\ Len(handled) = Len(out)
        /\ waiting <=> ~rearm
     \/ /\ ~waiting /\ ~rearm /\ Len(handled) = Len(out) + 1
        /\ popped = {[pkt |-> accepted[Len(handled)], now |-> now]} /\ timers = {}
     \/ /\ ~waiting /\ ~rearm /\ Len(handled) = Len(out) + 1
        /\ popped = {}
        /\ \E due \in Nat : timers = {[pkt |-> accepted[Len(handled)], due |-> due]}

(* Until it is sent, a packet bears the time of its arrival. *)
Stamps ==
  /\ \A p \in Packets \ outside : arrivedAt[p] <= now
  /\ \A p \in Packets \ (outside \cup InSeq(out)) : stamp[p] = arrivedAt[p]

(* The delay that comes into force with change number "turn" + 1. *)
Following(turn) == curve[(turn % Len(curve)) + 1]

(* delayQ_ holds the curve from the next delay on, turned round: without the   *)
(* one that the handler has popped, until it has put it back.                  *)
Cycle ==
  /\ delay_ = Delay(turns)
  /\ curve = <<>> => delayQ_ = <<>> /\ delayPc \in {"asyncPop", "waiting"} /\ turns = 0
  /\ delayPc \in {"push", "set"} => d = Following(turns)
  /\ delayPc = "push" => /\ Len(delayQ_) = Len(curve) - 1
                         /\ \A i \in 1..Len(delayQ_) : delayQ_[i] = Following(turns + i)
  /\ delayPc = "set" => /\ Len(delayQ_) = Len(curve)
                        /\ \A i \in 1..Len(delayQ_) : delayQ_[i] = Following(turns + i)
  /\ delayPc \in {"asyncPop", "waiting", "timer"} =>
       /\ Len(delayQ_) = Len(curve)
       /\ \A i \in 1..Len(delayQ_) : delayQ_[i] = Following(turns + i - 1)

(* No change is made before its time, ... *)
Schedule ==
  IF delayPc = "timer"
  THEN turns > 0 /\ (turns - 1) * Interval <= now /\ turns * Interval <= changeDue
  ELSE turns * Interval <= now

(* ... and, if the threads keep up, none after it. *)
Punctual ==
  punctual /\ curve # <<>> =>
    IF delayPc = "timer"
    THEN now <= changeDue /\ changeDue = turns * Interval
    ELSE now = turns * Interval

(* The timers of packets that are held back, and the packets that were. *)
Early ==
  /\ \A t \in timers : t.due >= arrivedAt[t.pkt] + held[t.pkt]
  /\ NotEarly

(* When the last packet was sent. *)
LastSent == IF out = <<>> THEN 0 ELSE sentAt[out[Len(out)]]
Later(a, b) == IF a >= b THEN a ELSE b

(* If the threads keep up, the next packet is popped as soon as it is queued   *)
(* and the one before it is gone, ...                                          *)
Prompt ==
  /\ LastSent <= now
  /\ \A i \in 1..Len(accepted) : queuedAt[accepted[i]] <= now
  /\ punctual =>
       /\ rearm => now = LastSent
       /\ waiting /\ Len(handled) < Len(accepted) =>
            now = Later(queuedAt[accepted[Len(handled) + 1]], LastSent)
       /\ \A h \in popped : now = Later(queuedAt[h.pkt], LastSent)

(* ... and its timer fires when it has been in the router for the delay of     *)
(* that moment.                                                                *)
TurnsAt(at) ==
  {at \div Interval + 1} \cup (IF at % Interval = 0 THEN {at \div Interval} ELSE {})

Tight ==
  punctual =>
    \A t \in timers :
      /\ now <= t.due
      /\ curve # <<>> =>
           LET at == Later(queuedAt[t.pkt], LastSent)
           IN  \E n \in TurnsAt(at) : t.due = Later(at, arrivedAt[t.pkt] + Delay(n))

-----------------------------------------------------------------------------
\* A remainder is what is left when multiples of n are taken away.
LEMMA Remainders ==
  ASSUME NEW n \in Nat \ {0}, NEW k \in Nat
  PROVE  /\ k % n \in 0..(n - 1)
         /\ (k + n) % n = k % n
         /\ k < n => k % n = k
<1>1. PICK q \in Int, r \in 0..(n - 1) : k = n * q + r /\ k % n = r
  BY SMTT(30)
<1>2. n * (q + 1) = n * q + n
  BY SMT
<1>3. k + n = n * (q + 1) + r
  BY <1>1, <1>2
<1>4. \A m \in Int, x \in Nat : x = n * m + r => x % n = r
  BY SMTT(30)
<1>5. (k + n) % n = r
  BY <1>3, <1>4, SMTT(30)
<1>6. k < n => k % n = k
  BY SMTT(30)
<1> QED
  BY <1>1, <1>5, <1>6

\* Between two multiples of n, the quotient is the lower one's.
LEMMA Quotients ==
  ASSUME NEW n \in Nat \ {0}, NEW k \in Nat
  PROVE  /\ k * n \in Nat /\ (k + 1) * n = k * n + n /\ 0 * n = 0
         /\ (k * n) \div n = k /\ (k * n) % n = 0
         /\ \A x \in Nat : k * n <= x /\ x < k * n + n => x \div n = k
<1>1. k * n \in Nat /\ (k + 1) * n = k * n + n /\ 0 * n = 0
  BY SMTT(30)
<1>2. (k * n) \div n = k /\ (k * n) % n = 0
  BY SMTT(30)
<1>3. ASSUME NEW x \in Nat, k * n <= x, x < (k + 1) * n PROVE x \div n = k
  BY <1>3, SMTT(30)
<1> QED
  BY <1>1, <1>2, <1>3

-----------------------------------------------------------------------------
(* The curve.  The lemmas lead from the powers of two by the rounding of a     *)
(* quotient, the float of a slope and of its products and the cut to an int to *)
(* a second of the curve, and by induction over the segments to all of them.   *)
\* Induction without an operator: a set of numbers has a least one.
LEMMA Least ==
  ASSUME NEW T, T \subseteq Nat, T # {}
  PROVE  \E n \in T : \A m \in T : n <= m
<1>1. IsWellFoundedOn(OpToRel(<, Nat), Nat)
  BY NatLessThanWellFounded
<1>2. PICK n \in T : \A m \in T : <<m, n>> \notin OpToRel(<, Nat)
  BY <1>1, WFMin
<1>3. \A m \in T : ~(m < n)
  BY <1>2 DEF OpToRel
<1> QED
  BY <1>3

\* The provers know the powers of two as numbers only.
LEMMA Doubling ==
  ASSUME NEW k \in 0..38, NEW j, j = k + 1
  PROVE  2^j = 2 * 2^k
<1>1. CASE k \in 0..9
  <2>1. <<k, j>> \in {<<0, 1>>, <<1, 2>>, <<2, 3>>, <<3, 4>>, <<4, 5>>, <<5, 6>>
         , <<6, 7>>, <<7, 8>>, <<8, 9>>, <<9, 10>>}
    BY <1>1, SMT
  <2>2. 2^1 = 2 * 2^0 /\ 2^2 = 2 * 2^1 /\ 2^3 = 2 * 2^2 /\ 2^4 = 2 * 2^3
        /\ 2^5 = 2 * 2^4 /\ 2^6 = 2 * 2^5 /\ 2^7 = 2 * 2^6 /\ 2^8 = 2 * 2^7
        /\ 2^9 = 2 * 2^8 /\ 2^10 = 2 * 2^9
    BY SMT
  <2> QED
    BY <2>1, <2>2, Zenon
<1>2. CASE k \in 10..19
  <2>1. <<k, j>> \in {<<10, 11>>, <<11, 12>>, <<12, 13>>, <<13, 14>>, <<14, 15>>
         , <<15, 16>>, <<16, 17>>, <<17, 18>>, <<18, 19>>, <<19, 20>>}
    BY <1>2, SMT
  <2>2. 2^11 = 2 * 2^10 /\ 2^12 = 2 * 2^11 /\ 2^13 = 2 * 2^12 /\ 2^14 = 2 * 2^13
        /\ 2^15 = 2 * 2^14 /\ 2^16 = 2 * 2^15 /\ 2^17 = 2 * 2^16 /\ 2^18 = 2 * 2^17
        /\ 2^19 = 2 * 2^18 /\ 2^20 = 2 * 2^19
    BY SMT
  <2> QED
    BY <2>1, <2>2, Zenon
<1>3. CASE k \in 20..29
  <2>1. <<k, j>> \in {<<20, 21>>, <<21, 22>>, <<22, 23>>, <<23, 24>>, <<24, 25>>
         , <<25, 26>>, <<26, 27>>, <<27, 28>>, <<28, 29>>, <<29, 30>>}
    BY <1>3, SMT
  <2>2. 2^21 = 2 * 2^20 /\ 2^22 = 2 * 2^21 /\ 2^23 = 2 * 2^22 /\ 2^24 = 2 * 2^23
        /\ 2^25 = 2 * 2^24 /\ 2^26 = 2 * 2^25 /\ 2^27 = 2 * 2^26 /\ 2^28 = 2 * 2^27
        /\ 2^29 = 2 * 2^28 /\ 2^30 = 2 * 2^29
    BY SMT
  <2> QED
    BY <2>1, <2>2, Zenon
<1>4. CASE k \in 30..38
  <2>1. <<k, j>> \in {<<30, 31>>, <<31, 32>>, <<32, 33>>, <<33, 34>>, <<34, 35>>
         , <<35, 36>>, <<36, 37>>, <<37, 38>>, <<38, 39>>}
    BY <1>4, SMT
  <2>2. 2^31 = 2 * 2^30 /\ 2^32 = 2 * 2^31 /\ 2^33 = 2 * 2^32 /\ 2^34 = 2 * 2^33
        /\ 2^35 = 2 * 2^34 /\ 2^36 = 2 * 2^35 /\ 2^37 = 2 * 2^36 /\ 2^38 = 2 * 2^37
        /\ 2^39 = 2 * 2^38
    BY SMT
  <2> QED
    BY <2>1, <2>2, Zenon
<1> QED
  BY <1>1, <1>2, <1>3, <1>4

\* The units of the slopes are positive.
LEMMA Positive ==
  ASSUME NEW k \in 0..39
  PROVE  2^k \in Nat \ {0}
<1>1. k \in {0, 1, 2, 3, 4, 5, 6, 7, 8, 9, 10, 11, 12, 13, 14, 15, 16, 17, 18, 19, 20, 21, 22, 23, 24, 25, 26, 27,
            28, 29, 30, 31, 32, 33, 34, 35, 36, 37, 38, 39}
  BY SMT
<1>2. /\ 2^0 >= 1 /\ 2^1 >= 1 /\ 2^2 >= 1 /\ 2^3 >= 1 /\ 2^4 >= 1 /\ 2^5 >= 1
      /\ 2^6 >= 1 /\ 2^7 >= 1 /\ 2^8 >= 1 /\ 2^9 >= 1 /\ 2^10 >= 1 /\ 2^11 >= 1
      /\ 2^12 >= 1 /\ 2^13 >= 1 /\ 2^14 >= 1 /\ 2^15 >= 1 /\ 2^16 >= 1 /\ 2^17 >= 1
      /\ 2^18 >= 1 /\ 2^19 >= 1 /\ 2^20 >= 1 /\ 2^21 >= 1 /\ 2^22 >= 1 /\ 2^23 >= 1
      /\ 2^24 >= 1 /\ 2^25 >= 1 /\ 2^26 >= 1 /\ 2^27 >= 1 /\ 2^28 >= 1 /\ 2^29 >= 1
      /\ 2^30 >= 1 /\ 2^31 >= 1 /\ 2^32 >= 1 /\ 2^33 >= 1 /\ 2^34 >= 1 /\ 2^35 >= 1
      /\ 2^36 >= 1 /\ 2^37 >= 1 /\ 2^38 >= 1 /\ 2^39 >= 1
  BY SMT
<1>3. 2^k >= 1
  BY <1>1, <1>2, Zenon
<1> QED
  BY <1>3

\* The ulp of a number of b bits is 2^24 times smaller than the power above it.
LEMMA Ulp ==
  ASSUME NEW b \in 0..24, NEW c, c = 25 - b
  PROVE  2^c * 2^b = 2^25
<1>1. CASE b \in 0..8
  <2>1. <<b, c>> \in {<<0, 25>>, <<1, 24>>, <<2, 23>>, <<3, 22>>, <<4, 21>>
         , <<5, 20>>, <<6, 19>>, <<7, 18>>, <<8, 17>>}
    BY <1>1, SMT
  <2>2. 2^25 * 2^0 = 2^25 /\ 2^24 * 2^1 = 2^25 /\ 2^23 * 2^2 = 2^25
        /\ 2^22 * 2^3 = 2^25 /\ 2^21 * 2^4 = 2^25 /\ 2^20 * 2^5 = 2^25
        /\ 2^19 * 2^6 = 2^25 /\ 2^18 * 2^7 = 2^25 /\ 2^17 * 2^8 = 2^25
    BY SMT
  <2> QED
    BY <2>1, <2>2, Zenon
<1>2. CASE b \in 9..16
  <2>1. <<b, c>> \in {<<9, 16>>, <<10, 15>>, <<11, 14>>, <<12, 13>>, <<13, 12>>
         , <<14, 11>>, <<15, 10>>, <<16, 9>>}
    BY <1>2, SMT
  <2>2. 2^16 * 2^9 = 2^25 /\ 2^15 * 2^10 = 2^25 /\ 2^14 * 2^11 = 2^25
        /\ 2^13 * 2^12 = 2^25 /\ 2^12 * 2^13 = 2^25 /\ 2^11 * 2^14 = 2^25
        /\ 2^10 * 2^15 = 2^25 /\ 2^9 * 2^16 = 2^25
    BY SMT
  <2> QED
    BY <2>1, <2>2, Zenon
<1>3. CASE b \in 17..24
  <2>1. <<b, c>> \in {<<17, 8>>, <<18, 7>>, <<19, 6>>, <<20, 5>>, <<21, 4>>
         , <<22, 3>>, <<23, 2>>, <<24, 1>>}
    BY <1>3, SMT
  <2>2. 2^8 * 2^17 = 2^25 /\ 2^7 * 2^18 = 2^25 /\ 2^6 * 2^19 = 2^25
        /\ 2^5 * 2^20 = 2^25 /\ 2^4 * 2^21 = 2^25 /\ 2^3 * 2^22 = 2^25
        /\ 2^2 * 2^23 = 2^25 /\ 2^1 * 2^24 = 2^25
    BY SMT
  <2> QED
    BY <2>1, <2>2, Zenon
<1> QED
  BY <1>1, <1>2, <1>3

\* A number, quotient and remainder.
LEMMA DivMod ==
  ASSUME NEW n \in Int, NEW v \in Nat \ {0}
  PROVE  /\ n \div v \in Int /\ n % v \in 0..(v - 1)
         /\ n = v * (n \div v) + (n % v)
         /\ n \in Nat => n \div v \in Nat
<1>1. n \div v \in Int /\ n % v \in 0..(v - 1)
  BY SMTT(30)
<1>2. n = v * (n \div v) + (n % v)
  BY SMTT(30)
<1>3. n \in Nat => n \div v \in Nat
  BY <1>1, <1>2, SMTT(30)
<1> QED
  BY <1>1, <1>2, <1>3

\* The quotient, told by multiplication.
LEMMA QuotientBound ==
  ASSUME NEW n \in Int, NEW v \in Nat \ {0}, NEW q \in Int
  PROVE  /\ v * q <= n <=> q <= n \div v
<1> DEFINE t == n \div v
           r == n % v
<1>1. t \in Int /\ r \in 0..(v - 1) /\ n = v * t + r
  BY DivMod
<1> HIDE DEF t, r
<1>2. ASSUME q <= t PROVE v * q <= n
  <2>1. v * q <= v * t
    BY <1>1, <1>2, SMTT(30)
  <2> QED
    BY <1>1, <2>1, SMTT(30)
<1>3. ASSUME q >= t + 1 PROVE v * q > n
  <2>1. v * q >= v * (t + 1) /\ v * (t + 1) = v * t + v
    BY <1>1, <1>3, SMTT(30)
  <2> QED
    BY <1>1, <2>1, SMTT(30)
<1>4. q <= t \/ q >= t + 1
  BY <1>1
<1>5. v * q <= n <=> q <= t
  BY <1>1, <1>2, <1>3, <1>4, SMTT(30)
<1> QED
  BY <1>5 DEF t

\* Rounding moves a quotient by one half at most.
LEMMA Rounding ==
  ASSUME NEW n \in Nat, NEW v \in Nat \ {0}
  PROVE  /\ RoundDiv(n, v) \in Nat
         /\ 2 * (RoundDiv(n, v) * v) <= 2 * n + v
         /\ 2 * (RoundDiv(n, v) * v) >= 2 * n - v
<1> DEFINE q == n \div v
           r == n % v
<1>a. n \in Int
  OBVIOUS
<1>1. q \in Nat /\ r \in 0..(v - 1) /\ n = v * q + r
  BY <1>a, DivMod, Zenon
<1>2. (RoundDiv(n, v) = q /\ 2 * r <= v) \/ (RoundDiv(n, v) = q + 1 /\ 2 * r >= v)
  BY <1>1 DEF RoundDiv
<1> HIDE DEF q, r
<1>3. q * v = v * q /\ (q + 1) * v = v * q + v /\ v * q \in Int
  BY <1>1, SMTT(30)
<1> QED
  BY <1>1, <1>2, <1>3

\* A number of more than 24 bits loses as many of its last as it has more, so a
\* float is off by a 2^24th of the number at most.
LEMMA FloatError ==
  ASSUME NEW n \in Nat, n < 2^24 * 2^16
  PROVE  /\ Float(n) \in Nat
         /\ 2^24 * Float(n) <= 2^24 * n + n
         /\ 2^24 * Float(n) >= 2^24 * n - n
<1> DEFINE T == {s \in 0..16 : n \div 2^s < 2^24}
           c == CHOOSE s \in 0..16 : n \div 2^s < 2^24 /\ (s = 0 \/ n \div 2^(s - 1) >= 2^24)
           u == 2^c
           R == RoundDiv(n, u)
<1>1. \A s \in 0..16 : 2^s \in Nat \ {0} /\ n \div 2^s \in Int
  <2> SUFFICES ASSUME NEW s \in 0..16 PROVE 2^s \in Nat \ {0} /\ n \div 2^s \in Int
    OBVIOUS
  <2>1. s \in 0..39 /\ n \in Int
    OBVIOUS
  <2>2. 2^s \in Nat \ {0}
    BY <2>1, Positive
  <2> QED
    BY <2>1, <2>2, DivMod
<1>2. 16 \in T
  <2>1. 2^16 \in Nat \ {0} /\ 2^24 \in Int /\ n \in Int /\ 16 \in 0..16
    OBVIOUS
  <2>2. ~(2^24 <= n \div 2^16)
    BY <2>1, QuotientBound
  <2> QED
    BY <1>1, <2>1, <2>2
<1>3. PICK s \in T : \A j \in T : s <= j
  <2>1. T \subseteq Nat
    OBVIOUS
  <2> HIDE DEF T
  <2> QED
    BY <1>2, <2>1, Least
<1>4. s = 0 \/ n \div 2^(s - 1) >= 2^24
  <2> SUFFICES ASSUME s # 0 PROVE n \div 2^(s - 1) >= 2^24
    OBVIOUS
  <2>1. s - 1 \in 0..16 /\ s - 1 \notin T
    BY <1>3
  <2>2. ~(n \div 2^(s - 1) < 2^24) /\ n \div 2^(s - 1) \in Int
    BY <1>1, <2>1, Zenon
  <2> QED
    BY <2>2
<1>5. c \in 0..16 /\ (c = 0 \/ n \div 2^(c - 1) >= 2^24)
  BY <1>3, <1>4, Zenon
<1>6. Float(n) = R * u
  BY DEF Float
<1> HIDE DEF c
<1>7. u \in Nat \ {0}
  BY <1>1, <1>5
<1> HIDE DEF u
<1>8. R \in Nat /\ 2 * (R * u) <= 2 * n + u /\ 2 * (R * u) >= 2 * n - u
  BY <1>7, Rounding
<1> HIDE DEF R
<1>9. R * u \in Nat
  BY <1>7, <1>8, SMT
<1>10. CASE c = 0
  <2>1. u = 1
    BY <1>10 DEF u
  <2> QED
    BY <1>6, <1>8, <1>9, <2>1
<1>11. CASE c # 0
  <2> DEFINE v == 2^(c - 1)
  <2>1. c - 1 \in 0..38 /\ c - 1 \in 0..16 /\ c = (c - 1) + 1
    BY <1>5, <1>11
  <2>2. v \in Nat \ {0} /\ u = 2 * v
    BY <1>1, <2>1, Doubling DEF u
  <2>3. n \div v >= 2^24 /\ 2^24 \in Int /\ n \in Int
    BY <1>5, <1>11
  <2> HIDE DEF v
  <2>4. v * 2^24 <= n
    BY <2>2, <2>3, QuotientBound
  <2> QED
    BY <1>6, <1>8, <1>9, <2>2, <2>4
<1> QED
  BY <1>10, <1>11

\* So is the float of a quotient, whose unit is small enough for 24 bits.
LEMMA SlopeError ==
  ASSUME NEW x \in 1..2^23, NEW res \in 1..2^16
  PROVE  LET m == Slope(x, res).m
             unit == Slope(x, res).unit
         IN  /\ m \in Nat /\ unit \in Nat \ {0}
             /\ m <= 2^24
             /\ 2 * (m * res) <= 2 * (x * unit) + res
             /\ 2 * (m * res) >= 2 * (x * unit) - res
             /\ 2^23 * res <= x * unit
<1> DEFINE T == {k \in 0..39 : 2^23 * res <= x * 2^k}
           c == CHOOSE k \in 0..39 : 2^23 * res <= x * 2^k /\ x * 2^k < 2^24 * res
           u == 2^c
           m == RoundDiv(x * u, res)
<1>1. \A k \in 0..39 : 2^k \in Nat \ {0}
  BY Positive
<1>2. 39 \in T
  OBVIOUS
<1>3. PICK k \in T : \A j \in T : k <= j
  <2>1. T \subseteq Nat
    OBVIOUS
  <2> HIDE DEF T
  <2> QED
    BY <1>2, <2>1, Least
<1>4. x * 2^k < 2^24 * res
  <2>1. CASE k = 0
    BY <2>1
  <2>2. CASE k # 0
    <3> DEFINE v == 2^(k - 1)
    <3>1. k - 1 \in 0..38 /\ k - 1 \in 0..39 /\ k - 1 \notin T /\ k = (k - 1) + 1
      BY <1>3, <2>2
    <3>2. v \in Nat \ {0} /\ 2^k = 2 * v
      BY <1>1, <3>1, Doubling
    <3>3. ~(2^23 * res <= x * v)
      BY <3>1
    <3> HIDE DEF v
    <3>4. x * v \in Nat /\ x * (2 * v) = 2 * (x * v)
      BY <3>2, SMT
    <3> QED
      BY <3>2, <3>3, <3>4
  <2> QED
    BY <2>1, <2>2
<1>5. c \in 0..39 /\ 2^23 * res <= x * 2^c /\ x * 2^c < 2^24 * res
  BY <1>3, <1>4, Zenon
<1>6. Slope(x, res) = [m |-> m, unit |-> u]
  BY DEF Slope
<1> HIDE DEF c
<1>7. u \in Nat \ {0} /\ 2^23 * res <= x * u /\ x * u < 2^24 * res
  BY <1>1, <1>5
<1> HIDE DEF u
<1>8. x * u \in Nat /\ res \in Nat \ {0}
  BY <1>7, SMT
<1>9. m \in Nat /\ 2 * (m * res) <= 2 * (x * u) + res /\ 2 * (m * res) >= 2 * (x * u) - res
  BY <1>8, Rounding
<1> HIDE DEF m
<1>10. m <= 2^24
  <2> SUFFICES ASSUME m >= 2^24 + 1 PROVE FALSE
    BY <1>9
  <2>1. m * res >= (2^24 + 1) * res /\ (2^24 + 1) * res = 2^24 * res + res
    BY <1>8, <1>9, SMT
  <2>2. m * res \in Nat
    BY <1>8, <1>9, SMT
  <2> QED
    BY <1>7, <1>8, <1>9, <2>1, <2>2
<1>11. Slope(x, res).m = m /\ Slope(x, res).unit = u
  BY <1>6
<1> QED
  BY <1>7, <1>9, <1>10, <1>11, Zenon

\* The sum is taken for the next int if what is missing is a half ulp at most.
LEMMA CutOffError ==
  ASSUME NEW w \in 0..(2^24 - 1), NEW unit \in Nat \ {0}, NEW f \in 0..(unit - 1)
  PROVE  \/ CutOff(w, f, unit) = w
         \/ (CutOff(w, f, unit) = w + 1 /\ 2^24 * (unit - f) <= unit * w)
<1> DEFINE T == {b \in 0..24 : w < 2^b}
           c == CHOOSE b \in 0..24 : w < 2^b /\ (b = 0 \/ w >= 2^(b - 1))
<1>1. \A b \in 0..39 : 2^b \in Nat \ {0}
  BY Positive
<1>2. 24 \in T
  OBVIOUS
<1>3. PICK b \in T : \A j \in T : b <= j
  <2>1. T \subseteq Nat
    OBVIOUS
  <2> HIDE DEF T
  <2> QED
    BY <1>2, <2>1, Least
<1>4. b = 0 \/ w >= 2^(b - 1)
  <2> SUFFICES ASSUME b # 0 PROVE w >= 2^(b - 1)
    OBVIOUS
  <2>1. b - 1 \in 0..24 /\ b - 1 \in 0..39 /\ b - 1 \notin T
    BY <1>3
  <2> QED
    BY <1>1, <2>1
<1>5. c \in 0..24 /\ w < 2^c /\ (c = 0 \/ w >= 2^(c - 1))
  BY <1>3, <1>4, Zenon
<1>6. CutOff(w, f, unit) = IF w > 0 /\ unit - f <= unit \div 2^(25 - c) THEN w + 1 ELSE w
  BY DEF CutOff
<1> HIDE DEF c
<1>7. ASSUME w > 0, unit - f <= unit \div 2^(25 - c) PROVE 2^24 * (unit - f) <= unit * w
  <2> DEFINE v == 2^(c - 1)
             p == 2^(25 - c)
             g == unit - f
  <2>1. c # 0
    <3> SUFFICES ASSUME c = 0 PROVE FALSE
      OBVIOUS
    <3> QED
      BY <1>5, <1>7
  <2>2. c - 1 \in 0..38 /\ c - 1 \in 0..39 /\ 25 - c \in 0..39 /\ c = (c - 1) + 1
    BY <1>5, <2>1
  <2>3. v \in Nat \ {0} /\ p \in Nat \ {0} /\ 2^c = 2 * v
    BY <1>1, <2>2, Doubling
  <2>4. p * 2^c = 2^25
    BY <1>5, Ulp
  <2>5. w >= v /\ g <= unit \div p
    BY <1>5, <1>7, <2>1
  <2> HIDE DEF v, p
  <2>6. p * (2 * v) = 2 * (p * v) /\ p * v \in Nat
    BY <2>3, SMT
  <2>7. p * v = 2^24
    BY <2>3, <2>4, <2>6
  <2>8. unit \in Int /\ g \in Nat
    OBVIOUS
  <2> HIDE DEF g
  <2>9. p * g <= unit
    BY <2>3, <2>5, <2>8, QuotientBound
  <2>10. (p * g) * v <= unit * v /\ unit * v <= unit * w /\ (p * g) * v = (p * v) * g
    BY <2>3, <2>5, <2>8, <2>9, SMT
  <2>11. 2^24 * g <= unit * w
    BY <2>3, <2>7, <2>8, <2>10, SMT
  <2> QED
    BY <2>11 DEF g
<1> QED
  BY <1>6, <1>7

\* What a positive factor does not change.
LEMMA Cancel ==
  ASSUME NEW u \in Nat \ {0}, NEW b \in Int, NEW c \in Int
  PROVE  /\ u * b <= u * c => b <= c
         /\ u * b < u * c => b < c
<1>1. ASSUME b >= c + 1 PROVE u * b > u * c
  <2>1. u * b >= u * (c + 1) /\ u * (c + 1) = u * c + u /\ u * c \in Int /\ u * b \in Int
    BY <1>1, SMTT(30)
  <2> QED
    BY <2>1
<1>2. b = c => u * b = u * c
  OBVIOUS
<1>3. u * c \in Int /\ u * b \in Int
  BY SMT
<1> QED
  BY <1>1, <1>2, <1>3

\* The product of the slope and the seconds, off by three 2^24ths at most.
LEMMA ProductError ==
  ASSUME NEW y \in 1..2^22, NEW res \in 1..2^15, NEW a \in 1..res,
         NEW m, m = Slope(y, res).m, NEW u, u = Slope(y, res).unit
  PROVE  /\ u \in Nat \ {0} /\ Float(m * a) \in Nat
         /\ (y * a) * u \in Nat /\ res * Float(m * a) \in Nat
         /\ 2^24 * (res * Float(m * a)) <= 2^24 * ((y * a) * u) + 3 * ((y * a) * u)
         /\ 2^24 * (res * Float(m * a)) >= 2^24 * ((y * a) * u) - 3 * ((y * a) * u)
<1> DEFINE B == m * a
           N == Float(B)
           C == m * res
           Y == y * u
<1>1. /\ m \in Nat /\ u \in Nat \ {0} /\ m <= 2^24
      /\ 2 * C <= 2 * Y + res /\ 2 * C >= 2 * Y - res /\ 2^23 * res <= Y
  <2>1. y \in 1..2^23 /\ res \in 1..2^16
    OBVIOUS
  <2> QED
    BY <2>1, SlopeError
<1>2. B \in Nat /\ B < 2^24 * 2^16
  <2>1. m * a <= 2^24 * a /\ B \in Nat
    BY <1>1, SMT
  <2> QED
    BY <2>1
<1>3. C \in Nat /\ Y \in Nat
  BY <1>1, SMT
<1>4. res * B = C * a
  BY <1>1, SMT
<1>5. (y * a) * u = Y * a
  BY <1>1, SMT
<1> HIDE DEF B, C, Y
<1>6. N \in Nat /\ 2^24 * N <= 2^24 * B + B /\ 2^24 * N >= 2^24 * B - B
  BY <1>2, FloatError
<1> HIDE DEF N
<1>7. res * N \in Nat /\ C * a \in Nat /\ Y * a \in Nat /\ res * a \in Nat
  BY <1>3, <1>6, SMT
<1>8. 2^24 * (res * N) <= 2^24 * (C * a) + C * a /\ 2^24 * (res * N) >= 2^24 * (C * a) - C * a
  <2>1. /\ res * (2^24 * N) <= res * (2^24 * B + B)
        /\ res * (2^24 * N) >= res * (2^24 * B - B)
    BY <1>2, <1>6, SMT
  <2>2. /\ res * (2^24 * N) = 2^24 * (res * N)
        /\ res * (2^24 * B + B) = 2^24 * (res * B) + res * B
        /\ res * (2^24 * B - B) = 2^24 * (res * B) - res * B
    BY <1>2, <1>6, SMT
  <2> QED
    BY <1>4, <2>1, <2>2
<1>9. 2 * (C * a) <= 2 * (Y * a) + res * a /\ 2 * (C * a) >= 2 * (Y * a) - res * a
  <2>1. (2 * C) * a <= (2 * Y + res) * a /\ (2 * C) * a >= (2 * Y - res) * a
    BY <1>1, <1>3, SMT
  <2>2. /\ (2 * C) * a = 2 * (C * a) /\ (2 * Y + res) * a = 2 * (Y * a) + res * a
        /\ (2 * Y - res) * a = 2 * (Y * a) - res * a
    BY <1>3, SMT
  <2> QED
    BY <2>1, <2>2
<1>10. 2^23 * (res * a) <= Y * a
  <2>1. (2^23 * res) * a <= Y * a /\ (2^23 * res) * a = 2^23 * (res * a)
    BY <1>1, <1>3, SMT
  <2> QED
    BY <2>1
<1>11. /\ 2^24 * (res * N) <= 2^24 * (Y * a) + 3 * (Y * a)
       /\ 2^24 * (res * N) >= 2^24 * (Y * a) - 3 * (Y * a)
  BY <1>7, <1>8, <1>9, <1>10
<1> QED
  BY <1>1, <1>5, <1>6, <1>7, <1>11 DEF B, N

Size(x) == IF x < 0 THEN -x ELSE x

(* R is a sample of x / res at a, and E / res what it would be without rounding. *)
Sampled(x, res, a, first, E, P, R) ==
  /\ x \in Int /\ Size(x) <= 2^22
  /\ res \in 1..2^15 /\ a \in 1..res
  /\ first \in Int /\ Size(first) <= 2^23
  /\ E = res * first + x * a /\ P = Size(x) * a
  /\ R = Sample(x, res, a, first)

(* What rounding leaves of that: R is one of two ints with E / res between them. *)
Bracket(w, res, E, P, R) ==
  /\ R \in {w, w + 1}
  /\ 2^24 * (res * (w + 1)) > 2^24 * E - 3 * P
  /\ 2^24 * (res * w) <= 2^24 * E + 3 * P
  /\ R = w \/ R <= 0 \/ 2^24 * (res * (w + 1)) <= 2^24 * E + 3 * P + res * w

\* A sample is the int below the sum, or the one above; the latter if the sum is
\* negative, or so near to it that rounding reaches it.
LEMMA SampleError ==
  ASSUME NEW x, NEW res, NEW a, NEW first, NEW E, NEW P, NEW R,
         Sampled(x, res, a, first, E, P, R)
  PROVE  \E w \in Int : Bracket(w, res, E, P, R)
<1> USE DEF Sampled, Bracket
<1> DEFINE y == Size(x)
<1>1. CASE x = 0
  <2>1. R = first
    BY <1>1 DEF Sample
  <2>2. y = 0 /\ y * a = 0 /\ x * a = 0 /\ res * first \in Int /\ res * (first + 1) = res * first + res
    BY <1>1, SMT DEF Size
  <2> QED
    BY <2>1, <2>2
<1>2. CASE x # 0
  <2> DEFINE m == Slope(y, res).m
             u == Slope(y, res).unit
             N == Float(m * a)
             n == (IF x < 0 THEN -1 ELSE 1) * N
             t == n \div u
             f == n % u
             w == first + t
  <2>1. y \in 1..2^22 /\ P = y * a /\ P \in Nat
    <3>1. y \in 1..2^22
      BY <1>2 DEF Size
    <3> QED
      BY <3>1, SMT
  <2>2. R = CASE x = 0 -> first
              [] x # 0 /\ w >= 0 -> CutOff(w, f, u)
              [] x # 0 /\ w < 0 /\ f = 0 -> w
              [] OTHER -> -CutOff(-w - 1, u - f, u)
    BY Zenon DEF Sample, Size
  <2> HIDE DEF y
  <2>3. /\ u \in Nat \ {0} /\ N \in Nat /\ P * u \in Nat /\ res * N \in Nat
        /\ 2^24 * (res * N) <= 2^24 * (P * u) + 3 * (P * u)
        /\ 2^24 * (res * N) >= 2^24 * (P * u) - 3 * (P * u)
    BY <2>1, ProductError
  <2> HIDE DEF u, N
  <2>4. /\ n \in Int /\ res * n \in Int /\ (x * a) * u \in Int
        /\ 2^24 * (res * n) <= 2^24 * ((x * a) * u) + 3 * (P * u)
        /\ 2^24 * (res * n) >= 2^24 * ((x * a) * u) - 3 * (P * u)
    <3>1. CASE x < 0
      <4>1. n = -N /\ res * (-N) = -(res * N) /\ x * a = -P
        BY <2>1, <2>3, <3>1, SMT DEF y, Size
      <4>2. (-P) * u = -(P * u)
        BY <2>1, <2>3, SMT
      <4> QED
        BY <2>3, <4>1, <4>2
    <3>2. CASE x >= 0
      <4>1. n = N /\ x * a = P
        BY <2>1, <2>3, <3>2, SMT DEF y, Size
      <4> QED
        BY <2>3, <4>1
    <3> QED
      BY <3>1, <3>2
  <2> HIDE DEF n
  <2>5. t \in Int /\ f \in 0..(u - 1) /\ n = u * t + f
    BY <2>3, <2>4, DivMod
  <2> HIDE DEF t, f
  <2> DEFINE G == u * (res * first)
             H == u * (res * w)
  <2>6. /\ G \in Int /\ H \in Int /\ u * E = G + (x * a) * u
        /\ H = G + res * n - res * f
        /\ u * (res * (w + 1)) = H + res * u
        /\ res * (u - f) = res * u - res * f
        /\ res * f >= 0 /\ res * (u - f) > 0 /\ res * f \in Int /\ res * u \in Int
    <3>1. G \in Int /\ H \in Int /\ res * f \in Int /\ res * u \in Int /\ w \in Int
      BY <2>3, <2>5, SMT
    <3>2. u * E = G + (x * a) * u
      BY <2>3, SMT
    <3>3. res * n = u * (res * t) + res * f /\ res * w = res * first + res * t
      BY <2>3, <2>5, SMT
    <3>4. H = G + u * (res * t)
      BY <2>3, <2>5, <3>3, SMT
    <3>5. u * (res * (w + 1)) = H + res * u
      BY <2>3, <3>1, SMT
    <3>6. res * (u - f) = res * u - res * f /\ res * f >= 0 /\ res * (u - f) > 0
      BY <2>3, <2>5, SMT
    <3> QED
      BY <2>3, <2>4, <2>5, <3>1, <3>2, <3>3, <3>4, <3>5, <3>6
  <2>7. E \in Int /\ w \in Int /\ res * w \in Int /\ res * (w + 1) \in Int
    BY <2>5, SMT
  <2>8. /\ u * (2^24 * E - 3 * P) = 2^24 * (u * E) - 3 * (P * u)
        /\ u * (2^24 * E + 3 * P) = 2^24 * (u * E) + 3 * (P * u)
        /\ u * (2^24 * (res * (w + 1))) = 2^24 * (u * (res * (w + 1)))
        /\ u * (2^24 * (res * w)) = 2^24 * H
    BY <2>1, <2>3, <2>7, SMT
  <2> HIDE DEF G, H, w
  <2>9. 2^24 * (res * (w + 1)) > 2^24 * E - 3 * P
    <3>1. u * (2^24 * E - 3 * P) < u * (2^24 * (res * (w + 1)))
      BY <2>3, <2>4, <2>6, <2>8
    <3> QED
      BY <2>1, <2>3, <2>7, <3>1, Cancel
  <2>10. 2^24 * (res * w) <= 2^24 * E + 3 * P
    <3>1. u * (2^24 * (res * w)) <= u * (2^24 * E + 3 * P)
      BY <2>3, <2>4, <2>6, <2>8
    <3> QED
      BY <2>1, <2>3, <2>7, <3>1, Cancel
  <2>11. w < 2^24 /\ -w - 1 < 2^24
    <3>1. P <= 2^22 * res /\ x * a <= P /\ x * a >= -P /\ x * a \in Int
      <4>1. y * a <= 2^22 * a /\ 2^22 * a <= 2^22 * res
        BY <2>1, SMT
      <4>2. x * a \in Int /\ (x = y \/ x = -y) /\ (-y) * a = -(y * a)
        BY <2>1, SMT DEF y, Size
      <4> QED
        BY <2>1, <4>1, <4>2
    <3>2. res * first <= 2^23 * res /\ res * first >= -(2^23 * res) /\ res * first \in Int
      <4>1. first <= 2^23 /\ first >= -(2^23)
        BY DEF Size
      <4> QED
        BY <4>1, SMT
    <3>3. ASSUME w >= 2^24 PROVE FALSE
      <4>1. res * w >= 2^24 * res
        BY <2>7, <3>3, SMT
      <4> QED
        BY <2>1, <2>7, <2>10, <3>1, <3>2, <4>1
    <3>4. ASSUME w + 1 <= -(2^24) PROVE FALSE
      <4>1. res * (w + 1) <= -(2^24 * res)
        BY <2>7, <3>4, SMT
      <4> QED
        BY <2>1, <2>7, <2>9, <3>1, <3>2, <4>1
    <3> QED
      BY <2>7, <3>3, <3>4
  <2>12. CASE w >= 0
    <3>1. R = CutOff(w, f, u) /\ w \in 0..(2^24 - 1)
      BY <1>2, <2>2, <2>7, <2>11, <2>12
    <3>2. R = w \/ (R = w + 1 /\ 2^24 * (u - f) <= u * w)
      BY <2>3, <2>5, <3>1, CutOffError
    <3>3. ASSUME 2^24 * (u - f) <= u * w
          PROVE  2^24 * (res * (w + 1)) <= 2^24 * E + 3 * P + res * w
      <4>1. res * (2^24 * (u - f)) <= res * (u * w)
        BY <2>3, <2>5, <2>7, <3>3, SMT
      <4>2. res * (2^24 * (u - f)) = 2^24 * (res * (u - f)) /\ res * (u * w) = u * (res * w)
        BY <2>3, <2>5, <2>7, SMT
      <4>3. u * (2^24 * E + 3 * P + res * w) = u * (2^24 * E + 3 * P) + u * (res * w)
        BY <2>1, <2>3, <2>7, SMT
      <4>4. H = u * (res * w)
        BY DEF H
      <4>5. u * (2^24 * (res * (w + 1))) <= u * (2^24 * E + 3 * P + res * w)
        BY <2>3, <2>4, <2>6, <2>8, <4>1, <4>2, <4>3, <4>4
      <4> QED
        BY <2>1, <2>3, <2>7, <4>5, Cancel
    <3> QED
      BY <2>7, <2>9, <2>10, <3>2, <3>3, Zenon
  <2>13. CASE w < 0
    <3>1. R = w \/ (R = -CutOff(-w - 1, u - f, u) /\ f # 0)
      BY <1>2, <2>2, <2>7, <2>13
    <3>2. ASSUME f # 0 PROVE CutOff(-w - 1, u - f, u) \in {-w - 1, -w}
      <4>1. -w - 1 \in 0..(2^24 - 1) /\ u - f \in 0..(u - 1) /\ (-w - 1) + 1 = -w
        BY <2>3, <2>5, <2>7, <2>11, <2>13, <3>2
      <4> QED
        BY <2>3, <4>1, CutOffError
    <3>3. R \in {w, w + 1} /\ R <= 0
      BY <2>7, <2>13, <3>1, <3>2
    <3> QED
      BY <2>7, <2>9, <2>10, <3>3, Zenon
  <2> QED
    BY <2>7, <2>12, <2>13
<1> QED
  BY <1>1, <1>2

\* So a sample is less than two off, ...
LEMMA SampleNear ==
  ASSUME NEW x, NEW res, NEW a, NEW first, NEW E, NEW P, NEW R,
         Sampled(x, res, a, first, E, P, R)
  PROVE  /\ R \in Int
         /\ res * R <= E + 2 * res
         /\ res * R >= E - 2 * res
<1>2. PICK w \in Int : Bracket(w, res, E, P, R)
  BY SampleError
<1>0. x \in Int /\ Size(x) <= 2^22 /\ res \in 1..2^15 /\ a \in 1..res /\ first \in Int
      /\ E = res * first + x * a /\ P = Size(x) * a
  BY DEF Sampled
<1> USE <1>0 DEF Bracket
<1>1. E \in Int /\ P \in Nat /\ P <= 2^22 * res
  <2>1. Size(x) \in Nat
    BY DEF Size
  <2>2. P \in Nat /\ P <= 2^22 * a
    BY <2>1, SMT
  <2> QED
    BY <2>2, SMT
<1>3. /\ res * (w + 1) = res * w + res /\ res * w \in Int
      /\ R = w \/ R = w + 1
  BY <1>2, SMT
<1>4. res * R = res * w \/ res * R = res * w + res
  BY <1>2, <1>3, Zenon
<1>5. res * R <= E + 2 * res /\ res * R >= E - 2 * res
  BY <1>1, <1>2, <1>3, <1>4
<1> QED
  BY <1>2, <1>5

\* ... and if the products are small, at most one below and, but for a negative
\* one, not above.
LEMMA SampleFloor ==
  ASSUME NEW x, NEW res, NEW a, NEW first, NEW E, NEW P, NEW R,
         Sampled(x, res, a, first, E, P, R), P <= 2^21, res * first <= 2^21
  PROVE  /\ R \in Int
         /\ res * (R + 1) >= E
         /\ R <= 0 \/ res * R <= E
<1>2. PICK w \in Int : Bracket(w, res, E, P, R)
  BY SampleError
<1>0. x \in Int /\ Size(x) <= 2^22 /\ res \in 1..2^15 /\ a \in 1..res /\ first \in Int
      /\ E = res * first + x * a /\ P = Size(x) * a
  BY DEF Sampled
<1> USE <1>0 DEF Bracket
<1>1. E \in Int /\ P \in Nat /\ P <= 2^21 /\ E <= 2^22
  <2>1. Size(x) \in Nat /\ (x = Size(x) \/ x = -Size(x))
    BY DEF Size
  <2>2. P \in Nat /\ x * a \in Int /\ (-Size(x)) * a = -P /\ res * first \in Int
    BY <2>1, SMT
  <2>3. x * a = P \/ x * a = -P
    BY <2>1, <2>2
  <2> QED
    BY <2>2, <2>3
<1>3. /\ res * (w + 1) = res * w + res /\ res * w \in Int
      /\ R = w \/ R = w + 1
      /\ res * (R + 1) = res * R + res
  BY <1>2, SMT
<1>4. (R = w /\ res * R = res * w) \/ (R = w + 1 /\ res * R = res * w + res)
  BY <1>2, <1>3
<1>5. res * w <= E /\ res * (w + 1) >= E
  BY <1>1, <1>2, <1>3
<1>6. res * (R + 1) >= E
  BY <1>1, <1>3, <1>4, <1>5
<1>7. R = w => res * R <= E
  BY <1>4, <1>5
<1>8. 2^24 * (res * (w + 1)) <= 2^24 * E + 3 * P + res * w => res * (w + 1) <= E
  BY <1>1, <1>3, <1>5
<1>9. R <= 0 \/ res * R <= E
  BY <1>2, <1>3, <1>4, <1>7, <1>8
<1> QED
  BY <1>2, <1>6, <1>9

\* The recursion that leads from the end of a segment to the next.
LEMMA EndsRecursion ==
  ASSUME NEW delays, Len(delays) \in Nat, NEW res
  PROVE  /\ Ends(delays, res)[0] = delays[1]
         /\ \A i \in 1..Len(delays) :
              Ends(delays, res)[i] = Sample(Rise(delays, i - 1), res, res, Ends(delays, res)[i - 1])
<1> DEFINE S(i, e) == Sample(Rise(delays, i - 1), res, res, e)
           F(g, j) == [i \in 0..j |-> IF i = 0 THEN delays[1] ELSE S(i, g[i - 1])]
           T == {j \in 0..Len(delays) : ~ \E g : g = F(g, j)}
<1> HIDE DEF S
<1>0. T \subseteq 0..Len(delays) /\ T \subseteq Nat
  OBVIOUS
<1>1. 0 \notin T
  <2>1. [i \in {0} |-> delays[1]] = F([i \in {0} |-> delays[1]], 0)
    OBVIOUS
  <2> QED
    BY <2>1
<1>2. ASSUME NEW j \in T, \A k \in T : j <= k PROVE FALSE
  <2>1. j \in 1..Len(delays) /\ j - 1 \in 0..Len(delays) /\ j - 1 \notin T
    <3> HIDE DEF T
    <3> QED
      BY <1>0, <1>1, <1>2
  <2>2. PICK g : g = F(g, j - 1)
    BY <2>1
  <2> DEFINE h == [i \in 0..j |-> IF i = j THEN S(j, g[j - 1]) ELSE g[i]]
  <2>3. ASSUME NEW i \in 0..j PROVE h[i] = IF i = 0 THEN delays[1] ELSE S(i, h[i - 1])
    <3>1. CASE i = j
      <4>1. h[i - 1] = g[j - 1]
        BY <2>1, <3>1
      <4> QED
        BY <2>1, <3>1, <4>1
    <3>2. CASE i # j
      <4>1. i \in 0..(j - 1) /\ h[i] = g[i] /\ (i # 0 => h[i - 1] = g[i - 1])
        BY <2>1, <3>2
      <4> QED
        BY <2>2, <4>1
    <3> QED
      BY <3>1, <3>2
  <2>4. h = F(h, j)
    BY <2>3
  <2> QED
    BY <2>4
<1>3. T = {}
  <2> HIDE DEF T
  <2> QED
    BY <1>0, <1>2, Least
<1>4. PICK g : g = F(g, Len(delays))
  BY <1>3
<1>5. Ends(delays, res) = F(Ends(delays, res), Len(delays))
  BY <1>4 DEF Ends, S
<1> QED
  BY <1>5 DEF S

(* The patterns for which a float is exact enough for NearPattern. *)
Small(delays, res) == \A i \in 1..Len(delays) : delays[i] * res <= 2^21

\* What "in range" says.
LEMMA RangeTypes ==
  ASSUME NEW delays, NEW res, InRange(delays, res)
  PROVE  /\ Len(delays) \in Nat \ {0} /\ Len(delays) <= 2^20
         /\ \A j \in 1..Len(delays) : delays[j] \in 0..2^22
         /\ res \in Nat \ {0} /\ res \in 1..2^15
<1> DEFINE S == 0..2^22
<1>1. delays \in Seq(S) /\ delays # <<>> /\ Len(delays) <= 2^20 /\ res \in 1..2^15
  BY DEF InRange
<1> HIDE DEF S
<1>2. Len(delays) \in Nat \ {0} /\ \A j \in 1..Len(delays) : delays[j] \in S
  BY <1>1, EmptySeq, ElementOfSeq
<1>3. res \in Nat \ {0}
  BY <1>1
<1> QED
  BY <1>1, <1>2, <1>3, Zenon DEF S

\* The fix points are delays of the pattern, and the rises their differences.
LEMMA FixPoints ==
  ASSUME NEW delays, NEW res, InRange(delays, res), NEW i \in Nat
  PROVE  /\ \E j \in 1..Len(delays) : FixPoint(delays, i) = delays[j]
         /\ FixPoint(delays, i) \in 0..2^22
         /\ Rise(delays, i) \in Int /\ Size(Rise(delays, i)) \in 0..2^22
         /\ FixPoint(delays, i + 1) = FixPoint(delays, i) + Rise(delays, i)
<1>1. Len(delays) \in Nat \ {0} /\ \A j \in 1..Len(delays) : delays[j] \in 0..2^22
  BY RangeTypes
<1>2. ASSUME NEW n \in Nat
      PROVE  /\ \E j \in 1..Len(delays) : FixPoint(delays, n) = delays[j]
             /\ FixPoint(delays, n) \in 0..2^22
  <2>1. n % Len(delays) \in 0..(Len(delays) - 1)
    BY <1>1, Remainders
  <2>2. (n % Len(delays)) + 1 \in 1..Len(delays)
    BY <1>1, <2>1
  <2> QED
    BY <1>1, <2>2 DEF FixPoint
<1> DEFINE p == FixPoint(delays, i)
           q == FixPoint(delays, i + 1)
<1>3. Rise(delays, i) = q - p
  BY DEF Rise
<1>4. p \in 0..2^22 /\ q \in 0..2^22
  <2>1. i + 1 \in Nat
    OBVIOUS
  <2> QED
    BY <1>2, <2>1
<1> HIDE DEF p, q
<1>5. /\ Rise(delays, i) \in Int /\ Size(Rise(delays, i)) \in 0..2^22
      /\ q = p + Rise(delays, i)
  BY <1>3, <1>4 DEF Size
<1> QED
  BY <1>2, <1>5 DEF p, q

\* Each segment ends at most two off where it was to end, as seen from its start.
LEMMA EndsNear ==
  ASSUME NEW delays, NEW res, InRange(delays, res)
  PROVE  \A i \in 0..Len(delays) :
           /\ Ends(delays, res)[i] \in Int
           /\ Ends(delays, res)[i] <= FixPoint(delays, i) + 2 * i
           /\ Ends(delays, res)[i] >= FixPoint(delays, i) - 2 * i
<1> DEFINE end == Ends(delays, res)
           Near(i) == /\ end[i] \in Int
                      /\ end[i] <= FixPoint(delays, i) + 2 * i
                      /\ end[i] >= FixPoint(delays, i) - 2 * i
           T == {i \in 0..Len(delays) : ~Near(i)}
<1>1. Len(delays) \in Nat \ {0} /\ Len(delays) <= 2^20 /\ res \in 1..2^15
  BY RangeTypes
<1>2. /\ end[0] = delays[1]
      /\ \A i \in 1..Len(delays) :
           end[i] = Sample(Rise(delays, i - 1), res, res, end[i - 1])
  BY <1>1, EndsRecursion
<1> HIDE DEF end
<1>3. Near(0)
  <2>1. 0 % Len(delays) = 0
    BY <1>1, Remainders
  <2>2. FixPoint(delays, 0) = delays[1]
    BY <2>1 DEF FixPoint
  <2>3. FixPoint(delays, 0) \in 0..2^22
    BY FixPoints
  <2> QED
    BY <1>2, <2>2, <2>3
<1>4. ASSUME NEW i \in 1..Len(delays), Near(i - 1) PROVE Near(i)
  <2> DEFINE x == Rise(delays, i - 1)
             p == FixPoint(delays, i - 1)
             first == end[i - 1]
             E == res * first + x * res
  <2>1. /\ i - 1 \in Nat /\ (i - 1) + 1 = i
        /\ end[i] = Sample(x, res, res, first)
    BY <1>2
  <2>2. /\ p \in 0..2^22 /\ x \in Int /\ Size(x) <= 2^22 /\ FixPoint(delays, i) = p + x
        /\ p + x \in 0..2^22
    <3>1. i \in Nat
      OBVIOUS
    <3> QED
      BY <2>1, <3>1, FixPoints
  <2>3. first \in Int /\ first <= p + 2 * (i - 1) /\ first >= p - 2 * (i - 1)
    BY <1>4
  <2> HIDE DEF x, p, first
  <2>4. Size(first) <= 2^23
    BY <1>1, <2>2, <2>3 DEF Size
  <2>5. res \in 1..res
    BY <1>1
  <2>6. Sampled(x, res, res, first, E, Size(x) * res, end[i])
    BY <1>1, <2>1, <2>2, <2>3, <2>4, <2>5 DEF Sampled
  <2> HIDE DEF E
  <2>7. end[i] \in Int /\ res * end[i] <= E + 2 * res /\ res * end[i] >= E - 2 * res
    BY <2>6, SampleNear
  <2>8. E + 2 * res = res * (first + x + 2) /\ E - 2 * res = res * (first + x - 2)
    BY <1>1, <2>2, <2>3, SMT DEF E
  <2>9. end[i] <= first + x + 2 /\ end[i] >= first + x - 2
    <3>1. res \in Nat \ {0} /\ first + x + 2 \in Int /\ first + x - 2 \in Int
      BY <1>1, <2>2, <2>3
    <3>2. res * end[i] <= res * (first + x + 2) /\ res * (first + x - 2) <= res * end[i]
      BY <2>7, <2>8, <3>1, SMT DEF E
    <3>3. end[i] <= first + x + 2
      BY <2>7, <3>1, <3>2, Cancel
    <3>4. first + x - 2 <= end[i]
      BY <2>7, <3>1, <3>2, Cancel
    <3> QED
      BY <2>2, <2>3, <2>7, <3>3, <3>4
  <2> QED
    BY <2>2, <2>3, <2>7, <2>9
<1> HIDE DEF Near
<1>5. T \subseteq Nat /\ T \subseteq 0..Len(delays)
  OBVIOUS
<1>6. ASSUME NEW i \in T, \A j \in T : i <= j PROVE FALSE
  <2>1. i \in 1..Len(delays)
    <3>1. i # 0
      BY <1>3
    <3> QED
      BY <1>1, <1>5, <3>1
  <2>2. i - 1 \in 0..Len(delays) /\ i - 1 \notin T
    BY <1>1, <1>5, <1>6, <2>1
  <2>3. Near(i - 1)
    BY <2>2
  <2> QED
    BY <1>4, <2>1, <2>3
<1>7. T = {}
  <2> HIDE DEF T
  <2> QED
    BY <1>5, <1>6, Least
<1> QED
  BY <1>7 DEF Near, end

\* What "small" makes of the products.
LEMMA SmallProducts ==
  ASSUME NEW delays, NEW res, InRange(delays, res), Small(delays, res), NEW i \in Nat,
         NEW a \in 1..res
  PROVE  /\ Size(Rise(delays, i)) * a <= 2^21
         /\ \A first \in Int : first <= FixPoint(delays, i) => res * first <= 2^21
<1>1. res \in 1..2^15 /\ Len(delays) \in Nat \ {0}
  BY RangeTypes
<1>2. ASSUME NEW n \in Nat
      PROVE  FixPoint(delays, n) * res <= 2^21 /\ FixPoint(delays, n) \in 0..2^22
  BY FixPoints DEF Small
<1> DEFINE p == FixPoint(delays, i)
           q == FixPoint(delays, i + 1)
           y == Size(Rise(delays, i))
<1>3. p * res <= 2^21 /\ q * res <= 2^21 /\ p \in 0..2^22 /\ q \in 0..2^22
  <2>1. i + 1 \in Nat
    OBVIOUS
  <2> QED
    BY <1>2, <2>1
<1>4. y \in Nat /\ (y <= p \/ y <= q)
  BY <1>3 DEF Rise, Size
<1> HIDE DEF p, q, y
<1>5. y * a <= y * res
  BY <1>1, <1>4, SMT
<1>6. y * res <= p * res \/ y * res <= q * res
  BY <1>1, <1>3, <1>4, SMT
<1>7. y * a \in Int /\ y * res \in Int /\ p * res \in Int /\ q * res \in Int
  BY <1>1, <1>3, <1>4, SMT
<1>8. y * a <= 2^21
  BY <1>3, <1>5, <1>6, <1>7
<1>9. ASSUME NEW first \in Int, first <= p PROVE res * first <= 2^21
  <2>1. res * first <= p * res /\ res * first \in Int
    BY <1>1, <1>3, <1>9, SMT
  <2> QED
    BY <1>3, <1>7, <2>1
<1> QED
  BY <1>8, <1>9 DEF p, y

\* Then a segment ends at most one below where it was to end, and not above.
LEMMA EndsFloor ==
  ASSUME NEW delays, NEW res, InRange(delays, res), Small(delays, res)
  PROVE  \A i \in 0..Len(delays) :
           /\ Ends(delays, res)[i] <= FixPoint(delays, i)
           /\ Ends(delays, res)[i] >= FixPoint(delays, i) - i
<1> DEFINE end == Ends(delays, res)
           Floor(i) == /\ end[i] <= FixPoint(delays, i)
                       /\ end[i] >= FixPoint(delays, i) - i
           T == {i \in 0..Len(delays) : ~Floor(i)}
<1>1. Len(delays) \in Nat \ {0} /\ Len(delays) <= 2^20 /\ res \in 1..2^15
  BY RangeTypes
<1>2. /\ end[0] = delays[1]
      /\ \A i \in 1..Len(delays) :
           end[i] = Sample(Rise(delays, i - 1), res, res, end[i - 1])
  BY <1>1, EndsRecursion
<1>3. \A i \in 0..Len(delays) :
        /\ end[i] \in Int
        /\ end[i] <= FixPoint(delays, i) + 2 * i /\ end[i] >= FixPoint(delays, i) - 2 * i
  BY EndsNear
<1> HIDE DEF end
<1>4. Floor(0)
  <2>1. 0 % Len(delays) = 0
    BY <1>1, Remainders
  <2>2. FixPoint(delays, 0) = delays[1]
    BY <2>1 DEF FixPoint
  <2>3. FixPoint(delays, 0) \in 0..2^22
    BY FixPoints
  <2> QED
    BY <1>2, <2>2, <2>3
<1>5. ASSUME NEW i \in 1..Len(delays), Floor(i - 1) PROVE Floor(i)
  <2> DEFINE x == Rise(delays, i - 1)
             p == FixPoint(delays, i - 1)
             first == end[i - 1]
             E == res * first + x * res
  <2>1. /\ i - 1 \in Nat /\ (i - 1) + 1 = i /\ i - 1 \in 0..Len(delays) /\ i \in 0..Len(delays)
        /\ end[i] = Sample(x, res, res, first)
    BY <1>2
  <2>2. /\ p \in 0..2^22 /\ x \in Int /\ Size(x) <= 2^22 /\ FixPoint(delays, i) = p + x
        /\ p + x \in 0..2^22
    <3>1. i \in Nat
      OBVIOUS
    <3> QED
      BY <2>1, <3>1, FixPoints
  <2>3. first \in Int /\ end[i] \in Int /\ first <= p /\ first >= p - (i - 1)
    BY <1>3, <1>5, <2>1
  <2>4. res \in 1..res
    BY <1>1
  <2>5. Size(x) * res <= 2^21 /\ res * first <= 2^21
    BY <2>1, <2>3, <2>4, SmallProducts
  <2> HIDE DEF x, p, first
  <2>6. Size(first) <= 2^23
    BY <1>1, <2>2, <2>3 DEF Size
  <2>7. Sampled(x, res, res, first, E, Size(x) * res, end[i])
    BY <1>1, <2>1, <2>2, <2>3, <2>4, <2>6 DEF Sampled
  <2>8. /\ res \in Nat \ {0} /\ first + x \in Int /\ end[i] + 1 \in Int
        /\ E = res * (first + x)
    BY <1>1, <2>2, <2>3, SMT
  <2> HIDE DEF E
  <2>9. res * (end[i] + 1) >= E /\ (end[i] <= 0 \/ res * end[i] <= E)
    BY <2>5, <2>7, SampleFloor
  <2>10. first + x <= end[i] + 1
    <3>1. res * (first + x) <= res * (end[i] + 1)
      BY <2>3, <2>8, <2>9, SMT
    <3> QED
      BY <2>8, <3>1, Cancel
  <2>11. end[i] <= 0 \/ end[i] <= first + x
    BY <2>3, <2>8, <2>9, Cancel
  <2> QED
    BY <2>2, <2>3, <2>10, <2>11
<1> HIDE DEF Floor
<1>6. T \subseteq Nat /\ T \subseteq 0..Len(delays)
  OBVIOUS
<1>7. ASSUME NEW i \in T, \A j \in T : i <= j PROVE FALSE
  <2>1. i \in 1..Len(delays)
    <3>1. i # 0
      BY <1>4
    <3> QED
      BY <1>1, <1>6, <3>1
  <2>2. i - 1 \in 0..Len(delays) /\ i - 1 \notin T
    BY <1>1, <1>6, <1>7, <2>1
  <2>3. Floor(i - 1)
    BY <2>2
  <2> QED
    BY <1>5, <2>1, <2>3
<1>8. T = {}
  <2> HIDE DEF T
  <2> QED
    BY <1>6, <1>7, Least
<1> QED
  BY <1>8 DEF Floor, end

\* A second lies in one of the segments.
LEMMA Seconds ==
  ASSUME NEW n \in Nat, NEW res \in Nat \ {0}, NEW k \in 1 .. n * res
  PROVE  /\ (k - 1) \div res \in 0..(n - 1) /\ (k - 1) % res \in 0..(res - 1)
         /\ k - 1 = res * ((k - 1) \div res) + ((k - 1) % res)
<1> DEFINE i == (k - 1) \div res
           a == (k - 1) % res
<1>1. k - 1 \in Nat /\ k - 1 \in Int /\ k - 1 < n * res /\ n * res \in Int
  BY SMT
<1>2. i \in Nat /\ a \in 0..(res - 1) /\ k - 1 = res * i + a
  BY <1>1, DivMod
<1> HIDE DEF i, a
<1>3. res * i < res * n
  BY <1>1, <1>2, SMT
<1>4. i < n
  BY <1>2, <1>3, Cancel
<1> QED
  BY <1>2, <1>4 DEF i, a

\* What tmpQ holds for a second after the start of a segment.
LEMMA SampleOfSecond ==
  ASSUME NEW delays, NEW res, InRange(delays, res),
         NEW i \in 0..(Len(delays) - 1), NEW a \in 1..(res - 1),
         NEW first, first = Ends(delays, res)[i]
  PROVE  Sampled(Rise(delays, i), res, a, first, res * first + Rise(delays, i) * a,
                 Size(Rise(delays, i)) * a, Sample(Rise(delays, i), res, a, first))
<1>1. Len(delays) \in Nat \ {0} /\ Len(delays) <= 2^20 /\ res \in 1..2^15
  BY RangeTypes
<1>2. i \in 0..Len(delays) /\ i \in Nat /\ a \in 1..res
  BY <1>1
<1>3. first \in Int /\ first <= FixPoint(delays, i) + 2 * i /\ first >= FixPoint(delays, i) - 2 * i
  BY <1>2, EndsNear
<1>4. /\ FixPoint(delays, i) \in 0..2^22
      /\ Rise(delays, i) \in Int /\ Size(Rise(delays, i)) \in 0..2^22
  BY <1>2, FixPoints
<1>5. Size(first) <= 2^23
  <2> DEFINE p == FixPoint(delays, i)
  <2>1. p \in 0..2^22 /\ first <= p + 2 * i /\ first >= p - 2 * i
    BY <1>3, <1>4
  <2> HIDE DEF p
  <2>2. i < 2^20
    BY <1>1, <1>2
  <2>3. first <= 2^23 /\ -first <= 2^23
    BY <1>2, <1>3, <2>1, <2>2
  <2> QED
    BY <2>3 DEF Size
<1> QED
  BY <1>1, <1>2, <1>3, <1>4, <1>5 DEF Sampled

\* setDelays() leaves an int for each second.
LEMMA SetDelaysList ==
  ASSUME NEW delays, NEW res, InRange(delays, res)
  PROVE  /\ SetDelays(delays, res) \in Seq(Int) \ {<<>>}
         /\ Len(SetDelays(delays, res)) = Len(delays) * res
<1> DEFINE L == Len(delays) * res
           E(k) == LET i == (k - 1) \div res
                       a == (k - 1) % res
                       first == Ends(delays, res)[i]
                   IN  IF a = 0 THEN first ELSE Sample(Rise(delays, i), res, a, first)
<1>1. Len(delays) \in Nat \ {0} /\ res \in Nat \ {0} /\ res \in 1..2^15
  BY RangeTypes
<1>2. L \in Nat \ {0}
  BY <1>1, SMT
<1>3. ASSUME NEW k \in 1..L PROVE E(k) \in Int
  <2> DEFINE i == (k - 1) \div res
             a == (k - 1) % res
             first == Ends(delays, res)[i]
  <2>1. i \in 0..(Len(delays) - 1) /\ a \in 0..(res - 1)
    BY <1>1, Seconds
  <2> HIDE DEF i, a
  <2>2. i \in 0..Len(delays)
    BY <1>1, <2>1
  <2>3. first \in Int
    BY <2>2, EndsNear
  <2>4. ASSUME a # 0 PROVE Sample(Rise(delays, i), res, a, first) \in Int
    <3>1. a \in 1..(res - 1)
      BY <2>1, <2>4
    <3> QED
      BY <2>1, <3>1, SampleOfSecond, SampleNear
  <2> QED
    BY <2>3, <2>4 DEF i, a
<1>4. SetDelays(delays, res) = [k \in 1..L |-> E(k)]
  BY DEF SetDelays
<1> HIDE DEF L, E
<1>5. [k \in 1..L |-> E(k)] \in Seq(Int) /\ Len([k \in 1..L |-> E(k)]) = L
  BY <1>2, <1>3
<1> QED
  BY <1>2, <1>4, <1>5 DEF L

\* The int of a second lies at most one for each segment behind, and one, below
\* the interpolation, and not above it.
LEMMA SetDelaysNear ==
  ASSUME NEW delays, NEW res, InRange(delays, res), Small(delays, res),
         NEW k \in 1 .. Len(delays) * res
  PROVE  /\ SetDelays(delays, res)[k] <= Interpolation(delays, res)[k]
         /\ SetDelays(delays, res)[k] >=
              Interpolation(delays, res)[k] - (k - 1) \div res - 1
<1> DEFINE i == (k - 1) \div res
           a == (k - 1) % res
           first == Ends(delays, res)[i]
           p == FixPoint(delays, i)
           q == FixPoint(delays, i + 1)
           x == Rise(delays, i)
           Z == p * (res - a) + q * a
           R == SetDelays(delays, res)[k]
           exact == Interpolation(delays, res)[k]
<1>1. Len(delays) \in Nat \ {0} /\ res \in Nat \ {0} /\ res \in 1..2^15
  BY RangeTypes
<1>2. i \in 0..(Len(delays) - 1) /\ a \in 0..(res - 1)
  BY <1>1, Seconds
<1>3. R = IF a = 0 THEN first ELSE Sample(x, res, a, first)
  BY DEF SetDelays
<1>4. exact = Z \div res
  BY DEF Interpolation
<1> HIDE DEF i, a, R, exact
<1>5. i \in Nat /\ i \in 0..Len(delays)
  BY <1>1, <1>2
<1>6. /\ p \in 0..2^22 /\ x \in Int /\ Size(x) <= 2^22 /\ q = p + x /\ q \in 0..2^22
  <2>1. i + 1 \in Nat
    BY <1>5
  <2> QED
    BY <1>5, <2>1, FixPoints
<1>7. first \in Int /\ first <= p /\ first >= p - i
  BY <1>5, EndsNear, EndsFloor
<1>8. ASSUME a # 0
      PROVE  /\ R \in Int /\ res * (R + 1) >= res * first + x * a
             /\ R <= 0 \/ res * R <= res * first + x * a
  <2>1. a \in 1..(res - 1) /\ a \in 1..res
    BY <1>1, <1>2, <1>8
  <2>2. Sampled(x, res, a, first, res * first + x * a, Size(x) * a, R)
    BY <1>2, <1>3, <1>8, <2>1, SampleOfSecond
  <2>3. Size(x) * a <= 2^21 /\ res * first <= 2^21
    BY <1>5, <1>7, <2>1, SmallProducts
  <2> QED
    BY <2>2, <2>3, SampleFloor
<1> HIDE DEF p, q, x, first
<1>9. Z \in Nat /\ Z = res * p + x * a
  <2>1. p * (res - a) \in Nat /\ q * a \in Nat
    BY <1>1, <1>2, <1>6, SMT
  <2>2. p * (res - a) + (p + x) * a = res * p + x * a
    BY <1>1, <1>2, <1>6, SMT
  <2> QED
    BY <1>6, <2>1, <2>2
<1> HIDE DEF Z
<1>10. exact \in Nat /\ res * exact <= Z
  <2>1. Z \in Int
    BY <1>9
  <2>2. exact \in Nat
    BY <1>1, <1>4, <1>9, <2>1, DivMod
  <2>3. res * exact <= Z
    BY <1>1, <1>4, <2>1, <2>2, QuotientBound
  <2> QED
    BY <2>2, <2>3
<1>11. CASE a = 0
  <2>1. R = first /\ Z = res * p
    BY <1>1, <1>3, <1>6, <1>9, <1>11
  <2>2. p <= exact
    BY <1>1, <1>4, <1>6, <1>9, <2>1, QuotientBound
  <2>3. exact <= p
    BY <1>1, <1>6, <1>10, <2>1, Cancel
  <2> QED
    BY <1>5, <1>6, <1>7, <1>10, <2>1, <2>2, <2>3 DEF R, exact, i
<1>12. CASE a # 0
  <2>1. R \in Int
    BY <1>8, <1>12
  <2>2. exact <= R + 1 + i
    <3>1. res * first >= res * p - res * i /\ res * i \in Int
      BY <1>1, <1>5, <1>6, <1>7, SMT
    <3>2. res * (R + 1 + i) = res * (R + 1) + res * i
      BY <1>1, <1>5, <2>1, SMT
    <3> DEFINE A == res * (R + 1)
               B == res * first
               C == res * p
               D == x * a
               F == res * i
               G == res * exact
    <3>3. A \in Int /\ B \in Int /\ C \in Int /\ D \in Int /\ F \in Int /\ G \in Int
      BY <1>1, <1>2, <1>5, <1>6, <1>7, <1>10, <2>1, SMT
    <3>4. A >= B + D /\ B >= C - F /\ G <= C + D /\ res * (R + 1 + i) = A + F
      BY <1>8, <1>9, <1>10, <1>12, <3>1, <3>2
    <3> HIDE DEF A, B, C, D, F
    <3>5. G <= res * (R + 1 + i)
      <4> HIDE DEF G
      <4> QED
        BY <3>3, <3>4
    <3> QED
      BY <1>1, <1>5, <1>10, <2>1, <3>5, Cancel
  <2>3. R <= exact
    <3>1. CASE R <= 0
      BY <1>10, <2>1, <3>1
    <3>2. CASE res * R <= res * first + x * a
      <4>1. res * first <= res * p
        BY <1>1, <1>6, <1>7, SMT
      <4>2. res * R \in Int /\ res * first \in Int /\ res * p \in Int /\ x * a \in Int
        BY <1>1, <1>2, <1>6, <1>7, <2>1, SMT
      <4>3. res * R <= Z
        BY <1>9, <3>2, <4>1, <4>2
      <4>4. Z \in Int
        BY <1>9
      <4> QED
        BY <1>1, <1>4, <2>1, <4>3, <4>4, QuotientBound
    <3> QED
      BY <1>8, <1>12, <3>1, <3>2
  <2> QED
    BY <1>5, <1>10, <2>1, <2>2, <2>3 DEF R, exact, i
<1> QED
  BY <1>11, <1>12

-----------------------------------------------------------------------------
\* The types of the times.
LEMMA Times ==
  ASSUME TypeOK, MoreTypes
  PROVE  /\ now \in Nat /\ Interval \in Nat \ {0} /\ MaxTime \in Nat /\ delay_ \in Int
         /\ \A p \in Packets : /\ arrivedAt[p] \in Nat /\ queuedAt[p] \in Nat /\ sentAt[p] \in Nat
                               /\ stamp[p] \in Nat /\ held[p] \in Int
         /\ \A i \in 1..Len(accepted) : accepted[i] \in Packets
         /\ Len(accepted) \in Nat /\ Len(handled) \in Nat /\ Len(out) \in Nat
<1>1. now \in Nat /\ Interval \in Nat \ {0} /\ MaxTime \in Nat /\ delay_ \in Int
  BY ConstantsAssumption DEF TypeOK
<1>2. \A p \in Packets : /\ arrivedAt[p] \in Nat /\ queuedAt[p] \in Nat /\ sentAt[p] \in Nat
                         /\ stamp[p] \in Nat /\ held[p] \in Int
  BY <1>1 DEF TypeOK, MoreTypes
<1>3. \A i \in 1..Len(accepted) : accepted[i] \in Packets
  BY DEF TypeOK
<1>4. Len(accepted) \in Nat /\ Len(handled) \in Nat /\ Len(out) \in Nat
  BY DEF TypeOK
<1> QED
  BY <1>1, <1>2, <1>3, <1>4

\* What the pump does while a packet is popped.
LEMMA PoppedPacket ==
  ASSUME TypeOK, MoreTypes, Pump, NEW h \in popped
  PROVE  /\ h.pkt = accepted[Len(handled)] /\ h.now = now /\ popped = {h} /\ timers = {}
         /\ Len(handled) = Len(out) + 1 /\ Len(handled) \in 1..Len(accepted)
         /\ ~waiting /\ ~rearm
<1>1. /\ popped = {[pkt |-> accepted[Len(handled)], now |-> now]} /\ timers = {}
      /\ ~waiting /\ ~rearm /\ Len(handled) = Len(out) + 1
  BY DEF Pump
<1>2. h = [pkt |-> accepted[Len(handled)], now |-> now]
  BY <1>1
<1>3. Len(handled) \in 1..Len(accepted)
  BY <1>1, Times DEF Pump
<1> QED
  BY <1>1, <1>2, <1>3

\* ... and while its timer runs.
LEMMA TimerPacket ==
  ASSUME TypeOK, MoreTypes, Pump, NEW t \in timers
  PROVE  /\ t.pkt = accepted[Len(handled)] /\ t.due \in Nat /\ timers = {t} /\ popped = {}
         /\ Len(handled) = Len(out) + 1 /\ Len(handled) \in 1..Len(accepted)
         /\ ~waiting /\ ~rearm /\ t.pkt \in Packets \ outside
<1>1. /\ ~waiting /\ ~rearm /\ Len(handled) = Len(out) + 1 /\ popped = {}
      /\ \E due \in Nat : timers = {[pkt |-> accepted[Len(handled)], due |-> due]}
  BY DEF Pump
<1>2. PICK due \in Nat : timers = {[pkt |-> accepted[Len(handled)], due |-> due]}
  BY <1>1
<1>3. t = [pkt |-> accepted[Len(handled)], due |-> due]
  BY <1>2
<1>4. Len(handled) \in 1..Len(accepted)
  BY <1>1, Times DEF Pump
<1>5. accepted[Len(handled)] \in Packets \ outside
  BY <1>4, Times DEF Pump
<1> QED
  BY <1>1, <1>2, <1>3, <1>4, <1>5

\* What has been sent was queued, and what is to be sent has not been sent.
LEMMA SentPackets ==
  ASSUME TypeOK, MoreTypes, Pump
  PROVE  /\ \A i \in 1..Len(out) : /\ out[i] = accepted[i] /\ out[i] \in Packets \ outside
                                   /\ i \in 1..Len(accepted)
         /\ \A p \in InSeq(out) : p \in InSeq(accepted) /\ p \in Packets \ outside
         /\ \A i \in 1..Len(accepted) : i > Len(out) => accepted[i] \notin InSeq(out)
<1>1. Len(out) \in Nat /\ Len(accepted) \in Nat /\ Len(out) <= Len(accepted)
  BY Times DEF Pump
<1>2. \A i \in 1..Len(accepted) : accepted[i] \in Packets \ outside
  BY Times DEF Pump
<1>3. \A i \in 1..Len(out) : i \in 1..Len(accepted) /\ out[i] = accepted[i]
  BY <1>1 DEF Pump
<1>4. \A p \in InSeq(out) : p \in InSeq(accepted) /\ p \in Packets \ outside
  BY <1>2, <1>3 DEF InSeq
<1>5. ASSUME NEW i \in 1..Len(accepted), i > Len(out) PROVE accepted[i] \notin InSeq(out)
  <2>1. \A j \in 1..Len(out) : j # i /\ j \in 1..Len(accepted) /\ out[j] = accepted[j]
    BY <1>1, <1>3, <1>5
  <2> QED
    BY <2>1 DEF InSeq, Pump
<1> QED
  BY <1>2, <1>3, <1>4, <1>5

\* Appending a packet adds it to those in the sequence.
LEMMA InAppend ==
  ASSUME NEW s \in Seq(Packets), NEW p \in Packets
  PROVE  InSeq(Append(s, p)) = InSeq(s) \cup {p}
<1> DEFINE r == Append(s, p)
<1>1. \A x : (\E i \in 1..Len(r) : r[i] = x) <=> x = p \/ \E i \in 1..Len(s) : s[i] = x
  BY AppendElements
<1> HIDE DEF r
<1>2. InSeq(r) = InSeq(s) \cup {p}
  BY <1>1, Zenon DEF InSeq
<1> QED
  BY <1>2 DEF r

-----------------------------------------------------------------------------
\* setDelays() leaves a curve of integers, and a delay for every pattern.
LEMMA CurveInit ==
  ASSUME Init
  PROVE  curve \in Seq(Int) /\ Len(curve) \in Nat /\ delayQ_ = curve
<1>1. PICK o \in Options : pattern = o[1] /\ resolution = o[2]
  BY DEF Init
<1>2. CASE pattern = <<>>
  BY <1>2 DEF Init
<1>3. CASE pattern # <<>>
  <2>1. InRange(pattern, resolution) /\ curve = SetDelays(pattern, resolution)
    BY <1>1, <1>3, PatternAssumption DEF Init
  <2> QED
    BY <2>1, SetDelaysList DEF Init
<1> QED
  BY <1>2, <1>3

\* At the start, the first delay is about to be popped and nothing is queued.
LEMMA InvInit == Init => TypeOK /\ MoreTypes /\ Pump /\ Stamps
<1> SUFFICES ASSUME Init PROVE TypeOK /\ MoreTypes /\ Pump /\ Stamps
  OBVIOUS
<1> USE ConstantsAssumption
<1>1. curve \in Seq(Int) /\ Len(curve) \in Nat /\ delayQ_ = curve
  BY CurveInit
<1>2. <<>> \in Seq(Packets) /\ accepted = <<>> /\ handled = <<>> /\ out = <<>>
  BY DEF Init, Queue!Init
<1>3. /\ stamp \in [Packets -> 0..MaxTime] /\ arrivedAt \in [Packets -> 0..MaxTime]
      /\ queuedAt \in [Packets -> 0..MaxTime] /\ sentAt \in [Packets -> 0..MaxTime]
      /\ held \in [Packets -> Int]
  BY DEF Init
<1>4. /\ now = 0 /\ changeDue = 0 /\ delay_ = 0 /\ d = 0 /\ delayPc = "asyncPop" /\ turns = 0
      /\ outside = Packets /\ popped = {} /\ timers = {}
      /\ ~closed /\ ~ended /\ waiting = FALSE /\ rearm = TRUE /\ punctual = TRUE
  BY DEF Init, Queue!Init
<1>5. now \in 0..MaxTime /\ changeDue \in 0..(MaxTime + Interval)
  BY <1>4
<1>6. TypeOK
  BY <1>1, <1>2, <1>3, <1>4, <1>5 DEF TypeOK
<1>7. MoreTypes
  BY <1>1, <1>3, <1>4 DEF MoreTypes
<1>8. Pump
  BY <1>2, <1>4 DEF Pump
<1>9. Stamps
  BY <1>4 DEF Stamps
<1> QED
  BY <1>6, <1>7, <1>8, <1>9

\* The handler of the delays and that of the packets share delay_ and the clock.
LEMMA TwoHandlers ==
  [Next]_vars => \/ /\ DelayAsyncPop \/ DelayPopHandler \/ DelayPush \/ DelaySet \/ DelayTimer
                    /\ UNCHANGED <<curve, now, packetVars, punctual>>
                 \/ UNCHANGED <<curve, delayVars>>
BY DEF Next, Change, Receive, HandlePacket, PopHandler, Arm, Forward, Rearm, Tick, others, vars

-----------------------------------------------------------------------------
(* The delays. *)
\* Going on by the length of the curve leads to the same delay again.
LEMMA Following1 ==
  ASSUME MoreTypes, curve # <<>>, NEW k \in Nat
  PROVE  /\ Following(k) \in Int
         /\ Following(k + Len(curve)) = Following(k)
         /\ k < Len(curve) => Following(k) = curve[k + 1]
         /\ Delay(k + 1) = Following(k)
<1>1. Len(curve) \in Nat \ {0} /\ curve \in Seq(Int)
  BY DEF MoreTypes
<1>2. k % Len(curve) \in 0..(Len(curve) - 1)
  BY <1>1, Remainders
<1>3. (k % Len(curve)) + 1 \in 1..Len(curve)
  BY <1>1, <1>2
<1>4. Following(k) \in Int
  BY <1>1, <1>3 DEF Following
<1>5. Following(k + Len(curve)) = Following(k)
  BY <1>1, Remainders DEF Following
<1>6. k < Len(curve) => Following(k) = curve[k + 1]
  BY <1>1, Remainders DEF Following
<1>7. k + 1 # 0 /\ (k + 1) - 1 = k
  OBVIOUS
<1>8. Delay(k + 1) = Following(k)
  BY <1>7 DEF Delay, Following
<1> QED
  BY <1>4, <1>5, <1>6, <1>8

\* At the start, delayQ_ is the curve.
LEMMA CycleInit == Init => Cycle
<1> SUFFICES ASSUME Init PROVE Cycle
  OBVIOUS
<1>1. curve \in Seq(Int) /\ Len(curve) \in Nat /\ delayQ_ = curve /\ MoreTypes
  BY CurveInit, InvInit
<1>2. delay_ = 0 /\ turns = 0 /\ delayPc = "asyncPop"
  BY DEF Init
<1>3. ASSUME NEW i \in 1..Len(curve) PROVE curve[i] = Following(turns + i - 1)
  <2>1. curve # <<>> /\ i - 1 \in Nat /\ i - 1 < Len(curve) /\ (i - 1) + 1 = i
    BY <1>1
  <2>2. Following(i - 1) = curve[i]
    BY <1>1, <2>1, Following1
  <2>3. turns + i - 1 = i - 1
    BY <1>2, <2>1
  <2> QED
    BY <2>2, <2>3
<1> QED
  BY <1>1, <1>2, <1>3 DEF Cycle, Delay

\* The delays go round: one is taken from the front, put back at the end, and
\* comes into force.
LEMMA CycleStep == TypeOK /\ MoreTypes /\ Cycle /\ [Next]_vars => Cycle'
<1> SUFFICES ASSUME TypeOK, MoreTypes, Cycle, [Next]_vars PROVE Cycle'
  OBVIOUS
<1>0. /\ delayQ_ \in Seq(Int) /\ Len(delayQ_) \in Nat /\ d \in Int
      /\ turns \in Nat /\ curve \in Seq(Int) /\ Len(curve) \in Nat
  BY DEF TypeOK, MoreTypes
<1>1. ASSUME DelayAsyncPop \/ DelayTimer, curve' = curve PROVE Cycle'
  <2>1. /\ UNCHANGED <<curve, delay_, delayQ_, d, turns>>
        /\ delayPc \in {"asyncPop", "timer"} /\ delayPc' \in {"waiting", "asyncPop"}
        /\ curve = <<>> => delayPc' = "waiting"
    BY <1>1 DEF DelayAsyncPop, DelayTimer, DelayAt, Cycle
  <2> QED
    BY <2>1 DEF Cycle, Following, Delay
<1>2. ASSUME DelayPopHandler, curve' = curve PROVE Cycle'
  <2>1. /\ delayPc = "waiting" /\ delayPc' = "push" /\ delayQ_ # <<>>
        /\ d' = Head(delayQ_) /\ delayQ_' = Tail(delayQ_) /\ UNCHANGED <<curve, delay_, turns>>
    BY <1>2 DEF DelayPopHandler, DelayAt
  <2>2. /\ Len(delayQ_) = Len(curve) /\ curve # <<>>
        /\ \A i \in 1..Len(delayQ_) : delayQ_[i] = Following(turns + i - 1)
    BY <2>1 DEF Cycle
  <2>3. /\ d' = delayQ_[1] /\ Len(delayQ_') = Len(curve) - 1 /\ 1 \in 1..Len(delayQ_)
        /\ \A i \in 1..Len(delayQ_') : i + 1 \in 1..Len(delayQ_) /\ delayQ_'[i] = delayQ_[i + 1]
    BY <1>0, <2>1, <2>2
  <2>4. turns + 1 - 1 = turns /\ \A i \in 1..Len(delayQ_') : turns + (i + 1) - 1 = turns + i
    BY <1>0
  <2>5. /\ d' = Following(turns)
        /\ \A i \in 1..Len(delayQ_') : delayQ_'[i] = Following(turns + i)
    BY <2>2, <2>3, <2>4
  <2> QED
    BY <2>1, <2>2, <2>3, <2>5 DEF Cycle, Following, Delay
<1>3. ASSUME DelayPush, curve' = curve PROVE Cycle'
  <2>1. /\ delayPc = "push" /\ delayPc' = "set"
        /\ delayQ_' = Append(delayQ_, d) /\ UNCHANGED <<curve, delay_, d, turns>>
    BY <1>3 DEF DelayPush, DelayAt
  <2>2. /\ Len(delayQ_) = Len(curve) - 1 /\ d = Following(turns) /\ curve # <<>>
        /\ \A i \in 1..Len(delayQ_) : delayQ_[i] = Following(turns + i)
    BY <2>1 DEF Cycle
  <2>3. /\ Len(delayQ_') = Len(curve) /\ delayQ_'[Len(curve)] = d
        /\ \A i \in 1..Len(delayQ_) : delayQ_'[i] = delayQ_[i]
        /\ \A i \in 1..Len(delayQ_') : i \in 1..Len(delayQ_) \/ i = Len(curve)
    BY <1>0, <2>1, <2>2
  <2>4. Following(turns + Len(curve)) = Following(turns)
    BY <1>0, <2>2, Following1
  <2>5. \A i \in 1..Len(delayQ_') : delayQ_'[i] = Following(turns + i)
    BY <2>2, <2>3, <2>4
  <2> QED
    BY <2>1, <2>2, <2>3, <2>5 DEF Cycle, Following, Delay
<1>4. ASSUME DelaySet, curve' = curve PROVE Cycle'
  <2>1. /\ delayPc = "set" /\ delayPc' = "timer"
        /\ delay_' = d /\ turns' = turns + 1 /\ UNCHANGED <<curve, delayQ_, d>>
    BY <1>4 DEF DelaySet, DelayAt
  <2>2. /\ Len(delayQ_) = Len(curve) /\ d = Following(turns) /\ curve # <<>>
        /\ \A i \in 1..Len(delayQ_) : delayQ_[i] = Following(turns + i)
    BY <2>1 DEF Cycle
  <2>3. \A i \in 1..Len(delayQ_) : turns' + i - 1 = turns + i
    BY <1>0, <2>1
  <2>4. Delay(turns + 1) = d
    BY <1>0, <2>2, Following1
  <2>5. \A i \in 1..Len(delayQ_) : delayQ_[i] = Following(turns' + i - 1)
    BY <2>2, <2>3
  <2> QED
    BY <2>1, <2>2, <2>4, <2>5 DEF Cycle, Following, Delay
<1>5. CASE UNCHANGED <<curve, delayVars>>
  BY <1>5 DEF delayVars, Cycle, Following, Delay
<1> QED
  BY <1>1, <1>2, <1>3, <1>4, <1>5, TwoHandlers

\* No change comes before its time, and none late if the threads keep up.
LEMMA ScheduleStep ==
  TypeOK /\ MoreTypes /\ Cycle /\ Schedule /\ Punctual /\ [Next]_vars => Schedule' /\ Punctual'
<1> SUFFICES ASSUME TypeOK, MoreTypes, Cycle, Schedule, Punctual, [Next]_vars
             PROVE  Schedule' /\ Punctual'
  OBVIOUS
<1>0. /\ turns \in Nat /\ now \in Nat /\ Interval \in Nat \ {0} /\ changeDue \in Nat
  BY ConstantsAssumption DEF TypeOK, MoreTypes
<1>a. /\ turns * Interval \in Nat
      /\ (turns + 1) * Interval = turns * Interval + Interval
  BY <1>0, Quotients
<1>1. ASSUME DelayAsyncPop \/ DelayPopHandler \/ DelayPush, UNCHANGED <<curve, now, punctual>>
      PROVE  Schedule' /\ Punctual'
  BY <1>1 DEF DelayAsyncPop, DelayPopHandler, DelayPush, DelayAt, Schedule, Punctual
<1>2. ASSUME DelaySet, UNCHANGED <<curve, now, punctual>> PROVE Schedule' /\ Punctual'
  <2>1. /\ delayPc = "set" /\ delayPc' = "timer" /\ turns' = turns + 1
        /\ changeDue' = now + Interval
    BY <1>2 DEF DelaySet, DelayAt
  <2>2. /\ turns * Interval <= now
        /\ punctual /\ curve # <<>> => now = turns * Interval
    BY <2>1 DEF Schedule, Punctual
  <2>3. turns' > 0 /\ turns' - 1 = turns
    BY <1>0, <2>1
  <2>4. turns' * Interval <= changeDue' /\ now <= changeDue'
    BY <1>0, <1>a, <2>1, <2>2
  <2>5. punctual /\ curve # <<>> => changeDue' = turns' * Interval
    BY <1>0, <1>a, <2>1, <2>2
  <2>6. Schedule'
    BY <1>2, <2>1, <2>2, <2>3, <2>4 DEF Schedule
  <2>7. Punctual'
    BY <1>2, <2>1, <2>4, <2>5 DEF Punctual
  <2> QED
    BY <2>6, <2>7
<1>3. ASSUME DelayTimer, UNCHANGED <<curve, now, punctual>> PROVE Schedule' /\ Punctual'
  <2>1. /\ delayPc = "timer" /\ delayPc' = "asyncPop" /\ now >= changeDue
        /\ UNCHANGED <<turns, changeDue>>
    BY <1>3 DEF DelayTimer, DelayAt
  <2>2. turns * Interval <= now
    BY <1>0, <1>a, <2>1 DEF Schedule
  <2>3. punctual /\ curve # <<>> => now = turns * Interval
    BY <1>0, <1>a, <2>1 DEF Punctual
  <2> QED
    BY <1>3, <2>1, <2>2, <2>3 DEF Schedule, Punctual
<1>4. ASSUME Tick PROVE Schedule' /\ Punctual'
  <2>1. /\ now' = now + 1 /\ punctual' = (punctual /\ ~Busy)
        /\ UNCHANGED <<curve, delayPc, changeDue, turns, delayQ_>>
    BY <1>4 DEF Tick, delayVars
  <2>2. Schedule'
    <3>1. CASE delayPc = "timer"
      <4>1. turns - 1 \in Nat
        BY <1>0, <3>1 DEF Schedule
      <4>2. (turns - 1) * Interval \in Nat
        BY <1>0, <4>1, Quotients
      <4>3. (turns - 1) * Interval <= now + 1
        BY <1>0, <3>1, <4>2 DEF Schedule
      <4> QED
        BY <2>1, <3>1, <4>3 DEF Schedule
    <3>2. CASE delayPc # "timer"
      <4>1. turns * Interval <= now + 1
        BY <1>0, <1>a, <3>2 DEF Schedule
      <4> QED
        BY <2>1, <3>2, <4>1 DEF Schedule
    <3> QED
      BY <3>1, <3>2
  <2>3. ASSUME punctual', curve # <<>>
        PROVE  delayPc = "timer" /\ now + 1 <= changeDue /\ changeDue = turns * Interval
    <3>1. punctual /\ ~ChangeBusy
      BY <2>1, <2>3 DEF Busy
    <3>2. delayPc = "timer"
      <4>1. delayPc = "waiting" => delayQ_ # <<>>
        BY <2>3 DEF Cycle, TypeOK, MoreTypes
      <4> QED
        BY <3>1, <4>1 DEF ChangeBusy, TypeOK
    <3> QED
      BY <1>0, <2>3, <3>1, <3>2 DEF ChangeBusy, Punctual
  <2>4. Punctual'
    BY <2>1, <2>3 DEF Punctual
  <2> QED
    BY <2>2, <2>4
<1>5. ASSUME UNCHANGED <<curve, now, delayVars, punctual>> PROVE Schedule' /\ Punctual'
  BY <1>5 DEF delayVars, Schedule, Punctual
<1>6. [Next]_vars => \/ /\ DelayAsyncPop \/ DelayPopHandler \/ DelayPush \/ DelaySet \/ DelayTimer
                        /\ UNCHANGED <<curve, now, punctual>>
                     \/ Tick
                     \/ UNCHANGED <<curve, now, delayVars, punctual>>
  BY DEF Next, Change, Receive, HandlePacket, PopHandler, Arm, Forward, Rearm, others, vars
<1> QED
  BY <1>1, <1>2, <1>3, <1>4, <1>5, <1>6

-----------------------------------------------------------------------------
(* The packets. *)
\* What handlePacket() does to the queue.
LEMMA Queued ==
  ASSUME TypeOK, MoreTypes, NEW p \in Packets, HandlePacket(p)
  PROVE  /\ accepted' = Append(accepted, p) /\ accepted' \in Seq(Packets)
         /\ Len(accepted') = Len(accepted) + 1 /\ accepted'[Len(accepted) + 1] = p
         /\ 1..Len(accepted') = 1..Len(accepted) \cup {Len(accepted) + 1}
         /\ queuedAt'[p] = now
         /\ \A i \in 1..Len(accepted) : /\ accepted'[i] = accepted[i] /\ accepted[i] # p
                                        /\ queuedAt'[accepted[i]] = queuedAt[accepted[i]]
         /\ p \notin outside /\ p \notin InSeq(accepted)
         /\ queuedAt' \in [Packets -> 0..MaxTime]
         /\ UNCHANGED <<others, stamp, outside, handled, waiting, closed, ended, popped, timers, rearm,
                        out, arrivedAt, sentAt, held>>
<1>1. /\ accepted' = Append(accepted, p) /\ accepted \in Seq(Packets)
      /\ p \notin outside /\ p \notin InSeq(accepted)
      /\ queuedAt' = [queuedAt EXCEPT ![p] = now] /\ queuedAt \in [Packets -> 0..MaxTime]
      /\ now \in 0..MaxTime
      /\ UNCHANGED <<others, stamp, outside, handled, waiting, closed, ended, popped, timers, rearm,
                     out, arrivedAt, sentAt, held>>
  BY DEF HandlePacket, Queue!Accept, TypeOK, MoreTypes
<1>2. \A i \in 1..Len(accepted) : accepted[i] \in Packets /\ accepted[i] # p
  BY <1>1 DEF InSeq
<1>3. /\ queuedAt'[p] = now /\ queuedAt' \in [Packets -> 0..MaxTime]
      /\ \A i \in 1..Len(accepted) : queuedAt'[accepted[i]] = queuedAt[accepted[i]]
  BY <1>1, <1>2
<1>4. /\ accepted' \in Seq(Packets)
      /\ Len(accepted') = Len(accepted) + 1 /\ accepted'[Len(accepted) + 1] = p
      /\ 1..Len(accepted') = 1..Len(accepted) \cup {Len(accepted) + 1}
      /\ \A i \in 1..Len(accepted) : accepted'[i] = accepted[i]
  BY <1>1
<1> QED
  BY <1>1, <1>2, <1>3, <1>4

\* What popHandler() does with the first packet of the queue.
LEMMA Popped ==
  ASSUME TypeOK, MoreTypes, Pump, PopHandler
  PROVE  LET p == accepted[Len(handled) + 1] IN
         /\ p \in Packets \ outside /\ Len(handled) + 1 \in 1..Len(accepted)
         /\ waiting /\ ~rearm /\ popped = {} /\ timers = {} /\ Len(handled) = Len(out)
         /\ handled' \in Seq(Packets) /\ Len(handled') = Len(handled) + 1
         /\ handled'[Len(handled')] = p
         /\ \A i \in 1..Len(handled) : handled'[i] = handled[i]
         /\ popped' = {[pkt |-> p, now |-> now]} /\ waiting' = FALSE
         /\ UNCHANGED <<others, stamp, outside, accepted, closed, ended, timers, rearm, out,
                        arrivedAt, queuedAt, sentAt, held>>
<1> DEFINE p == accepted[Len(handled) + 1]
<1>1. /\ waiting /\ Len(handled) < Len(accepted) /\ handled' = Append(handled, p)
      /\ popped' = {[pkt |-> p, now |-> now]} /\ waiting' = FALSE
      /\ UNCHANGED <<others, stamp, outside, accepted, closed, ended, timers, rearm, out,
                     arrivedAt, queuedAt, sentAt, held>>
  BY DEF PopHandler, Queue!Handle
<1>2. Len(handled) + 1 \in 1..Len(accepted)
  BY <1>1, Times
<1>3. p \in Packets \ outside
  BY <1>2, Times DEF Pump
<1>4. ~rearm /\ popped = {} /\ timers = {} /\ Len(handled) = Len(out)
  BY <1>1 DEF Pump
<1>5. handled \in Seq(Packets)
  BY DEF TypeOK
<1> HIDE DEF p
<1>6. /\ handled' \in Seq(Packets) /\ Len(handled') = Len(handled) + 1
      /\ handled'[Len(handled')] = p /\ \A i \in 1..Len(handled) : handled'[i] = handled[i]
  BY <1>1, <1>3, <1>5
<1> QED
  BY <1>1, <1>2, <1>3, <1>4, <1>6 DEF p

\* The timer of a popped packet expires now, or once it has been in the router
\* for the delay in force.
LEMMA Armed ==
  ASSUME TypeOK, MoreTypes, Pump, Stamps, NEW h \in popped, Arm(h)
  PROVE  LET p == accepted[Len(handled)]
             due == Later(now, arrivedAt[p] + delay_)
         IN
         /\ h.pkt = p /\ h.now = now /\ p \in Packets \ (outside \cup InSeq(out))
         /\ Len(handled) = Len(out) + 1 /\ Len(handled) \in 1..Len(accepted)
         /\ ~waiting /\ ~rearm /\ popped' = {}
         /\ due \in Nat /\ timers' = {[pkt |-> p, due |-> due]}
         /\ held' = [held EXCEPT ![p] = delay_]
         /\ UNCHANGED <<others, stamp, outside, queueVars, rearm, out, arrivedAt, queuedAt, sentAt>>
<1> DEFINE p == accepted[Len(handled)]
           due == Later(now, arrivedAt[p] + delay_)
<1>1. /\ h.pkt = p /\ h.now = now /\ timers = {} /\ ~waiting /\ ~rearm
      /\ Len(handled) = Len(out) + 1 /\ Len(handled) \in 1..Len(accepted)
  BY PoppedPacket
<1>2. p \in Packets \ (outside \cup InSeq(out))
  <2>1. Len(handled) > Len(out)
    BY <1>1, Times
  <2> QED
    BY <1>1, <2>1, SentPackets, Times DEF Pump
<1>3. stamp[p] = arrivedAt[p] /\ arrivedAt[p] <= now
  BY <1>2 DEF Stamps
<1>4. arrivedAt[p] \in Nat /\ now \in Nat /\ delay_ \in Int
  BY <1>2, Times
<1>5. /\ popped' = {} /\ held' = [held EXCEPT ![p] = delay_]
      /\ timers' = {[pkt |-> p, due |-> now + AtLeastZero(delay_ - (now - stamp[p]))]}
      /\ UNCHANGED <<others, stamp, outside, queueVars, rearm, out, arrivedAt, queuedAt, sentAt>>
  BY <1>1 DEF Arm
<1> HIDE DEF p
<1>6. now + AtLeastZero(delay_ - (now - stamp[p])) = due /\ due \in Nat
  BY <1>3, <1>4 DEF AtLeastZero, Later
<1> QED
  BY <1>1, <1>2, <1>5, <1>6 DEF p

\* What a timer's function does.
LEMMA Forwarded ==
  ASSUME TypeOK, MoreTypes, Pump, NEW t \in timers, Forward(t)
  PROVE  /\ t.pkt = accepted[Len(out) + 1] /\ Len(out) + 1 \in 1..Len(accepted)
         /\ Len(handled) = Len(out) + 1 /\ ~waiting /\ ~rearm /\ popped = {} /\ rearm' = TRUE
         /\ t.pkt \in Packets \ (outside \cup InSeq(out)) /\ t.due \in Nat /\ now >= t.due
         /\ timers' = {} /\ out' \in Seq(Packets) /\ InSeq(out') = InSeq(out) \cup {t.pkt}
         /\ out' # <<>> /\ Len(out') = Len(out) + 1 /\ out'[Len(out')] = t.pkt
         /\ \A i \in 1..Len(out) : /\ out'[i] = out[i] /\ out[i] # t.pkt
                                   /\ sentAt'[out[i]] = sentAt[out[i]]
         /\ sentAt'[t.pkt] = now /\ sentAt' \in [Packets -> 0..MaxTime]
         /\ \A p \in Packets \ {t.pkt} : stamp'[p] = stamp[p] /\ sentAt'[p] = sentAt[p]
         /\ stamp' \in [Packets -> 0..MaxTime]
         /\ UNCHANGED <<others, outside, queueVars, popped, arrivedAt, queuedAt, held>>
<1>1. /\ t.pkt = accepted[Len(handled)] /\ t.due \in Nat /\ timers = {t} /\ popped = {}
      /\ Len(handled) = Len(out) + 1 /\ Len(handled) \in 1..Len(accepted)
      /\ ~waiting /\ ~rearm /\ t.pkt \in Packets \ outside
  BY TimerPacket
<1>2. /\ now >= t.due /\ timers' = timers \ {t} /\ out' = Append(out, t.pkt) /\ rearm' = TRUE
      /\ stamp' = [stamp EXCEPT ![t.pkt] = now] /\ sentAt' = [sentAt EXCEPT ![t.pkt] = now]
      /\ UNCHANGED <<others, outside, queueVars, popped, arrivedAt, queuedAt, held>>
  BY DEF Forward
<1>3. t.pkt \notin InSeq(out)
  <2>1. Len(handled) > Len(out)
    BY <1>1, Times
  <2> QED
    BY <1>1, <2>1, SentPackets
<1>4. /\ out \in Seq(Packets) /\ now \in 0..MaxTime
      /\ stamp \in [Packets -> 0..MaxTime] /\ sentAt \in [Packets -> 0..MaxTime]
  BY DEF TypeOK, MoreTypes
<1>5. /\ out' \in Seq(Packets) /\ out' # <<>> /\ Len(out') = Len(out) + 1
      /\ out'[Len(out')] = t.pkt /\ \A i \in 1..Len(out) : out'[i] = out[i]
  <2>1. t.pkt \in Packets /\ out' = Append(out, t.pkt) /\ out \in Seq(Packets)
    BY <1>1, <1>2, <1>4
  <2> QED
    BY <2>1, Appended
<1>6. InSeq(out') = InSeq(out) \cup {t.pkt}
  BY <1>1, <1>2, <1>4, InAppend
<1>7. /\ sentAt'[t.pkt] = now /\ sentAt' \in [Packets -> 0..MaxTime]
      /\ \A p \in Packets \ {t.pkt} : stamp'[p] = stamp[p] /\ sentAt'[p] = sentAt[p]
      /\ stamp' \in [Packets -> 0..MaxTime]
  BY <1>1, <1>2, <1>4
<1>8. \A i \in 1..Len(out) : out[i] \in Packets \ {t.pkt}
  BY <1>3, SentPackets DEF InSeq
<1> QED
  BY <1>1, <1>2, <1>3, <1>5, <1>6, <1>7, <1>8

\* No step disturbs the types.
LEMMA TypeStep ==
  TypeOK /\ MoreTypes /\ Pump /\ Stamps /\ Cycle /\ [Next]_vars => TypeOK' /\ MoreTypes'
<1> SUFFICES ASSUME TypeOK, MoreTypes, Pump, Stamps, Cycle, [Next]_vars
             PROVE  TypeOK' /\ MoreTypes'
  OBVIOUS
<1> USE ConstantsAssumption DEF queueVars, delayVars, packetVars, others
<1>1. ASSUME NEW p \in Packets, Receive(p) PROVE TypeOK' /\ MoreTypes'
  BY <1>1 DEF Receive, TypeOK, MoreTypes
<1>2. ASSUME NEW p \in Packets, HandlePacket(p) PROVE TypeOK' /\ MoreTypes'
  <2>1. /\ accepted' \in Seq(Packets) /\ queuedAt' \in [Packets -> 0..MaxTime]
        /\ UNCHANGED <<others, stamp, outside, handled, waiting, closed, ended, popped, timers, rearm,
                       out, arrivedAt, sentAt, held>>
    BY <1>2, Queued
  <2>2. TypeOK'
    BY <2>1 DEF TypeOK
  <2>3. MoreTypes'
    BY <2>1 DEF MoreTypes
  <2> QED
    BY <2>2, <2>3
<1>3. ASSUME PopHandler PROVE TypeOK' /\ MoreTypes'
  <2>1. PICK p \in Packets : /\ popped' = {[pkt |-> p, now |-> now]} /\ handled'[Len(handled')] = p
                             /\ handled' \in Seq(Packets) /\ Len(handled') \in 1..Len(handled')
                             /\ timers = {} /\ ~rearm /\ waiting' = FALSE
    BY <1>3, Popped, Times
  <2>2. \A h \in popped' : h.pkt \in InSeq(handled') /\ h.now \in 0..now
    BY <2>1, Times DEF InSeq
  <2>3. UNCHANGED <<others, stamp, outside, accepted, closed, ended, timers, rearm, out,
                        arrivedAt, queuedAt, sentAt, held>>
    BY <1>3, Popped
  <2> QED
    BY <2>1, <2>2, <2>3 DEF TypeOK, MoreTypes
<1>4. ASSUME NEW h \in popped, Arm(h) PROVE TypeOK' /\ MoreTypes'
  <2>1. PICK due \in Nat : timers' = {[pkt |-> accepted[Len(handled)], due |-> due]}
    BY <1>4, Armed
  <2>2. /\ popped' = {} /\ held' = [held EXCEPT ![accepted[Len(handled)]] = delay_]
        /\ UNCHANGED <<others, stamp, outside, queueVars, rearm, out, arrivedAt, queuedAt, sentAt>>
    BY <1>4, Armed
  <2>3. accepted[Len(handled)] \in InSeq(handled)
    <3>1. h.pkt \in InSeq(handled) /\ h.pkt = accepted[Len(handled)]
      BY <1>4, Armed DEF TypeOK
    <3> QED
      BY <3>1
  <2>4. \A t \in timers' : t.pkt \in InSeq(handled) /\ t.due \in Nat
    BY <2>1, <2>3
  <2>5. held' \in [Packets -> Int]
    BY <2>2, Times DEF MoreTypes
  <2> QED
    BY <2>2, <2>4, <2>5 DEF TypeOK, MoreTypes
<1>5. ASSUME NEW t \in timers, Forward(t) PROVE TypeOK' /\ MoreTypes'
  <2>1. /\ timers' = {} /\ popped = {} /\ out' \in Seq(Packets) /\ rearm' = TRUE
        /\ sentAt' \in [Packets -> 0..MaxTime] /\ stamp' \in [Packets -> 0..MaxTime]
        /\ UNCHANGED <<others, outside, queueVars, popped, arrivedAt, queuedAt, held>>
    BY <1>5, Forwarded
  <2> QED
    BY <2>1 DEF TypeOK, MoreTypes
<1>6. ASSUME Rearm PROVE TypeOK' /\ MoreTypes'
  <2>1. popped = {}
    BY <1>6 DEF Rearm, Pump
  <2>2. /\ waiting' = TRUE /\ rearm' = FALSE
        /\ UNCHANGED <<others, stamp, outside, accepted, handled, closed, ended, popped, timers, out,
                       arrivedAt, queuedAt, sentAt, held>>
    BY <1>6 DEF Rearm, Queue!Register
  <2> QED
    BY <2>1, <2>2 DEF TypeOK, MoreTypes
<1>7. ASSUME Tick PROVE TypeOK' /\ MoreTypes'
  <2>1. now' \in 0..MaxTime /\ popped = {} /\ punctual' \in BOOLEAN
    BY <1>7 DEF Tick, TypeOK
  <2> QED
    BY <1>7, <2>1 DEF Tick, TypeOK, MoreTypes
<1>8. ASSUME DelayAsyncPop \/ DelayTimer \/ DelaySet, UNCHANGED <<curve, now, packetVars, punctual>>
      PROVE TypeOK' /\ MoreTypes'
  <2>1. /\ delay_' \in Int /\ turns' \in Nat /\ changeDue' \in 0..(MaxTime + Interval)
        /\ delayPc' \in {"asyncPop", "waiting", "timer"} /\ UNCHANGED <<delayQ_, d>>
    <3>0. /\ delay_ \in Int /\ d \in Int /\ turns \in Nat
          /\ changeDue \in 0..(MaxTime + Interval) /\ now \in 0..MaxTime
      BY DEF TypeOK, MoreTypes
    <3>1. CASE DelayAsyncPop
      BY <3>0, <3>1 DEF DelayAsyncPop, DelayAt
    <3>2. CASE DelayTimer
      BY <3>0, <3>2 DEF DelayTimer, DelayAt
    <3>3. CASE DelaySet
      BY <3>0, <3>3, ConstantsAssumption DEF DelaySet, DelayAt
    <3> QED
      BY <1>8, <3>1, <3>2, <3>3
  <2>2. TypeOK'
    BY <1>8, <2>1 DEF TypeOK
  <2>3. MoreTypes'
    BY <1>8, <2>1 DEF MoreTypes
  <2> QED
    BY <2>2, <2>3
<1>9. ASSUME DelayPopHandler, UNCHANGED <<curve, now, packetVars, punctual>>
      PROVE TypeOK' /\ MoreTypes'
  <2>1. /\ delayQ_ \in Seq(Int) /\ delayQ_ # <<>> /\ Len(delayQ_) = Len(curve)
        /\ d' = Head(delayQ_) /\ delayQ_' = Tail(delayQ_) /\ delayPc' = "push"
        /\ UNCHANGED <<delay_, changeDue, turns>>
    BY <1>9 DEF DelayPopHandler, DelayAt, Cycle, TypeOK
  <2>2. d' \in Int /\ delayQ_' \in Seq(Int) /\ Len(delayQ_') = Len(curve) - 1
    BY <2>1
  <2> QED
    BY <1>9, <2>1, <2>2 DEF TypeOK, MoreTypes
<1>10. ASSUME DelayPush, UNCHANGED <<curve, now, packetVars, punctual>>
      PROVE TypeOK' /\ MoreTypes'
  <2>1. /\ delayQ_ \in Seq(Int) /\ d \in Int /\ Len(delayQ_) = Len(curve) - 1
        /\ delayQ_' = Append(delayQ_, d) /\ delayPc' = "set"
        /\ UNCHANGED <<delay_, d, changeDue, turns>>
    BY <1>10 DEF DelayPush, DelayAt, Cycle, TypeOK
  <2>2. delayQ_' \in Seq(Int) /\ Len(delayQ_') = Len(curve)
    BY <2>1 DEF MoreTypes
  <2> QED
    BY <1>10, <2>1, <2>2 DEF TypeOK, MoreTypes
<1>11. CASE UNCHANGED vars
  BY <1>11 DEF vars, TypeOK, MoreTypes
<1> QED
  BY <1>1, <1>2, <1>3, <1>4, <1>5, <1>6, <1>7, <1>8, <1>9, <1>10, <1>11 DEF Next, Change

\* Every step leaves the pump in one of its states, and the stamp of what is to
\* be sent alone.
LEMMA PumpStep ==
  TypeOK /\ MoreTypes /\ Pump /\ Stamps /\ [Next]_vars => Pump' /\ Stamps'
<1> SUFFICES ASSUME TypeOK, MoreTypes, Pump, Stamps, [Next]_vars PROVE Pump' /\ Stamps'
  OBVIOUS
<1> USE DEF queueVars, delayVars, packetVars, others
<1>1. ASSUME NEW p \in Packets, Receive(p) PROVE Pump' /\ Stamps'
  <2>1. /\ p \in outside /\ outside' = outside \ {p}
        /\ stamp'[p] = now /\ arrivedAt'[p] = now
        /\ \A q \in Packets \ {p} : stamp'[q] = stamp[q] /\ arrivedAt'[q] = arrivedAt[q]
        /\ UNCHANGED <<now, accepted, handled, waiting, popped, timers, rearm, out>>
    BY <1>1 DEF Receive, TypeOK, MoreTypes
  <2>2. Pump'
    BY <2>1 DEF Pump
  <2>3. InSeq(out') = InSeq(out) /\ now \in Nat
    BY <2>1, Times
  <2>4. Stamps'
    BY <2>1, <2>3 DEF Stamps
  <2> QED
    BY <2>2, <2>4
<1>2. ASSUME NEW p \in Packets, HandlePacket(p) PROVE Pump' /\ Stamps'
  <2>1. /\ Len(accepted') = Len(accepted) + 1 /\ accepted'[Len(accepted) + 1] = p
        /\ 1..Len(accepted') = 1..Len(accepted) \cup {Len(accepted) + 1}
        /\ \A i \in 1..Len(accepted) : accepted'[i] = accepted[i] /\ accepted[i] # p
        /\ p \notin outside
        /\ UNCHANGED <<now, stamp, outside, handled, waiting, popped, timers, rearm, out, arrivedAt>>
    BY <1>2, Queued
  <2>2. /\ \A i, j \in 1..Len(accepted') : accepted'[i] = accepted'[j] => i = j
        /\ \A i \in 1..Len(accepted') : accepted'[i] \notin outside
    BY <2>1, SMTT(30) DEF Pump
  <2>3. /\ \A i \in 1..Len(handled) : i \in 1..Len(accepted)
        /\ \A i \in 1..Len(out) : i \in 1..Len(accepted)
        /\ Len(handled) <= Len(accepted')
    BY <2>1, Times DEF Pump
  <2>4. Len(handled) = Len(out) + 1 => accepted'[Len(handled)] = accepted[Len(handled)]
    BY <2>1, <2>3, Times
  <2>5. Pump'
    BY <2>1, <2>2, <2>3, <2>4 DEF Pump
  <2>6. Stamps'
    BY <2>1 DEF Stamps
  <2> QED
    BY <2>5, <2>6
<1>3. ASSUME PopHandler PROVE Pump' /\ Stamps'
  <2> DEFINE p == accepted[Len(handled) + 1]
  <2>1. /\ Len(handled) + 1 \in 1..Len(accepted) /\ ~rearm /\ timers = {} /\ Len(handled) = Len(out)
        /\ Len(handled') = Len(handled) + 1 /\ handled'[Len(handled) + 1] = p
        /\ \A i \in 1..Len(handled) : handled'[i] = handled[i]
        /\ popped' = {[pkt |-> p, now |-> now]} /\ waiting' = FALSE
        /\ UNCHANGED <<now, stamp, outside, accepted, timers, rearm, out, arrivedAt>>
    BY <1>3, Popped
  <2>2. \A i \in 1..Len(handled') : handled'[i] = accepted[i]
    BY <2>1, Times DEF Pump
  <2>3. Len(handled') <= Len(accepted) /\ Len(out) <= Len(handled')
    BY <2>1, Times
  <2>4. Pump'
    BY <2>1, <2>2, <2>3 DEF Pump
  <2>5. Stamps'
    BY <2>1 DEF Stamps
  <2> QED
    BY <2>4, <2>5
<1>4. ASSUME NEW h \in popped, Arm(h) PROVE Pump' /\ Stamps'
  <2>1. PICK due \in Nat : timers' = {[pkt |-> accepted[Len(handled)], due |-> due]}
    BY <1>4, Armed
  <2>2. /\ ~waiting /\ ~rearm /\ popped' = {} /\ Len(handled) = Len(out) + 1
        /\ UNCHANGED <<now, stamp, outside, accepted, handled, waiting, rearm, out, arrivedAt>>
    BY <1>4, Armed
  <2>3. Pump'
    BY <2>1, <2>2 DEF Pump
  <2>4. Stamps'
    BY <2>2 DEF Stamps
  <2> QED
    BY <2>3, <2>4
<1>5. ASSUME NEW t \in timers, Forward(t) PROVE Pump' /\ Stamps'
  <2>1. /\ Len(out) + 1 \in 1..Len(accepted) /\ Len(handled) = Len(out) + 1 /\ ~waiting /\ rearm' = TRUE
        /\ timers' = {} /\ popped = {} /\ Len(out') = Len(out) + 1 /\ out'[Len(out) + 1] = accepted[Len(out) + 1]
        /\ \A i \in 1..Len(out) : out'[i] = out[i]
        /\ InSeq(out') = InSeq(out) \cup {t.pkt} /\ t.pkt \in Packets
        /\ \A p \in Packets \ {t.pkt} : stamp'[p] = stamp[p]
        /\ UNCHANGED <<now, outside, accepted, handled, waiting, popped, arrivedAt>>
    BY <1>5, Forwarded
  <2>2. \A i \in 1..Len(out') : out'[i] = accepted[i]
    BY <2>1, Times DEF Pump
  <2>3. Pump'
    BY <2>1, <2>2, Times DEF Pump
  <2>4. Stamps'
    BY <2>1 DEF Stamps
  <2> QED
    BY <2>3, <2>4
<1>6. ASSUME Rearm PROVE Pump' /\ Stamps'
  <2>1. /\ rearm /\ waiting' = TRUE /\ rearm' = FALSE
        /\ UNCHANGED <<now, stamp, outside, accepted, handled, popped, timers, out, arrivedAt>>
    BY <1>6 DEF Rearm, Queue!Register
  <2>2. Pump'
    BY <2>1 DEF Pump
  <2>3. Stamps'
    BY <2>1 DEF Stamps
  <2> QED
    BY <2>2, <2>3
<1>7. ASSUME Tick PROVE Pump' /\ Stamps'
  <2>1. /\ popped = {} /\ now' = now + 1
        /\ UNCHANGED <<stamp, outside, accepted, handled, waiting, popped, timers, rearm, out, arrivedAt>>
    BY <1>7 DEF Tick
  <2>2. Pump'
    BY <2>1 DEF Pump
  <2>3. Stamps'
    BY <2>1, Times DEF Stamps
  <2> QED
    BY <2>2, <2>3
<1>8. ASSUME Change \/ UNCHANGED vars PROVE Pump' /\ Stamps'
  <2>1. UNCHANGED <<now, packetVars>>
    BY <1>8 DEF Change, vars
  <2> QED
    BY <2>1 DEF Pump, Stamps
<1> QED
  BY <1>1, <1>2, <1>3, <1>4, <1>5, <1>6, <1>7, <1>8 DEF Next

-----------------------------------------------------------------------------
(* All of this holds together: the types rest on where the delays are. *)
Inv == TypeOK /\ MoreTypes /\ Pump /\ Stamps /\ Cycle /\ Schedule /\ Punctual

\* The parts of Inv hold in every behaviour.
LEMMA InvSafe == Spec => []Inv
<1>1. ASSUME Init PROVE Inv
  <2>1. TypeOK /\ MoreTypes /\ Pump /\ Stamps /\ Cycle
    BY <1>1, InvInit, CycleInit
  <2>2. delayPc = "asyncPop" /\ turns = 0 /\ now = 0 /\ 0 * Interval = 0
    BY <1>1, <2>1, Times, Quotients DEF Init
  <2>3. Schedule /\ Punctual
    BY <2>2 DEF Schedule, Punctual
  <2> QED
    BY <2>1, <2>3 DEF Inv
<1>2. Inv /\ [Next]_vars => Inv'
  BY TypeStep, PumpStep, CycleStep, ScheduleStep DEF Inv
<1> QED
  BY <1>1, <1>2, PTL DEF Spec

\* In every behaviour, the state keeps its types, and delayQ_ all of the delays
\* but one at most.
THEOREM TypeCorrect == Spec => []TypeOK
BY InvSafe, PTL DEF Inv

\* If the products of the delays and the resolution are small, so that the floats
\* are exact enough, the curve is nowhere above the floored interpolation, and at
\* most one millisecond for each fix point behind, and one, below it: whatever the
\* pattern and its length, although each segment goes on from the rounded end of
\* the one before.  With larger products the curve is above it at some seconds.
THEOREM NearPatternSafe ==
  ASSUME \A o \in Options : Small(o[1], o[2])
  PROVE  Spec => []NearPattern
<1>1. Init => NearPattern
  <2> SUFFICES ASSUME Init, curve # <<>>
               PROVE  /\ Len(curve) = Len(Interpolation(pattern, resolution))
                      /\ \A k \in 1..Len(curve) :
                           /\ curve[k] <= Interpolation(pattern, resolution)[k]
                           /\ curve[k] >= Interpolation(pattern, resolution)[k]
                                            - (k - 1) \div resolution - 1
    BY DEF NearPattern
  <2>1. PICK o \in Options : pattern = o[1] /\ resolution = o[2]
    BY DEF Init
  <2>2. pattern # <<>> /\ curve = SetDelays(pattern, resolution)
    BY DEF Init
  <2>3. InRange(pattern, resolution) /\ Small(pattern, resolution)
    BY <2>1, <2>2, PatternAssumption
  <2>4. Len(curve) = Len(pattern) * resolution
    BY <2>2, <2>3, SetDelaysList
  <2>5. Len(Interpolation(pattern, resolution)) = Len(pattern) * resolution
    <3> DEFINE L == Len(pattern) * resolution
    <3>1. L \in Nat
      <4>1. Len(pattern) \in Nat /\ resolution \in Nat
        BY <2>3, RangeTypes
      <4> QED
        BY <4>1, SMT
    <3> HIDE DEF L
    <3>2. DOMAIN Interpolation(pattern, resolution) = 1..L
      BY DEF Interpolation, L
    <3> QED
      BY <3>1, <3>2 DEF L
  <2> QED
    BY <2>2, <2>3, <2>4, <2>5, SetDelaysNear
<1>2. NearPattern /\ [Next]_vars => NearPattern'
  <2>1. [Next]_vars => UNCHANGED <<pattern, resolution, curve>>
    BY DEF Next, Change, Receive, HandlePacket, PopHandler, Arm, Forward, Rearm, Tick, others, vars
  <2> QED
    BY <2>1 DEF NearPattern
<1> QED
  BY <1>1, <1>2, PTL DEF Spec

\* A change is due an interval after the one before, at the earliest.
LEMMA InTurnFollows == Inv => InTurn
<1> SUFFICES ASSUME Inv PROVE InTurn
  OBVIOUS
<1>1. turns \in Nat /\ now \in Nat /\ Interval \in Nat \ {0}
  BY Times DEF Inv, MoreTypes
<1>2. ASSUME turns > 0 PROVE (turns - 1) * Interval <= now
  <2>1. turns - 1 \in Nat
    BY <1>1, <1>2
  <2>2. (turns - 1) * Interval \in Nat /\ turns * Interval = (turns - 1) * Interval + Interval
    <3>1. (turns - 1) * Interval \in Nat /\ ((turns - 1) + 1) * Interval = (turns - 1) * Interval + Interval
      BY <1>1, <2>1, Quotients
    <3>2. (turns - 1) + 1 = turns
      BY <1>1
    <3> QED
      BY <3>1, <3>2
  <2>3. CASE delayPc = "timer"
    BY <2>3 DEF Inv, Schedule
  <2>4. CASE delayPc # "timer"
    BY <1>1, <2>2, <2>4 DEF Inv, Schedule
  <2> QED
    BY <2>3, <2>4
<1> QED
  BY <1>2 DEF InTurn, Inv, Cycle

\* For every pattern: each delay of the curve comes into force, in order and over
\* and over, never before its time, out of a queue that the handler itself
\* empties and fills.
THEOREM InTurnSafe == Spec => []InTurn
BY InvSafe, InTurnFollows, PTL

\* Between two changes, their number is that of the intervals begun.
LEMMA OnScheduleFollows == Inv => OnSchedule
<1> SUFFICES ASSUME Inv, punctual, curve # <<>>, ~ChangeBusy
             PROVE  turns = now \div Interval + 1
  BY DEF OnSchedule
<1>1. turns \in Nat /\ now \in Nat /\ changeDue \in Nat /\ Interval \in Nat \ {0}
  BY Times, ConstantsAssumption DEF Inv, MoreTypes, TypeOK
<1>2. delayPc = "timer" /\ now < changeDue
  <2>1. delayPc = "waiting" => delayQ_ # <<>>
    BY DEF Inv, Cycle, TypeOK, MoreTypes
  <2> QED
    BY <1>1, <2>1 DEF ChangeBusy, Inv, TypeOK
<1>3. turns > 0 /\ (turns - 1) * Interval <= now /\ changeDue = turns * Interval
  BY <1>2 DEF Inv, Schedule, Punctual
<1>4. turns - 1 \in Nat /\ (turns - 1) + 1 = turns
  BY <1>1, <1>3
<1>5. turns * Interval = (turns - 1) * Interval + Interval
  BY <1>1, <1>4, Quotients
<1>6. now \div Interval = turns - 1
  BY <1>1, <1>2, <1>3, <1>4, <1>5, Quotients
<1> QED
  BY <1>1, <1>6

\* If the threads keep up, the changes neither drift nor stop.
THEOREM OnScheduleSafe == Spec => []OnSchedule
BY InvSafe, OnScheduleFollows, PTL

-----------------------------------------------------------------------------
\* No timer is started to expire before its packet's time.
LEMMA EarlyStep == Inv /\ Early /\ [Next]_vars => Early'
<1> SUFFICES ASSUME TypeOK, MoreTypes, Pump, Stamps, Early, [Next]_vars PROVE Early'
  BY DEF Inv
<1> USE DEF queueVars, delayVars, packetVars, others
<1>1. ASSUME NEW p \in Packets, Receive(p) PROVE Early'
  <2>1. /\ p \in outside /\ \A q \in Packets \ {p} : arrivedAt'[q] = arrivedAt[q]
        /\ UNCHANGED <<timers, out, sentAt, held>>
    BY <1>1 DEF Receive, MoreTypes
  <2>2. \A q \in InSeq(out) : arrivedAt'[q] = arrivedAt[q]
    BY <2>1, SentPackets
  <2>3. \A t \in timers : arrivedAt'[t.pkt] = arrivedAt[t.pkt]
    BY <2>1, TimerPacket
  <2>4. InSeq(out') = InSeq(out)
    BY <2>1
  <2> QED
    BY <2>1, <2>2, <2>3, <2>4 DEF Early, NotEarly
<1>2. ASSUME NEW h \in popped, Arm(h) PROVE Early'
  <2> DEFINE p == accepted[Len(handled)]
             due == Later(now, arrivedAt[p] + delay_)
  <2>1. /\ p \in Packets /\ p \notin InSeq(out) /\ timers' = {[pkt |-> p, due |-> due]}
        /\ held' = [held EXCEPT ![p] = delay_] /\ UNCHANGED <<out, arrivedAt, sentAt>>
    BY <1>2, Armed
  <2>2. held'[p] = delay_ /\ \A q \in InSeq(out) : held'[q] = held[q]
    BY <2>1, SentPackets DEF MoreTypes
  <2>3. due >= arrivedAt[p] + delay_
    BY <2>1, Times DEF Later
  <2> HIDE DEF due, p
  <2>4. \A t \in timers' : t.pkt = p /\ t.due = due
    BY <2>1
  <2>5. InSeq(out') = InSeq(out)
    BY <2>1
  <2> QED
    BY <2>1, <2>2, <2>3, <2>4, <2>5 DEF Early, NotEarly
<1>3. ASSUME NEW t \in timers, Forward(t) PROVE Early'
  <2>1. /\ timers' = {} /\ now >= t.due /\ InSeq(out') = InSeq(out) \cup {t.pkt}
        /\ t.pkt \in Packets /\ t.pkt \notin InSeq(out) /\ sentAt'[t.pkt] = now
        /\ \A p \in Packets \ {t.pkt} : sentAt'[p] = sentAt[p]
        /\ UNCHANGED <<arrivedAt, held>> /\ t.due \in Nat
    BY <1>3, Forwarded
  <2>2. \A p \in InSeq(out) : sentAt'[p] = sentAt[p]
    BY <2>1, SentPackets
  <2>3. t.due >= arrivedAt[t.pkt] + held[t.pkt]
    BY DEF Early
  <2>4. now >= arrivedAt[t.pkt] + held[t.pkt]
    BY <2>1, <2>3, Times
  <2> QED
    BY <2>1, <2>2, <2>4 DEF Early, NotEarly
<1>4. ASSUME \/ \E p \in Packets : HandlePacket(p)
             \/ PopHandler \/ Rearm \/ Tick \/ Change \/ UNCHANGED vars
      PROVE  Early'
  <2>1. UNCHANGED <<timers, out, arrivedAt, sentAt, held>>
    BY <1>4 DEF HandlePacket, PopHandler, Rearm, Tick, Change, vars
  <2> QED
    BY <2>1 DEF Early, NotEarly
<1> QED
  BY <1>1, <1>2, <1>3, <1>4 DEF Next

\* However late the threads are, no packet leaves before it has been in the
\* router for the delay that was in force when its timer was started.
THEOREM NotEarlySafe == Spec => []NotEarly
<1>1. Init => Early
  BY DEF Init, Early, NotEarly, InSeq
<1>2. Early => NotEarly
  BY DEF Early
<1> QED
  BY <1>1, <1>2, InvSafe, EarlyStep, PTL DEF Spec

-----------------------------------------------------------------------------
\* LastSent is a time, and changes only when a packet is sent.
LEMMA LastSentChanges ==
  ASSUME TypeOK, MoreTypes, Pump
  PROVE  /\ LastSent \in Nat
         /\ UNCHANGED <<out, sentAt>> => LastSent' = LastSent
         /\ \A t \in timers : Forward(t) => LastSent' = now
<1>1. LastSent \in Nat
  <2>1. CASE out = <<>>
    BY <2>1 DEF LastSent
  <2>2. CASE out # <<>>
    <3>1. out[Len(out)] \in Packets
      BY <2>2 DEF TypeOK
    <3> QED
      BY <2>2, <3>1, Times DEF LastSent
  <2> QED
    BY <2>1, <2>2
<1>2. UNCHANGED <<out, sentAt>> => LastSent' = LastSent
  BY DEF LastSent
<1>3. ASSUME NEW t \in timers, Forward(t) PROVE LastSent' = now
  BY <1>3, Forwarded DEF LastSent
<1> QED
  BY <1>1, <1>2, <1>3

\* As long as no time passes while there is work to do, work is done at once.
LEMMA PromptStep == Inv /\ Prompt /\ [Next]_vars => Prompt'
<1> SUFFICES ASSUME TypeOK, MoreTypes, Pump, Stamps, Prompt, [Next]_vars PROVE Prompt'
  BY DEF Inv
<1> USE DEF queueVars, delayVars, packetVars, others
<1>0. /\ now \in Nat /\ LastSent \in Nat /\ Len(accepted) \in Nat /\ Len(handled) \in Nat
      /\ \A i \in 1..Len(accepted) : queuedAt[accepted[i]] \in Nat
  BY Times, LastSentChanges
<1>1. ASSUME NEW p \in Packets, HandlePacket(p) PROVE Prompt'
  <2>1. /\ Len(accepted') = Len(accepted) + 1 /\ accepted'[Len(accepted) + 1] = p
        /\ 1..Len(accepted') = 1..Len(accepted) \cup {Len(accepted) + 1} /\ queuedAt'[p] = now
        /\ \A i \in 1..Len(accepted) :
             accepted'[i] = accepted[i] /\ queuedAt'[accepted[i]] = queuedAt[accepted[i]]
        /\ UNCHANGED <<now, handled, waiting, popped, rearm, out, sentAt, punctual>>
    BY <1>1, Queued
  <2>2. LastSent' = LastSent
    BY <2>1, LastSentChanges
  <2>3. \A i \in 1..Len(accepted') : queuedAt'[accepted'[i]] <= now
    BY <1>0, <2>1 DEF Prompt
  <2>4. ASSUME punctual, waiting, Len(handled) < Len(accepted')
        PROVE  now = Later(queuedAt'[accepted'[Len(handled) + 1]], LastSent)
    <3>1. CASE Len(handled) < Len(accepted)
      <4>1. Len(handled) + 1 \in 1..Len(accepted)
        BY <1>0, <3>1
      <4> QED
        BY <2>1, <2>4, <3>1, <4>1 DEF Prompt
    <3>2. CASE Len(handled) = Len(accepted)
      BY <1>0, <2>1, <3>2 DEF Prompt, Later
    <3> QED
      BY <1>0, <3>1, <3>2 DEF Pump
  <2>5. \A h \in popped : queuedAt'[h.pkt] = queuedAt[h.pkt]
    BY <2>1, PoppedPacket
  <2> QED
    BY <2>1, <2>2, <2>3, <2>4, <2>5 DEF Prompt
<1>2. ASSUME PopHandler PROVE Prompt'
  <2> DEFINE p == accepted[Len(handled) + 1]
  <2>1. /\ waiting /\ ~rearm /\ Len(handled) + 1 \in 1..Len(accepted) /\ waiting' = FALSE
        /\ popped' = {[pkt |-> p, now |-> now]}
        /\ UNCHANGED <<now, accepted, rearm, queuedAt, out, sentAt, punctual>>
    BY <1>2, Popped
  <2>2. LastSent' = LastSent
    BY <2>1, LastSentChanges
  <2>3. punctual => now = Later(queuedAt[p], LastSent)
    BY <1>0, <2>1 DEF Prompt
  <2>4. \A h \in popped' : h.pkt = p
    BY <2>1
  <2> HIDE DEF p
  <2> QED
    BY <2>1, <2>2, <2>3, <2>4 DEF Prompt
<1>3. ASSUME NEW h \in popped, Arm(h) PROVE Prompt'
  <2>1. /\ popped' = {}
        /\ UNCHANGED <<now, accepted, handled, waiting, rearm, queuedAt, out, sentAt, punctual>>
    BY <1>3, Armed
  <2>2. LastSent' = LastSent
    BY <2>1, LastSentChanges
  <2> QED
    BY <2>1, <2>2 DEF Prompt
<1>4. ASSUME NEW t \in timers, Forward(t) PROVE Prompt'
  <2>1. /\ ~waiting /\ popped = {} /\ LastSent' = now
        /\ UNCHANGED <<now, accepted, waiting, popped, queuedAt, punctual>>
    BY <1>4, Forwarded, LastSentChanges
  <2> QED
    BY <1>0, <2>1 DEF Prompt
<1>5. ASSUME Rearm PROVE Prompt'
  <2>1. /\ rearm /\ rearm' = FALSE
        /\ UNCHANGED <<now, accepted, handled, popped, queuedAt, out, sentAt, punctual>>
    BY <1>5 DEF Rearm, Queue!Register
  <2>2. LastSent' = LastSent /\ popped = {}
    BY <2>1, LastSentChanges DEF Pump
  <2>3. ASSUME punctual, Len(handled) < Len(accepted)
        PROVE  now = Later(queuedAt[accepted[Len(handled) + 1]], LastSent)
    <3>1. Len(handled) + 1 \in 1..Len(accepted)
      BY <1>0, <2>3
    <3>2. now = LastSent /\ queuedAt[accepted[Len(handled) + 1]] <= now
      BY <2>1, <2>3, <3>1 DEF Prompt
    <3> QED
      BY <1>0, <3>1, <3>2 DEF Later
  <2> QED
    BY <2>1, <2>2, <2>3 DEF Prompt
<1>6. ASSUME Tick PROVE Prompt'
  <2>1. /\ popped = {} /\ now' = now + 1 /\ punctual' = (punctual /\ ~Busy)
        /\ UNCHANGED <<accepted, handled, waiting, popped, rearm, queuedAt, out, sentAt>>
    BY <1>6 DEF Tick
  <2>2. LastSent' = LastSent
    BY <2>1, LastSentChanges
  <2>3. LastSent <= now + 1 /\ \A i \in 1..Len(accepted) : queuedAt[accepted[i]] <= now + 1
    BY <1>0 DEF Prompt
  <2>4. punctual' => ~rearm /\ ~(waiting /\ Len(handled) < Len(accepted))
    BY <2>1 DEF Busy, Pump
  <2> QED
    BY <2>1, <2>2, <2>3, <2>4 DEF Prompt
<1>7. ASSUME \/ \E p \in Packets : Receive(p)
             \/ Change \/ UNCHANGED vars
      PROVE  Prompt'
  <2>1. UNCHANGED <<now, accepted, handled, waiting, popped, rearm, queuedAt, out, sentAt, punctual>>
    BY <1>7 DEF Receive, Change, vars
  <2>2. LastSent' = LastSent
    BY <2>1, LastSentChanges
  <2> QED
    BY <2>1, <2>2 DEF Prompt
<1> QED
  BY <1>1, <1>2, <1>3, <1>4, <1>5, <1>6, <1>7 DEF Next

\* If the threads keep up, the delay in force is that of the moment.
LEMMA TurnOfNow ==
  ASSUME Inv, punctual, curve # <<>>
  PROVE  turns \in TurnsAt(now)
<1>1. turns \in Nat /\ now \in Nat /\ changeDue \in Nat /\ Interval \in Nat \ {0}
  BY Times, ConstantsAssumption DEF Inv, MoreTypes, TypeOK
<1>2. CASE now = turns * Interval
  <2>1. now \div Interval = turns /\ now % Interval = 0
    BY <1>1, <1>2, Quotients
  <2> QED
    BY <2>1 DEF TurnsAt
<1>3. CASE now # turns * Interval
  <2>1. delayPc = "timer" /\ now <= changeDue /\ changeDue = turns * Interval
    BY <1>3 DEF Inv, Punctual
  <2>2. turns > 0 /\ (turns - 1) * Interval <= now
    BY <2>1 DEF Inv, Schedule
  <2>3. turns - 1 \in Nat /\ (turns - 1) + 1 = turns
    BY <1>1, <2>2
  <2>4. turns * Interval = (turns - 1) * Interval + Interval
    BY <1>1, <2>3, Quotients
  <2>5. now < (turns - 1) * Interval + Interval
    BY <1>1, <1>3, <2>1, <2>4
  <2>6. now \div Interval = turns - 1
    BY <1>1, <2>2, <2>3, <2>5, Quotients
  <2> QED
    BY <1>1, <2>6 DEF TurnsAt
<1> QED
  BY <1>2, <1>3

\* A packet's timer expires by the delay of the moment at which it was popped.
LEMMA TightStep == Inv /\ Prompt /\ Tight /\ [Next]_vars => Tight'
<1> SUFFICES ASSUME Inv, Prompt, Tight, [Next]_vars, punctual' PROVE Tight'
  BY DEF Tight
<1>0. TypeOK /\ MoreTypes /\ Pump /\ Stamps /\ Cycle
  BY DEF Inv
<1> USE <1>0 DEF queueVars, delayVars, packetVars, others
<1>1. ASSUME NEW p \in Packets, Receive(p) \/ HandlePacket(p) PROVE Tight'
  <2>1. UNCHANGED <<curve, now, timers, out, sentAt, punctual>>
    BY <1>1 DEF Receive, HandlePacket
  <2>2. ASSUME NEW t \in timers
        PROVE  arrivedAt'[t.pkt] = arrivedAt[t.pkt] /\ queuedAt'[t.pkt] = queuedAt[t.pkt]
    <3>1. t.pkt \in Packets \ outside /\ t.pkt \in InSeq(accepted)
      BY TimerPacket DEF InSeq
    <3> QED
      BY <1>1, <3>1 DEF Receive, HandlePacket, MoreTypes
  <2>3. LastSent' = LastSent
    BY <2>1, LastSentChanges
  <2> QED
    BY <2>1, <2>2, <2>3 DEF Tight, Delay
<1>2. ASSUME NEW h \in popped, Arm(h) PROVE Tight'
  <2> DEFINE p == accepted[Len(handled)]
             due == Later(now, arrivedAt[p] + delay_)
  <2>1. /\ h.pkt = p /\ p \in Packets /\ timers' = {[pkt |-> p, due |-> due]} /\ due \in Nat
        /\ UNCHANGED <<curve, now, out, arrivedAt, queuedAt, sentAt, punctual>>
    BY <1>2, Armed
  <2>2. LastSent' = LastSent
    BY <2>1, LastSentChanges
  <2>3. now = Later(queuedAt[p], LastSent)
    BY <2>1 DEF Prompt
  <2>4. now <= due
    BY <2>1, Times DEF Later
  <2>5. curve # <<>> => turns \in TurnsAt(now) /\ due = Later(now, arrivedAt[p] + Delay(turns))
    BY <2>1, TurnOfNow DEF Cycle
  <2>6. \A t \in timers' : t.pkt = p /\ t.due = due
    BY <2>1
  <2> HIDE DEF p, due
  <2> QED
    BY <2>1, <2>2, <2>3, <2>4, <2>5, <2>6 DEF Tight, Delay
<1>3. ASSUME NEW t \in timers, Forward(t) PROVE Tight'
  BY <1>3, Forwarded DEF Tight
<1>4. ASSUME Tick PROVE Tight'
  <2>1. /\ now' = now + 1 /\ punctual /\ ~Busy
        /\ UNCHANGED <<curve, timers, out, arrivedAt, queuedAt, sentAt>>
    BY <1>4 DEF Tick
  <2>2. \A t \in timers : now + 1 <= t.due
    BY <2>1, TimerPacket, Times DEF Busy, Tight
  <2>3. LastSent' = LastSent
    BY <2>1, LastSentChanges
  <2> QED
    BY <2>1, <2>2, <2>3 DEF Tight, Delay
<1>5. ASSUME PopHandler \/ Rearm \/ Change \/ UNCHANGED vars PROVE Tight'
  <2>1. UNCHANGED <<curve, now, timers, out, arrivedAt, queuedAt, sentAt, punctual>>
    BY <1>5 DEF PopHandler, Rearm, Change, vars
  <2>2. LastSent' = LastSent
    BY <2>1, LastSentChanges
  <2> QED
    BY <2>1, <2>2 DEF Tight, Delay
<1> QED
  BY <1>1, <1>2, <1>3, <1>4, <1>5 DEF Next

(* When the packet that was sent as number i was popped, if the threads keep up. *)
PoppedAt(i) == Later(queuedAt[out[i]], IF i = 1 THEN 0 ELSE sentAt[out[i - 1]])

(* DelayOfTheMoment, in these terms. *)
Moments ==
  punctual /\ curve # <<>> =>
    \A i \in 1..Len(out) :
      \E n \in TurnsAt(PoppedAt(i)) :
        sentAt[out[i]] = Later(PoppedAt(i), arrivedAt[out[i]] + Delay(n))

\* A packet that is sent when its timer expires is sent at its moment.
LEMMA MomentsStep == Inv /\ Prompt /\ Tight /\ Moments /\ [Next]_vars => Moments'
<1> SUFFICES ASSUME Inv, Prompt, Tight, Moments, [Next]_vars, punctual', curve' # <<>>
             PROVE  Moments'
  BY DEF Moments
<1>0. TypeOK /\ MoreTypes /\ Pump /\ Stamps /\ Cycle
  BY DEF Inv
<1> USE <1>0 DEF queueVars, delayVars, packetVars, others
<1>1. ASSUME NEW p \in Packets, Receive(p) \/ HandlePacket(p) PROVE Moments'
  <2>1. UNCHANGED <<curve, out, sentAt, punctual>>
    BY <1>1 DEF Receive, HandlePacket
  <2>2. \A i \in 1..Len(out) :
          arrivedAt'[out[i]] = arrivedAt[out[i]] /\ queuedAt'[out[i]] = queuedAt[out[i]]
    <3>1. \A i \in 1..Len(out) : out[i] \in Packets \ outside /\ out[i] \in InSeq(accepted)
      BY SentPackets DEF InSeq
    <3> QED
      BY <1>1, <3>1 DEF Receive, HandlePacket, MoreTypes
  <2>3. \A i \in 1..Len(out) : PoppedAt(i)' = PoppedAt(i)
    BY <2>1, <2>2 DEF PoppedAt
  <2>4. \A n : Delay(n)' = Delay(n)
    BY <2>1 DEF Delay
  <2> QED
    BY <2>1, <2>2, <2>3, <2>4 DEF Moments
<1>2. ASSUME NEW t \in timers, Forward(t) PROVE Moments'
  <2>1. /\ Len(out') = Len(out) + 1 /\ out'[Len(out) + 1] = t.pkt /\ Len(out) \in Nat
        /\ \A i \in 1..Len(out) : out'[i] = out[i] /\ sentAt'[out[i]] = sentAt[out[i]]
        /\ sentAt'[t.pkt] = now /\ now >= t.due /\ t.due \in Nat /\ now \in Nat
        /\ UNCHANGED <<curve, arrivedAt, queuedAt, punctual>>
    BY <1>2, Forwarded, Times
  <2>2. now = t.due
    BY <2>1 DEF Tight
  <2>3. PICK n \in TurnsAt(Later(queuedAt[t.pkt], LastSent)) :
          t.due = Later(Later(queuedAt[t.pkt], LastSent), arrivedAt[t.pkt] + Delay(n))
    BY <2>1 DEF Tight
  <2>4. LastSent = IF Len(out) + 1 = 1 THEN 0 ELSE sentAt[out[Len(out)]]
    BY <2>1 DEF LastSent, TypeOK
  <2>5. ASSUME NEW i \in Nat, i = Len(out) + 1
        PROVE  PoppedAt(i)' = Later(queuedAt[t.pkt], LastSent)
    <3>1. out'[i] = t.pkt /\ queuedAt'[out'[i]] = queuedAt[t.pkt]
      BY <2>1, <2>5
    <3>2. (IF i = 1 THEN 0 ELSE sentAt'[out'[i - 1]]) = LastSent
      <4>1. CASE i = 1
        BY <2>4, <2>5, <4>1
      <4>2. CASE i # 1
        <5>1. i - 1 = Len(out) /\ Len(out) \in 1..Len(out)
          BY <2>1, <2>5, <4>2
        <5> QED
          BY <2>1, <2>4, <2>5, <4>2, <5>1
      <4> QED
        BY <4>1, <4>2
    <3> QED
      BY <3>1, <3>2 DEF PoppedAt
  <2>6. \A m : Delay(m)' = Delay(m)
    BY <2>1 DEF Delay
  <2>7. \A i \in 1..Len(out) : PoppedAt(i)' = PoppedAt(i)
    <3> TAKE i \in 1..Len(out)
    <3>1. queuedAt'[out'[i]] = queuedAt[out[i]]
      BY <2>1
    <3>2. (IF i = 1 THEN 0 ELSE sentAt'[out'[i - 1]])
            = (IF i = 1 THEN 0 ELSE sentAt[out[i - 1]])
      <4>1. i # 1 => i - 1 \in 1..Len(out)
        BY <2>1
      <4> QED
        BY <2>1, <4>1
    <3> QED
      BY <3>1, <3>2 DEF PoppedAt
  <2>8. ASSUME NEW i \in 1..Len(out')
        PROVE  \E m \in TurnsAt(PoppedAt(i)') :
                 sentAt'[out'[i]] = Later(PoppedAt(i)', arrivedAt'[out'[i]] + Delay(m)')
    <3>1. CASE i = Len(out) + 1
      <4>1. i \in Nat /\ out'[i] = t.pkt
        BY <2>1, <3>1
      <4>2. PoppedAt(i)' = Later(queuedAt[t.pkt], LastSent)
        BY <2>5, <3>1, <4>1
      <4> QED
        BY <2>1, <2>2, <2>3, <2>6, <4>1, <4>2
    <3>2. CASE i \in 1..Len(out)
      BY <2>1, <2>6, <2>7, <3>2 DEF Moments
    <3> QED
      BY <2>1, <3>1, <3>2
  <2>9. \A i \in 1..Len(out') : TurnsAt(PoppedAt(i)') = TurnsAt(PoppedAt(i))'
    BY DEF TurnsAt
  <2> QED
    BY <2>8, <2>9 DEF Moments
<1>3. ASSUME \/ PopHandler \/ \E h \in popped : Arm(h)
             \/ Rearm \/ Tick \/ Change \/ UNCHANGED vars
      PROVE Moments'
  <2>1. UNCHANGED <<curve, out, arrivedAt, queuedAt, sentAt>> /\ punctual
    BY <1>3 DEF PopHandler, Arm, Rearm, Tick, Change, vars
  <2> QED
    BY <2>1 DEF Moments, PoppedAt, Delay
<1> QED
  BY <1>1, <1>2, <1>3 DEF Next

\* If the threads keep up, every packet leaves as soon as it has been in the
\* router for the delay in force when its turn came, for every pattern.
THEOREM DelayOfTheMomentSafe == Spec => []DelayOfTheMoment
<1>1. Init => Prompt /\ Tight /\ Moments
  BY DEF Init, Queue!Init, Prompt, Tight, Moments, LastSent
<1>2. Moments => DelayOfTheMoment
  BY DEF Moments, DelayOfTheMoment, PoppedAt, TurnsAt, Later
<1> QED
  BY <1>1, <1>2, InvSafe, PromptStep, TightStep, MomentsStep, PTL DEF Spec

-----------------------------------------------------------------------------
(* The outline by which Router knows the filter. *)
\* The filter starts where its outline does, keeping nothing.
LEMMA OutlineInit == Init => Outline!Init
<1> SUFFICES ASSUME Init PROVE Outline!Init
  OBVIOUS
<1>1. accepted = <<>> /\ out = <<>>
  BY DEF Init, Queue!Init
<1>2. SubSeq(accepted, Len(out) + 1, Len(accepted)) = <<>>
  BY <1>1
<1> QED
  BY <1>1, <1>2 DEF Outline!Init

\* Every step of the filter is a step of its outline, or unseen by it.
LEMMA OutlineStep == Inv /\ [Next]_vars => [Outline!Next]_(Outline!vars)
<1> SUFFICES ASSUME TypeOK, MoreTypes, Pump, [Next]_vars PROVE [Outline!Next]_(Outline!vars)
  BY DEF Inv
<1> USE DEF queueVars, packetVars
<1>0. /\ accepted \in Seq(Packets) /\ out \in Seq(Packets)
      /\ Len(out) \in 0..Len(accepted) /\ Len(accepted) \in Nat
  BY Times DEF TypeOK, Pump
<1>1. ASSUME NEW p \in Packets, HandlePacket(p) PROVE Outline!Keep(p)
  <2>1. accepted' = Append(accepted, p) /\ UNCHANGED <<out, rearm>>
    BY <1>1 DEF HandlePacket, Queue!Accept
  <2>2. SubSeq(accepted', Len(out) + 1, Len(accepted'))
          = Append(SubSeq(accepted, Len(out) + 1, Len(accepted)), p)
    BY <1>0, <2>1, Remainder
  <2> QED
    BY <2>1, <2>2 DEF Outline!Keep
<1>2. ASSUME NEW t \in timers, Forward(t) PROVE Outline!PassOn
  <2>1. /\ Len(out) + 1 \in 1..Len(accepted) /\ t.pkt = accepted[Len(out) + 1] /\ ~rearm
        /\ rearm' = TRUE /\ UNCHANGED accepted
        /\ out' # <<>> /\ Len(out') = Len(out) + 1 /\ out'[Len(out')] = t.pkt
    BY <1>2, Forwarded
  <2>2. out' = Append(out, t.pkt)
    BY <1>2 DEF Forward
  <2>3. Len(out) < Len(accepted) /\ Len(out') + 1 = Len(out) + 2
    BY <1>0, <2>1
  <2>4. /\ SubSeq(accepted, Len(out) + 1, Len(accepted)) # <<>>
        /\ Head(SubSeq(accepted, Len(out) + 1, Len(accepted))) = t.pkt
        /\ Tail(SubSeq(accepted, Len(out) + 1, Len(accepted)))
             = SubSeq(accepted', Len(out') + 1, Len(accepted'))
    BY <1>0, <2>1, <2>3, Remainder
  <2> QED
    BY <2>1, <2>2, <2>4 DEF Outline!PassOn
<1>3. ASSUME Rearm PROVE Outline!Return \/ UNCHANGED Outline!vars
  <2>1. rearm /\ rearm' = FALSE /\ UNCHANGED <<accepted, out>>
    BY <1>3 DEF Rearm, Queue!Register
  <2> QED
    BY <2>1 DEF Outline!Return, Outline!vars
<1>4. ASSUME \/ \E p \in Packets : Receive(p)
             \/ PopHandler \/ \E h \in popped : Arm(h)
             \/ Tick \/ Change \/ UNCHANGED vars
      PROVE  UNCHANGED Outline!vars
  <2>1. UNCHANGED <<accepted, out, rearm>>
    BY <1>4 DEF Receive, PopHandler, Queue!Handle, Arm, Tick, Change, vars
  <2> QED
    BY <2>1 DEF Outline!vars
<1> QED
  BY <1>1, <1>2, <1>3, <1>4 DEF Next, Outline!Next

\* The safety half of Outlined: packets leave in the order in which they were
\* queued, also when the delay has fallen meanwhile, and none is passed on while
\* the call for the one before may last.
THEOREM ImplementsOutline == Spec => Outline!Spec
BY InvSafe, OutlineInit, OutlineStep, PTL DEF Spec, Outline!Spec
=============================================================================
