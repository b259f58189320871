---------------------------- MODULE DelayCurve -----------------------------
(* setDelays() of DynamicDelay (dynamic_delay.cpp): from delays at fix points *)
(* "resolution" seconds apart to a delay for each second.  The code computes  *)
(* in float, which rounds to 24 bits, and cuts the sum off to an int that the *)
(* next second, and the next segment, go on from.                             *)
EXTENDS Integers, Sequences

\* The patterns for which this is what the code computes: every int stays below
\* 2^24, so that it is a float itself.
InRange(delays, resolution) ==
  /\ delays \in Seq(0..2^22) \ {<<>>} /\ Len(delays) <= 2^20
  /\ resolution \in 1..2^15

\* n / d, rounded to the nearest integer, and to the even one of two.
RoundDiv(n, d) ==
  LET q == n \div d
      twice == 2 * (n % d)
  IN  IF twice > d \/ (twice = d /\ q % 2 = 1) THEN q + 1 ELSE q

\* n, rounded to 24 bits.
Float(n) ==
  LET s == CHOOSE s \in 0..16 :
             n \div 2^s < 2^24 /\ (s = 0 \/ n \div 2^(s - 1) >= 2^24)
  IN  RoundDiv(n, 2^s) * 2^s

\* The float x / resolution, for x > 0: m / unit, where unit is a power of 2.
Slope(x, resolution) ==
  LET k == CHOOSE k \in 0..39 :
             2^23 * resolution <= x * 2^k /\ x * 2^k < 2^24 * resolution
  IN  [m |-> RoundDiv(x * 2^k, resolution), unit |-> 2^k]

\* w + f / unit, for w >= 0 and f < unit, rounded to a float and cut off: w,
\* unless it is so near to w + 1 that no float lies between.
CutOff(w, f, unit) ==
  LET bits == CHOOSE b \in 0..24 : w < 2^b /\ (b = 0 \/ w >= 2^(b - 1))
  IN  IF w > 0 /\ unit - f <= unit \div 2^(25 - bits) THEN w + 1 ELSE w

\* The int made of (float)x / resolution * a + first.
Sample(x, resolution, a, first) ==
  LET slope == Slope(IF x < 0 THEN -x ELSE x, resolution)
      n == (IF x < 0 THEN -1 ELSE 1) * Float(slope.m * a)
      w == first + n \div slope.unit
      f == n % slope.unit
  IN  CASE x = 0 -> first
        [] x # 0 /\ w >= 0 -> CutOff(w, f, slope.unit)
        [] x # 0 /\ w < 0 /\ f = 0 -> w
        [] OTHER -> -CutOff(-w - 1, slope.unit - f, slope.unit)

\* The delays at the ends of the segments, the first of which ends the last.
FixPoint(delays, i) == delays[(i % Len(delays)) + 1]

Rise(delays, i) == FixPoint(delays, i + 1) - FixPoint(delays, i)

\* Mutant of setDelays(): a segment goes on from the end of the one before, as
\* it was given, but forgets that it starts there.
SetDelaysNoFirst(delays, resolution) ==
  [k \in 1 .. Len(delays) * resolution |->
     LET i == (k - 1) \div resolution
     IN  Sample(Rise(delays, i), resolution, (k - 1) % resolution, 0)]

\* What tmpQ ends with after each segment, where the next begins.
Ends(delays, resolution) ==
  LET end[i \in 0..Len(delays)] ==
        IF i = 0 THEN delays[1]
        ELSE Sample(Rise(delays, i - 1), resolution, resolution, end[i - 1])
  IN  end

\* tmpQ.
SetDelays(delays, resolution) ==
  [k \in 1 .. Len(delays) * resolution |->
     LET i == (k - 1) \div resolution
         a == (k - 1) % resolution
         first == Ends(delays, resolution)[i]
     IN  IF a = 0 THEN first ELSE Sample(Rise(delays, i), resolution, a, first)]

-----------------------------------------------------------------------------
\* What dynamic_delay.hpp says of it: linear between the fix points, floored.
Interpolation(delays, resolution) ==
  [k \in 1 .. Len(delays) * resolution |->
     LET i == (k - 1) \div resolution
         a == (k - 1) % resolution
     IN  (FixPoint(delays, i) * (resolution - a) + FixPoint(delays, i + 1) * a)
           \div resolution]
=============================================================================
