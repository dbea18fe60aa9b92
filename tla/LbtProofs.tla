------------------------------ MODULE LbtProofs -----------------------------
(***************************************************************************)
(* Proofs about Lbt, for every turn and every step of the stamps, of the   *)
(* mask and of the airtimes: an allowed packet ends in time, a refused one *)
(* had a reason.                                                           *)
(*                                                                         *)
(* Both follow from what the code computes for one channel (DeltaBounds):  *)
(* the difference of the two truncated times is that of the times they     *)
(* stand for, less a step of the mask if the masked time has wrapped       *)
(* between, or it underflows, and then the stamps have wrapped between.    *)
(***************************************************************************)
EXTENDS Lbt, SequenceTheorems, WellFoundedInduction, TLAPS

-----------------------------------------------------------------------------
(* Arithmetic *)

\* x is a multiple of n.
IsMultiple(x, n) == x % n = 0

\* Division of integers.
LEMMA ModValue ==
  ASSUME NEW n \in Nat \ {0}, NEW t \in Int
  PROVE  /\ t \div n \in Int /\ t % n \in 0 .. n - 1
         /\ t = n * (t \div n) + (t % n)
OBVIOUS

\* The multiples of n are apart by n at least.
LEMMA Multiples ==
  ASSUME NEW n \in Nat \ {0}, NEW k \in Int
  PROVE  /\ k <= 0 => n * k <= 0
         /\ k >= 1 => n * k >= n
         /\ k >= 2 => n * k >= 2 * n
         /\ k >= 3 => n * k >= 3 * n
OBVIOUS

\* A multiple of n between two times puts them into different turns of n.
LEMMA TurnBetween ==
  ASSUME NEW n \in Nat \ {0}, NEW k \in Int, NEW t \in Nat, NEW u \in Nat,
         t < n * k, n * k <= u
  PROVE  t \div n < u \div n
<1> DEFINE q == t \div n
           p == u \div n
<1>1. q \in Int /\ p \in Int /\ n * q <= t /\ u < n * p + n
  BY ModValue
<1> HIDE DEF q, p
<1>2. n * (k - q) > 0 /\ n * (p + 1 - k) > 0
  BY <1>1
<1>3. k - q >= 1 /\ p + 1 - k >= 1
  BY <1>1, <1>2, Multiples
<1>4. q < p
  BY <1>1, <1>3
<1>5. QED
  BY <1>4 DEF q, p

\* A multiple of n has no remainder.
LEMMA MultipleMod ==
  ASSUME NEW n \in Nat \ {0}, NEW k \in Int
  PROVE  IsMultiple(n * k, n)
BY DEF IsMultiple

\* So is a multiple of n and two more.
LEMMA TwoMore ==
  ASSUME NEW n \in Nat \ {0}, NEW x \in Int, IsMultiple(x, n)
  PROVE  x + 2 * n \in Int /\ IsMultiple(x + 2 * n, n)
<1> DEFINE i == x \div n
           k == i + 2
<1>1. i \in Int /\ x = n * i
  BY ModValue DEF IsMultiple
<1> HIDE DEF i
<1>2. k \in Int /\ x + 2 * n = n * k
  BY <1>1
<1> HIDE DEF k
<1>3. IsMultiple(n * k, n)
  BY <1>2, MultipleMod
<1>4. QED
  BY <1>2, <1>3

\* Different multiples of n differ by n at least.
LEMMA MultiplesApart ==
  ASSUME NEW n \in Nat \ {0}, NEW x \in Int, NEW y \in Int,
         IsMultiple(x, n), IsMultiple(y, n), x < y
  PROVE  x + n <= y
<1>1. x = n * (x \div n) /\ y = n * (y \div n) /\ x \div n \in Int /\ y \div n \in Int
  BY ModValue DEF IsMultiple
<1>2. n * ((y \div n) - (x \div n)) = y - x
  BY <1>1
<1>3. (y \div n) - (x \div n) >= 1
  BY <1>1, <1>2, Multiples
<1>4. QED
  BY <1>1, <1>2, <1>3, Multiples

\* The remainder of a multiple of n by a multiple of n is one of n.
LEMMA ModOfMultiple ==
  ASSUME NEW n \in Nat \ {0}, NEW m \in Nat \ {0}, IsMultiple(m, n),
         NEW x \in Int, IsMultiple(x, n)
  PROVE  IsMultiple(x % m, n)
<1> DEFINE i == x \div n
           j == m \div n
           q == x \div m
<1>1. i \in Int /\ j \in Int /\ q \in Int /\ x = n * i /\ m = n * j
      /\ x % m = x - m * q
  BY ModValue DEF IsMultiple
<1> HIDE DEF i, j, q
<1>2. x % m = n * (i - j * q)
  <2>1. m * q = n * (j * q)
    BY <1>1
  <2>2. QED
    BY <1>1, <2>1
<1> DEFINE k == i - j * q
<1>3. k \in Int /\ x % m = n * k
  BY <1>1, <1>2
<1> HIDE DEF k
<1>4. QED
  BY <1>3, MultipleMod

\* A multiple of a multiple of n is one of n.
LEMMA MultipleOfMultiple ==
  ASSUME NEW n \in Nat \ {0}, NEW m \in Nat \ {0}, IsMultiple(m, n),
         NEW x \in Int, IsMultiple(x, m)
  PROVE  IsMultiple(x, n)
<1> DEFINE i == x \div m
           j == m \div n
<1>1. i \in Int /\ j \in Int /\ x = m * i /\ m = n * j
  BY ModValue DEF IsMultiple
<1> DEFINE k == j * i
<1>2. k \in Int
  BY <1>1
<1> HIDE DEF i, j
<1>3. x = n * k
  BY <1>1
<1> HIDE DEF k
<1>4. QED
  BY <1>2, <1>3, MultipleMod

\* A time rounded down to a step.
LEMMA FloorBounds ==
  ASSUME NEW step \in Nat \ {0}, NEW t \in Nat
  PROVE  /\ Floor(t, step) \in Nat /\ IsMultiple(Floor(t, step), step)
         /\ Floor(t, step) <= t /\ t < Floor(t, step) + step
<1>1. /\ t \div step \in Int /\ t % step \in 0 .. step - 1
      /\ t = step * (t \div step) + (t % step)
  BY ModValue
<1>2. Floor(t, step) = step * (t \div step)
  BY <1>1 DEF Floor
<1> DEFINE q == t \div step
           f == Floor(t, step)
<1>3. /\ q \in Int /\ q >= 0 /\ f = step * q /\ f = t - (t % step)
      /\ t % step \in 0 .. step - 1
  BY <1>1, <1>2 DEF Floor
<1> HIDE DEF q, f
<1>4. IsMultiple(f, step)
  BY <1>3, MultipleMod
<1>5. f \in Nat
  BY <1>3
<1>6. QED
  BY <1>3, <1>4, <1>5 DEF f

-----------------------------------------------------------------------------
(* One channel *)

\* The steps are positive, and divide the turns.
LEMMA Steps ==
  /\ Turn \in Nat \ {0} /\ Lsb \in Nat \ {0} /\ FpgaLsb \in Nat \ {0}
  /\ Margin \in Nat \ {0} /\ Second \in Nat \ {0} /\ StartDelay \in Nat \ {0}
  /\ Start \in Nat \ {0} /\ StampTurn \in Nat \ {0}
  /\ IsMultiple(Turn, FpgaLsb) /\ IsMultiple(Turn, Lsb)
  /\ IsMultiple(Lsb, FpgaLsb) /\ IsMultiple(StampTurn, FpgaLsb)
<1>1. /\ Turn \in Nat \ {0} /\ Lsb \in Nat \ {0} /\ FpgaLsb \in Nat \ {0}
      /\ Margin \in Nat \ {0} /\ Second \in Nat \ {0} /\ StartDelay \in Nat \ {0}
      /\ Start \in Nat \ {0}
  BY LbtAssumption
<1>2. IsMultiple(Lsb, FpgaLsb) /\ IsMultiple(Turn, Lsb)
  BY LbtAssumption DEF IsMultiple
<1>3. IsMultiple(Turn, FpgaLsb)
  BY <1>1, <1>2, MultipleOfMultiple
<1>4. StampTurn = Turn * 2 /\ StampTurn \in Nat \ {0}
  BY <1>1 DEF StampTurn
<1>5. IsMultiple(Turn * 2, Turn)
  BY <1>1, MultipleMod
<1>6. IsMultiple(StampTurn, FpgaLsb)
  BY <1>1, <1>3, <1>4, <1>5, MultipleOfMultiple
<1>7. QED
  BY <1>1, <1>2, <1>3, <1>4, <1>6

\* The turns are multiples of each other.
LEMMA Turns ==
  /\ StampTurn = 2 * Turn
  /\ W \in Nat /\ W >= 4 * Turn /\ Lsb <= Turn /\ FpgaLsb <= Lsb
<1>1. StampTurn = 2 * Turn
  BY DEF StampTurn
<1>2. W \in Nat /\ W >= 2 * StampTurn
  BY LbtAssumption
<1>3. Lsb <= Turn
  <2>1. IsMultiple(0, Lsb) /\ 0 \in Int /\ 0 < Turn
    BY Steps DEF IsMultiple
  <2>2. 0 + Lsb <= Turn
    BY <2>1, Steps, MultiplesApart
  <2>3. QED
    BY <2>2, Steps
<1>4. FpgaLsb <= Lsb
  <2>1. IsMultiple(0, FpgaLsb) /\ 0 \in Int /\ 0 < Lsb
    BY Steps DEF IsMultiple
  <2>2. 0 + FpgaLsb <= Lsb
    BY <2>1, Steps, MultiplesApart
  <2>3. QED
    BY <2>2, Steps
<1>5. QED
  BY <1>1, <1>2, <1>3, <1>4, Steps

\* A time rounded down to a step of the FPGA.
LEMMA FpgaFloor ==
  ASSUME NEW f \in Nat
  PROVE  /\ Floor(f, FpgaLsb) \in Nat /\ Floor(f, FpgaLsb) <= f
         /\ f < Floor(f, FpgaLsb) + FpgaLsb
BY Steps, FloorBounds

\* A stamp is a time rounded down to a step of the FPGA, within their turn.
LEMMA StampValue ==
  ASSUME NEW f \in Nat
  PROVE  LET s == Floor(f, FpgaLsb) % StampTurn
         IN  /\ \E k \in Int : s = Floor(f, FpgaLsb) - StampTurn * k
             /\ s \in 0 .. StampTurn - 1 /\ IsMultiple(s, FpgaLsb)
<1> DEFINE a == Floor(f, FpgaLsb)
<1>1. a \in Nat /\ IsMultiple(a, FpgaLsb)
  BY Steps, FloorBounds
<1> HIDE DEF a
<1>2. IsMultiple(a % StampTurn, FpgaLsb)
  BY <1>1, Steps, ModOfMultiple
<1>3. /\ a \div StampTurn \in Int /\ a % StampTurn \in 0 .. StampTurn - 1
      /\ a % StampTurn = a - StampTurn * (a \div StampTurn)
  BY <1>1, Steps
<1>4. QED
  BY <1>2, <1>3 DEF a

\* A masked time is less than a step of the mask behind, within the turn.
LEMMA MaskedValue ==
  ASSUME NEW t \in Nat
  PROVE  /\ \E k \in Int, r \in 0 .. Lsb - 1 :
               Masked(t) = t - r - Turn * k /\ IsMultiple(t - r, Lsb)
         /\ Masked(t) \in 0 .. Turn - 1
         /\ IsMultiple(Masked(t), FpgaLsb) /\ IsMultiple(Masked(t), Lsb)
<1> DEFINE b == Floor(t, Lsb)
<1>1. b \in Nat /\ IsMultiple(b, Lsb) /\ b <= t /\ t < b + Lsb
  BY Steps, FloorBounds
<1>2. Masked(t) = b % Turn
  BY DEF Masked
<1> HIDE DEF b
<1>3. IsMultiple(b, FpgaLsb)
  BY <1>1, Steps, MultipleOfMultiple
<1>4. IsMultiple(b % Turn, FpgaLsb) /\ IsMultiple(b % Turn, Lsb)
  BY <1>1, <1>3, Steps, ModOfMultiple
<1>5. /\ b \div Turn \in Int /\ b % Turn \in 0 .. Turn - 1
      /\ b % Turn = b - Turn * (b \div Turn)
  BY <1>1, Steps
<1> DEFINE q == b \div Turn
           r == t - b
<1>6. /\ r \in 0 .. Lsb - 1 /\ b % Turn = t - r - Turn * q /\ q \in Int
      /\ t - r = b
  BY <1>1, <1>5, Steps
<1>7. QED
  BY <1>1, <1>2, <1>4, <1>5, <1>6

\* A multiple of the FPGA's step below a turn is a step below it at least.
LEMMA BelowTurn ==
  ASSUME NEW n \in {Turn, StampTurn}, NEW x \in 0 .. n - 1, IsMultiple(x, FpgaLsb)
  PROVE  x + FpgaLsb <= n
<1>1. n \in Nat /\ x \in Int /\ x < n /\ IsMultiple(n, FpgaLsb)
  BY Steps
<1>2. QED
  BY <1>1, Steps, MultiplesApart

\* What the code computes of a channel found free at f and a packet of length d
\* that starts at s: if the packet ends within a turn of f, the delta is at most
\* three steps of the mask short, and at most one step of the FPGA too long unless
\* the stamps wrap between.
LEMMA DeltaBounds ==
  ASSUME NEW f \in Nat, NEW s \in Nat, NEW d \in Durations,
         f <= s, s + d - f < Turn
  PROVE  LET lbt == Floor(f, FpgaLsb) % StampTurn
             end == Masked(Masked(s) + d)
         IN  /\ Delta(lbt, end) \in Int
             /\ s + d - Floor(f, FpgaLsb) < Delta(lbt, end) + 3 * Lsb
             /\ \/ Delta(lbt, end) - FpgaLsb < s + d - f
                \/ f \div StampTurn < (s + d) \div StampTurn
<1> DEFINE a == Floor(f, FpgaLsb)
           lbt == a % StampTurn
           x == Masked(s) + d
           end == Masked(x)
<1>1. d \in Nat /\ d >= 2 * Lsb
  BY LbtAssumption, Steps
<1>2. a \in Nat /\ a <= f /\ f < a + FpgaLsb
  BY Steps, FloorBounds
<1>3. /\ lbt \in 0 .. StampTurn - 1 /\ IsMultiple(lbt, FpgaLsb)
      /\ \E k \in Int : lbt = a - StampTurn * k
  BY StampValue
<1>4. /\ Masked(s) \in 0 .. Turn - 1 /\ IsMultiple(Masked(s), Lsb)
      /\ \E k \in Int, r \in 0 .. Lsb - 1 : Masked(s) = s - r - Turn * k
  BY MaskedValue
<1>5. x \in Nat
  BY <1>1, <1>4, Steps
<1>6. /\ end \in 0 .. Turn - 1 /\ IsMultiple(end, FpgaLsb)
      /\ \E k \in Int, r \in 0 .. Lsb - 1 :
           end = x - r - Turn * k /\ IsMultiple(x - r, Lsb)
  <2> HIDE DEF x
  <2>1. QED
    BY <1>5, MaskedValue
<1>7. PICK k1 \in Int : lbt = a - StampTurn * k1
  BY <1>3
<1>8. PICK k2 \in Int, r2 \in 0 .. Lsb - 1 : Masked(s) = s - r2 - Turn * k2
  BY <1>4
<1>9. PICK k3 \in Int, r3 \in 0 .. Lsb - 1 :
        end = x - r3 - Turn * k3 /\ IsMultiple(x - r3, Lsb)
  BY <1>6
\* Two steps of the mask are whole steps: they survive the rounding of the end.
<1>whole. d - r3 >= 2 * Lsb
  <2> DEFINE m == Masked(s)
             y == m + 2 * Lsb
             z == x - r3
  <2>1. m \in Int /\ IsMultiple(m, Lsb) /\ x = m + d
    BY <1>4, Steps
  <2> HIDE DEF m
  <2>2. y \in Int /\ IsMultiple(y, Lsb)
    BY <2>1, Steps, TwoMore
  <2> HIDE DEF x
  <2>3. z \in Int /\ IsMultiple(z, Lsb) /\ x < z + Lsb
    BY <1>5, <1>9, Steps
  <2>4. y <= x
    BY <1>1, <2>1, Steps
  <2> HIDE DEF y, z
  <2>5. ~(z < y)
    BY <1>5, <2>2, <2>3, <2>4, Steps, MultiplesApart
  <2>6. z = m + d - r3 /\ y = m + 2 * Lsb
    <3>1. z = x - r3 /\ y = m + 2 * Lsb
      BY DEF z, y
    <3>2. QED
      BY <1>1, <1>9, <2>1, <3>1
  <2>7. QED
    BY <1>1, <1>9, <2>1, <2>2, <2>3, <2>5, <2>6, Steps
<1>start. x = s - r2 - Turn * k2 + d
  BY <1>8
<1> HIDE DEF a, lbt, x, end
<1> DEFINE k == k2 + k3 - 2 * k1
           D == s + d - r2 - r3 - a
<1>10. k \in Int /\ end - lbt = D - Turn * k /\ D \in Int
  <2>1. end = s - r2 - Turn * k2 + d - r3 - Turn * k3
    <3> DEFINE p == Turn * k2
               q == Turn * k3
    <3>1. p \in Int /\ q \in Int
      BY Steps
    <3>2. x = s - r2 - p + d /\ end = x - r3 - q
      BY <1>9, <1>start
    <3> HIDE DEF p, q
    <3>3. end = s - r2 - p + d - r3 - q
      BY <1>1, <3>1, <3>2
    <3>4. QED
      BY <3>3 DEF p, q
  <2>2. lbt = a - 2 * (Turn * k1)
    BY <1>7, <1>2, Steps, Turns
  <2>3. Turn * k = Turn * k2 + Turn * k3 - 2 * (Turn * k1)
    BY Steps
  <2>4. QED
    BY <1>1, <1>2, <2>1, <2>2, <2>3, Steps
<1>11. /\ Lsb < D /\ D < Turn + FpgaLsb
       /\ s + d - a < D + 2 * Lsb /\ D - FpgaLsb < s + d - f
       /\ a + D <= s + d
  BY <1>whole, <1>1, <1>2, Steps
<1> HIDE DEF k, D
<1>12. lbt + FpgaLsb <= StampTurn /\ end + FpgaLsb <= Turn
  BY <1>3, <1>6, BelowTurn
<1>types. /\ lbt \in Int /\ end \in Int /\ Turn \in Int /\ Turn >= Lsb /\ Lsb \in Int
      /\ Lsb >= 1 /\ W \in Int /\ W >= 4 * Turn
      /\ D \in Int /\ Lsb < D /\ D <= 2 * Turn
  <2>1. lbt \in Int /\ end \in Int /\ FpgaLsb \in Int /\ FpgaLsb <= Turn
    BY <1>3, <1>6, <1>12, Steps, Turns
  <2>2. D \in Int /\ Lsb < D /\ D < Turn + FpgaLsb
    BY <1>10, <1>11
  <2>3. QED
    BY <2>1, <2>2, Steps, Turns
<1>13. \/ Delta(lbt, end) \in {D, D - Lsb}
       \/ /\ Delta(lbt, end) = W + D - Turn - Lsb
          /\ f \div StampTurn < (s + d) \div StampTurn
  <2>1. CASE lbt < end
    <3>1. lbt + FpgaLsb <= end
      BY <1>3, <1>6, <2>1, Steps, MultiplesApart
    <3>2. k <= 0
      BY <1>3, <1>6, <1>10, <1>11, <1>12, <2>1, <3>1, Steps, Turns, Multiples
    <3>3. k >= 0
      <4> SUFFICES ASSUME k <= -1 PROVE FALSE
        BY <1>10
      <4>1. -k \in Int /\ -k >= 1 /\ Turn * (-k) = -(Turn * k)
        BY <1>10, Steps
      <4>2. Turn * (-k) >= Turn
        BY <4>1, Steps, Multiples
      <4>3. QED
        BY <1>3, <1>6, <1>10, <1>11, <4>1, <4>2, Steps
    <3>4. k = 0
      BY <1>10, <3>2, <3>3
    <3>5. end - lbt = D
      BY <1>10, <3>4, Steps
    <3>6. QED
      BY <2>1, <3>5 DEF Delta
  <2>2. CASE ~(lbt < end)
    <3>1. k >= 1
      BY <1>3, <1>6, <1>10, <1>11, <2>2, Steps, Turns, Multiples
    <3>2. k <= 2
      <4> SUFFICES ASSUME k >= 3 PROVE FALSE
        BY <1>10
      <4>1. Turn * k >= 3 * Turn
        BY <1>10, Steps, Multiples
      <4>2. QED
        BY <1>3, <1>6, <1>10, <1>11, <1>12, <4>1, Steps, Turns
    <3>3. CASE k = 1
      <4>1. (Turn - Lsb - lbt) + end = D - Lsb
        BY <1>types, <1>10, <3>3
      <4>2. D - Lsb \in 0 .. W - 1
        BY <1>types
      <4>3. Delta(lbt, end) = (D - Lsb) % W
        BY <2>2, <4>1 DEF Delta
      <4>4. QED
        BY <4>2, <4>3, Steps, Turns
    <3>4. CASE k = 2
      <4>1. end - lbt = D - 2 * Turn
        BY <1>types, <1>10, <3>4
      <4>2. (Turn - Lsb - lbt) + end = D - Turn - Lsb
        BY <1>types, <4>1
      <4>below. D < Turn + Lsb
        BY <1>11, <1>types, Steps, Turns
      <4>3. D - Turn - Lsb < 0 /\ W + (D - Turn - Lsb) \in 0 .. W - 1
        BY <1>types, <4>below
      <4>4. Delta(lbt, end) = (D - Turn - Lsb) % W
        BY <2>2, <4>2 DEF Delta
      <4>5. Delta(lbt, end) = W + D - Turn - Lsb
        <5> DEFINE e == D - Turn - Lsb
        <5>1. e \in Int /\ W + e \in 0 .. W - 1
          BY <1>10, <4>3, Steps, Turns
        <5> HIDE DEF e
        <5>2. e % W = W + e
          BY <5>1, Steps, Turns
        <5>3. QED
          BY <1>10, <4>4, <5>1, <5>2, Steps DEF e
      <4>6. f \div StampTurn < (s + d) \div StampTurn
        <5> DEFINE j == k1 + 1
                   m == StampTurn * j
        <5>1. m = StampTurn * k1 + StampTurn /\ StampTurn * k1 \in Int
          BY Steps, Turns
        <5>2. f < m
          BY <1>2, <1>3, <1>7, <1>12, <5>1, Steps, Turns
        <5>3. m <= s + d
          BY <1>1, <1>2, <1>3, <1>6, <1>7, <1>10, <1>11, <4>1, <5>1, Steps, Turns
        <5>4. j \in Int /\ s + d \in Nat
          BY <1>1
        <5> HIDE DEF j
        <5>5. QED
          BY <5>2, <5>3, <5>4, Steps, TurnBetween
      <4>7. QED
        BY <4>5, <4>6
    <3>5. QED
      BY <1>10, <3>1, <3>2, <3>3, <3>4
  <2>3. QED
    BY <2>1, <2>2
<1>14. CASE Delta(lbt, end) \in {D, D - Lsb}
  BY <1>1, <1>2, <1>10, <1>11, <1>14, Steps, Turns DEF a, lbt, end, x
<1>15. CASE /\ Delta(lbt, end) = W + D - Turn - Lsb
            /\ f \div StampTurn < (s + d) \div StampTurn
  BY <1>1, <1>2, <1>10, <1>11, <1>15, Steps, Turns DEF a, lbt, end, x
<1>16. QED
  BY <1>13, <1>14, <1>15

\* Of two times in the same turn of the stamps, the one with the smaller stamp is not later.
LEMMA SameTurn ==
  ASSUME NEW f \in Nat, NEW g \in Nat, f \div StampTurn = g \div StampTurn,
         Floor(f, FpgaLsb) % StampTurn <= Floor(g, FpgaLsb) % StampTurn
  PROVE  Floor(f, FpgaLsb) <= Floor(g, FpgaLsb)
<1>1. ASSUME NEW t \in Nat
      PROVE  Floor(t, FpgaLsb) % StampTurn = Floor(t, FpgaLsb) - StampTurn * (t \div StampTurn)
  <2> DEFINE a == Floor(t, FpgaLsb)
             q == t \div StampTurn
             m == StampTurn * q
  <2>1. a \in Nat /\ IsMultiple(a, FpgaLsb) /\ a <= t /\ t < a + FpgaLsb
    BY Steps, FloorBounds
  <2>2. q \in Int /\ m <= t /\ t < m + StampTurn
    BY Steps
  <2> HIDE DEF a, q
  <2>3. m \in Int /\ IsMultiple(m, StampTurn)
    BY <2>2, Steps DEF IsMultiple
  <2>4. IsMultiple(m, FpgaLsb)
    <3> HIDE DEF m
    <3>1. QED
      BY <2>3, Steps, MultipleOfMultiple
  <2>5. a >= m
    <3> HIDE DEF m
    <3>1. SUFFICES ASSUME a < m PROVE FALSE
      BY <2>1, <2>3
    <3>2. a + FpgaLsb <= m
      BY <2>1, <2>3, <2>4, <3>1, Steps, MultiplesApart
    <3>3. QED
      BY <2>1, <2>2, <2>3, <3>2, Steps
  <2> DEFINE r == a - m
  <2>6. r \in 0 .. StampTurn - 1 /\ a = StampTurn * q + r
    <3>1. r \in Int /\ r >= 0 /\ r < StampTurn /\ a = m + r
      BY <2>1, <2>2, <2>3, <2>5, Steps
    <3>2. QED
      BY <3>1, Steps
  <2> HIDE DEF r
  <2>7. a % StampTurn = r
    BY <2>2, <2>6, Steps
  <2>8. QED
    BY <2>2, <2>6, <2>7, <2>1, Steps DEF a, q
<1>2. Floor(f, FpgaLsb) \in Nat /\ Floor(g, FpgaLsb) \in Nat
  BY Steps, FloorBounds
<1> DEFINE m == StampTurn * (g \div StampTurn)
<1>3. /\ Floor(f, FpgaLsb) % StampTurn = Floor(f, FpgaLsb) - m
      /\ Floor(g, FpgaLsb) % StampTurn = Floor(g, FpgaLsb) - m /\ m \in Int
  <2>1. g \div StampTurn \in Int /\ StampTurn \in Int
    BY Steps
  <2>2. m \in Int
    BY <2>1
  <2>3. QED
    BY <1>1, <2>2
<1> HIDE DEF m
<1>4. QED
  BY <1>2, <1>3

-----------------------------------------------------------------------------
(* The channels of a packet *)

\* A nonempty set of naturals has a least element.
LEMMA LeastElement ==
  ASSUME NEW T, T \subseteq Nat, T # {}
  PROVE  \E x \in T : \A y \in T : x <= y
<1>1. \E x \in T : \A y \in T : <<y, x>> \notin OpToRel(<, Nat)
  BY WFMin, NatLessThanWellFounded, Zenon
<1>2. \E x \in T : \A y \in T : ~(y < x)
  BY <1>1 DEF OpToRel
<1>3. QED
  BY <1>2

\* A packet occupies no channel, one, or one and the next.
LEMMA DecodedShape ==
  ASSUME NEW freq, NEW bw, Decoded(freq, bw) # {}
  PROVE  \E c \in Chan : \/ Decoded(freq, bw) = {c}
                         \/ c + 1 \in Chan /\ Decoded(freq, bw) = {c, c + 1}
<1> DEFINE fit == {c \in Chan : Fits(c, freq, bw)}
           c0 == CHOOSE x \in fit : \A y \in fit : x <= y
<1>1. fit # {} /\ Decoded(freq, bw) = IF bw = 125 THEN {c0} ELSE {c0, c0 + 1}
  BY DEF Decoded
<1>2. fit \subseteq Nat
  BY LbtAssumption, LenProperties DEF Chan
<1>3. \E x \in fit : \A y \in fit : x <= y
  <2> HIDE DEF fit
  <2>1. QED
    BY <1>1, <1>2, LeastElement
<1>4. c0 \in fit
  BY <1>3
<1>5. c0 \in Chan /\ (bw # 125 => c0 + 1 \in Chan)
  BY <1>4 DEF Fits
<1> HIDE DEF c0
<1>6. QED
  BY <1>1, <1>5

\* Its limit is that of one of its channels, and the time taken for the last
\* one they were free is the smallest of their stamps.
LEMMA ChannelFacts ==
  ASSUME NEW freq, NEW bw \in {125, 250},
         \A c \in Chan : free[c] \in Nat
  PROVE  LET cs == Decoded(freq, bw)
         IN  /\ cs \subseteq Chan
             /\ cs = {} => LastFree(cs) = 0 /\ Limit(cs, bw) = 0
             /\ cs # {} =>
                  /\ Limit(cs, bw) \in Margin .. Turn
                  /\ \E c \in cs : /\ LastFree(cs) = Stamp(c)
                                   /\ \A e \in cs : Stamp(c) <= Stamp(e)
<1> DEFINE cs == Decoded(freq, bw)
<1>1. cs = {} => LastFree(cs) = 0 /\ Limit(cs, bw) = 0
  BY DEF LastFree, Limit
<1>2. ASSUME cs # {}
      PROVE  /\ cs \subseteq Chan
             /\ Limit(cs, bw) \in Margin .. Turn
             /\ \E c \in cs : /\ LastFree(cs) = Stamp(c)
                              /\ \A e \in cs : Stamp(c) <= Stamp(e)
  <2>1. PICK c \in Chan : cs = {c} \/ (c + 1 \in Chan /\ cs = {c, c + 1})
    BY <1>2, DecodedShape
  <2> HIDE DEF cs
  <2>2. cs \subseteq Chan /\ Chan = 1 .. Len(Plan) /\ Len(Plan) \in Nat
    BY <2>1, LbtAssumption, LenProperties DEF Chan
  <2>3. \A e \in cs : Stamp(e) \in Nat
    <3>1. ASSUME NEW e \in cs PROVE free[e] \in Nat
      BY <2>2
    <3>2. ASSUME NEW f \in Nat PROVE Floor(f, FpgaLsb) % StampTurn \in Nat
      BY StampValue, Steps
    <3>3. QED
      BY <3>1, <3>2 DEF Stamp
  <2>4. Limit(cs, bw) \in Margin .. Turn
    <3>1. \E x \in cs : \A y \in cs : x <= y
      <4>1. cs \subseteq Nat
        BY <2>2
      <4>2. QED
        BY <1>2, <4>1, LeastElement
    <3>2. First(cs) \in cs
      BY <3>1 DEF First
    <3>3. Plan[First(cs)] \in [freq : Nat, scan : {"fast", "slow"}]
      <4> DEFINE i == First(cs)
                 S == [freq : Nat, scan : {"fast", "slow"}]
      <4>1. i \in 1 .. Len(Plan)
        BY <2>2, <3>2
      <4>2. Plan \in Seq(S)
        BY LbtAssumption
      <4> HIDE DEF i, S
      <4>3. Plan[i] \in S
        BY <4>1, <4>2, ElementOfSeq
      <4>4. QED
        BY <4>3 DEF i, S
    <3>4. QED
      <4> DEFINE p == <<Plan[First(cs)].scan, bw>>
      <4>1. MaxTime \in [{"fast", "slow"} \X {125, 250} -> Margin .. Turn]
        BY LbtAssumption
      <4>2. p \in {"fast", "slow"} \X {125, 250}
        BY <3>3
      <4>3. Limit(cs, bw) = MaxTime[p]
        BY <1>2 DEF Limit
      <4> HIDE DEF p
      <4>4. QED
        BY <4>1, <4>2, <4>3
  <2>5. \E e \in cs : LastFree(cs) = Stamp(e) /\ \A o \in cs : Stamp(e) <= Stamp(o)
    <3> DEFINE T == {Stamp(e) : e \in cs}
    <3>1. T \subseteq Nat /\ T # {}
      BY <1>2, <2>3
    <3>2. \E t \in T : \A o \in cs : t <= Stamp(o)
      <4>1. \E t \in T : \A u \in T : t <= u
        <5> HIDE DEF T
        <5>1. QED
          BY <3>1, LeastElement
      <4>2. QED
        BY <4>1
    <3>3. LastFree(cs) = CHOOSE t \in T : \A o \in cs : t <= Stamp(o)
      BY <1>2 DEF LastFree
    <3>4. LastFree(cs) \in T /\ \A o \in cs : LastFree(cs) <= Stamp(o)
      BY <3>2, <3>3
    <3>5. QED
      BY <3>4
  <2>6. QED
    BY <2>2, <2>4, <2>5
<1>3. QED
  BY <1>1, <1>2

-----------------------------------------------------------------------------
(* The answers *)

\* A packet never starts in the past.
LEMMA StartFacts ==
  ASSUME clock \in Nat, NEW mode, NEW lead \in Leads
  PROVE  StartTime(mode, lead) \in Nat /\ clock <= StartTime(mode, lead)
<1>1. lead \in Nat
  BY LbtAssumption
<1>2. LastPulse \in Nat /\ clock < LastPulse + Second
  BY Steps, FloorBounds DEF LastPulse
<1>3. QED
  BY <1>1, <1>2, Steps DEF StartTime

\* One check of lbt_is_channel_free.
LEMMA AnswerStep ==
  ASSUME TypeOK, IsChannelFree
  PROVE  TypeOK' /\ AllowedEndsInTime' /\ RefusedForAReason'
<1>1. PICK mode \in {"TIMESTAMPED", "ON_GPS"}, bw \in {125, 250},
           freq \in Freqs, dur \in Durations, lead \in Leads :
        check' = [answer |-> IF Allowed(LastFree(Decoded(freq, bw)),
                                        Masked(Masked(StartTime(mode, lead)) + dur),
                                        Limit(Decoded(freq, bw), bw))
                             THEN "allowed" ELSE "refused",
                  chans |-> Decoded(freq, bw),
                  limit |-> Limit(Decoded(freq, bw), bw),
                  ends |-> StartTime(mode, lead) + dur]
  BY DEF IsChannelFree
<1> DEFINE cs == Decoded(freq, bw)
           start == StartTime(mode, lead)
           lbt == LastFree(cs)
           end == Masked(Masked(start) + dur)
           limit == Limit(cs, bw)
<1>2. /\ check'.chans = cs /\ check'.limit = limit /\ check'.ends = start + dur
      /\ check'.answer = IF Allowed(lbt, end, limit) THEN "allowed" ELSE "refused"
  BY <1>1
<1>3. free' = free /\ clock' = clock /\ clock \in Nat
      /\ \A c \in Chan : free[c] \in Nat /\ free[c] <= clock
  <2>1. free' = free /\ clock' = clock
    BY DEF IsChannelFree
  <2>2. clock \in Nat /\ \A c \in Chan : free[c] \in Nat /\ free[c] <= clock
    BY Steps DEF TypeOK
  <2>3. QED
    BY <2>1, <2>2
<1>4. start \in Nat /\ clock <= start /\ dur \in Nat
  BY <1>3, StartFacts, LbtAssumption
<1>5. /\ cs \subseteq Chan
      /\ cs = {} => lbt = 0
      /\ cs # {} => /\ limit \in Margin .. Turn
                    /\ \E c \in cs : lbt = Stamp(c) /\ \A e \in cs : Stamp(c) <= Stamp(e)
  BY <1>3, ChannelFacts
<1> HIDE DEF cs, start, lbt, end, limit
<1>6. TypeOK'
  BY <1>2, <1>3, <1>5 DEF TypeOK, Allowed
<1>7. CASE cs = {}
  <2>1. check'.answer = "refused" /\ check'.chans = {}
    BY <1>2, <1>5, <1>7 DEF Allowed
  <2>2. QED
    BY <1>6, <2>1 DEF AllowedEndsInTime, RefusedForAReason
<1>8. CASE cs # {}
  <2>1. PICK c \in cs : lbt = Stamp(c) /\ \A e \in cs : Stamp(c) <= Stamp(e)
    BY <1>5, <1>8
  <2>2. limit \in Int /\ limit - Margin \in 0 .. W - 1 /\ W \in Nat /\ Lsb \in Nat
    BY <1>5, <1>8, Steps, Turns
  <2>3. (limit - Margin) % W = limit - Margin
    BY <2>2
  <2>0. \A e \in cs : Since(e)' = start + dur - free[e] /\ Stamp(e)' = Stamp(e)
    <3>1. ASSUME NEW e \in cs
          PROVE  Since(e)' = start + dur - free[e] /\ Stamp(e)' = Stamp(e)
      <4>1. check'.ends = start + dur /\ free' = free /\ free[e] \in Nat
        BY <1>2, <1>3, <1>5
      <4>2. QED
        BY <1>4, <4>1 DEF Since, Stamp
    <3>2. QED
      BY <3>1
  <2>a. CASE ~WithinATurn'
    BY <1>6, <2>a DEF AllowedEndsInTime, RefusedForAReason
  <2> SUFFICES ASSUME WithinATurn'
               PROVE  AllowedEndsInTime' /\ RefusedForAReason'
    BY <1>6, <2>a
  <2>b. start + dur - free[c] < Turn
    BY <1>2, <2>0 DEF WithinATurn
  <2> DEFINE delta == Delta(lbt, end)
             a == Floor(free[c], FpgaLsb)
  <2>4. free[c] \in Nat /\ free[c] <= start
    BY <1>3, <1>4, <1>5
  <2>5. /\ delta \in Int /\ start + dur - a < delta + 3 * Lsb
        /\ \/ delta - FpgaLsb < start + dur - free[c]
           \/ free[c] \div StampTurn < (start + dur) \div StampTurn
    BY <1>4, <2>1, <2>4, <2>b, DeltaBounds DEF Stamp, end
  <2>6. a \in Nat /\ a <= free[c]
    BY <2>4, FpgaFloor
  <2>7. Allowed(lbt, end, limit) <=> delta < limit - Margin /\ lbt # 0
    BY <2>3 DEF Allowed
  <2> HIDE DEF delta, a
  <2>8. ASSUME Allowed(lbt, end, limit)
        PROVE  AllowedEndsInTime'
    <3>1. start + dur - a < limit - Margin + 3 * Lsb
      BY <1>4, <2>2, <2>5, <2>6, <2>7, <2>8
    <3>2. start + dur - free[c] < limit - Margin + 3 * Lsb
      BY <1>4, <2>2, <2>4, <2>6, <3>1
    <3>3. ASSUME \A e, d \in cs : free[e] \div StampTurn = free[d] \div StampTurn, NEW e \in cs
          PROVE  start + dur - free[e] < limit - Margin + 3 * Lsb
      <4>1. free[e] \in Nat /\ Stamp(c) <= Stamp(e) /\ free[c] \div StampTurn = free[e] \div StampTurn
        BY <1>3, <1>5, <2>1, <3>3
      <4>2. a <= Floor(free[e], FpgaLsb)
        BY <2>4, <4>1, SameTurn DEF Stamp, a
      <4>3. Floor(free[e], FpgaLsb) \in Nat /\ Floor(free[e], FpgaLsb) <= free[e]
        BY <4>1, FpgaFloor
      <4>4. a <= free[e]
        BY <2>6, <4>1, <4>2, <4>3
      <4>5. QED
        BY <1>4, <2>2, <2>6, <3>1, <4>1, <4>4
    <3>4. QED
      BY <1>2, <1>3, <2>0, <3>2, <3>3 DEF AllowedEndsInTime
  <2>9. ASSUME ~Allowed(lbt, end, limit)
        PROVE  RefusedForAReason'
    <3>1. CASE lbt = 0
      <4>1. Stamp(c) = 0
        BY <2>1, <3>1
      <4>2. QED
        BY <1>2, <2>0, <4>1 DEF RefusedForAReason
    <3>2. CASE lbt # 0
      <4>1. \/ start + dur - free[c] > limit - Margin - FpgaLsb
            \/ free[c] \div StampTurn < (start + dur) \div StampTurn
        BY <1>4, <2>2, <2>4, <2>5, <2>7, <2>9, <3>2, Steps
      <4>2. StampsWrap(c)' <=> free[c] \div StampTurn < (start + dur) \div StampTurn
        BY <1>2, <1>3 DEF StampsWrap
      <4>3. QED
        BY <1>2, <2>0, <4>1, <4>2 DEF RefusedForAReason
    <3>3. QED
      BY <3>1, <3>2
  <2>10. QED
    BY <1>2, <2>8, <2>9 DEF AllowedEndsInTime, RefusedForAReason
<1>9. QED
  BY <1>6, <1>7, <1>8

-----------------------------------------------------------------------------
(* The theorems *)

IInv == TypeOK /\ AllowedEndsInTime /\ RefusedForAReason

\* An answer holds until time passes, and then there is none.
LEMMA StepInv == IInv /\ [Next]_vars => IInv'
<1> SUFFICES ASSUME IInv, [Next]_vars PROVE IInv'
  OBVIOUS
<1>1. CASE IsChannelFree
  BY <1>1, AnswerStep DEF IInv
<1>2. CASE NotSupported
  <2>1. /\ UNCHANGED <<clock, free>>
        /\ check'.chans = {} /\ check'.answer \in {"refused", "error"}
    BY <1>2 DEF NotSupported, Nothing
  <2>2. QED
    BY <2>1 DEF IInv, TypeOK, AllowedEndsInTime, RefusedForAReason
<1>3. CASE Tick
  <2>1. check'.chans = {} /\ check'.answer = "none"
    BY <1>3 DEF Tick, Nothing
  <2>2. clock \in Int /\ clock' = clock + 1 /\ clock' \in Start .. End
    BY <1>3, LbtAssumption, Steps DEF Tick, IInv, TypeOK
  <2>3. \A c \in Chan : free'[c] \in {clock', free[c]}
    BY <1>3 DEF Tick
  <2>4. \A c \in Chan : free'[c] \in Start .. clock'
    BY <2>2, <2>3, Steps DEF IInv, TypeOK
  <2>5. QED
    BY <2>1, <2>2, <2>4 DEF IInv, TypeOK, AllowedEndsInTime, RefusedForAReason
<1>4. CASE UNCHANGED vars
  BY <1>4 DEF vars, IInv, TypeOK, AllowedEndsInTime, RefusedForAReason, WithinATurn,
              Since, Stamp, StampsWrap
<1>5. QED
  BY <1>1, <1>2, <1>3, <1>4 DEF Next, Ended

\* The invariant is one of the check.
THEOREM Invariant == Spec => []IInv
<1>1. Init => IInv
  <2> SUFFICES ASSUME Init, Start <= End PROVE IInv
    BY LbtAssumption
  <2>1. QED
    BY LbtAssumption, Steps
    DEF Init, IInv, TypeOK, Nothing, AllowedEndsInTime, RefusedForAReason
<1>2. QED
  BY <1>1, StepInv, PTL DEF Spec

\* Answers have their type, and no packet is allowed without a channel.
THEOREM TypeCorrect == Spec => []TypeOK
<1>1. IInv => TypeOK
  BY DEF IInv
<1>2. QED
  BY <1>1, Invariant, PTL

\* Whatever the steps of the stamps, an allowed packet ends in time.
THEOREM AllowedInTime == Spec => []AllowedEndsInTime
<1>1. IInv => AllowedEndsInTime
  BY DEF IInv
<1>2. QED
  BY <1>1, Invariant, PTL

\* Whatever the steps of the stamps, a refused packet had a reason.
THEOREM RefusedWithReason == Spec => []RefusedForAReason
<1>1. IInv => RefusedForAReason
  BY DEF IInv
<1>2. QED
  BY <1>1, Invariant, PTL
=============================================================================
