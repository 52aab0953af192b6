--------------------------- MODULE RtpClock_proofs ---------------------------
(***************************************************************************)
(* Arithmetic for the session: counters of a fixed width, which hold the   *)
(* true count modulo M, and the timestamps of RtpClock, which are 32-bit   *)
(* numbers and, when the conversion saturates, follow the presentation     *)
(* times.                                                                  *)
(***************************************************************************)
EXTENDS RtpClock, TLAPS

LEMMA ModRange ==
    ASSUME NEW a \in Int, NEW M \in Nat \ {0}
    PROVE  a % M \in 0..(M - 1)
OBVIOUS

LEMMA DivInt ==
    ASSUME NEW a \in Int, NEW M \in Nat \ {0}
    PROVE  a \div M \in Int
OBVIOUS

LEMMA DivMod ==
    ASSUME NEW a \in Nat, NEW M \in Nat \ {0}
    PROVE  /\ a = M * (a \div M) + (a % M)
           /\ a \div M \in Nat
           /\ a % M \in 0..(M - 1)
OBVIOUS

LEMMA MultipleAtLeast ==
    ASSUME NEW M \in Nat, NEW d \in Nat, d >= 1
    PROVE  M * d >= M
OBVIOUS

(* The remainder of a division is unique. *)
LEMMA RemainderUnique ==
    ASSUME NEW M \in Nat \ {0}, NEW k \in Nat, NEW j \in Nat,
           NEW r \in 0..(M - 1), NEW s \in 0..(M - 1),
           M * k + r = M * j + s
    PROVE  r = s
<1>1. M * (k - j) = s - r /\ M * (j - k) = r - s
  OBVIOUS
<1>2. CASE k > j
  BY <1>1, <1>2, M * (k - j) >= M, MultipleAtLeast
<1>3. CASE j > k
  BY <1>1, <1>3, M * (j - k) >= M, MultipleAtLeast
<1> QED
  BY <1>2, <1>3

(* Adding to a wrapped counter wraps like adding to the true count. *)
THEOREM ModPlus ==
    ASSUME NEW a \in Nat, NEW b \in Nat, NEW M \in Nat \ {0}
    PROVE  ((a % M) + b) % M = (a + b) % M
<1> DEFINE q == a \div M
           r == a % M
           s == r + b
           k == s \div M
           u == s % M
           x == (a + b) \div M
           y == (a + b) % M
<1>1. a = M * q + r /\ q \in Nat /\ r \in Nat
  BY DivMod
<1>2. s \in Nat /\ a + b \in Nat
  BY <1>1
<1>3. s = M * k + u /\ k \in Nat /\ u \in 0..(M - 1)
  BY <1>2, DivMod
<1>4. a + b = M * x + y /\ x \in Nat /\ y \in 0..(M - 1)
  BY <1>2, DivMod
<1>5. a + b = M * q + s
  BY <1>1
<1>6. u = y
  <2> HIDE DEF q, r, s, k, u, x, y
  <2>1. M * (q + k) = M * q + M * k
    BY <1>1, <1>3
  <2>2. M * (q + k) + u = M * x + y /\ q + k \in Nat
    BY <1>1, <1>3, <1>4, <1>5, <2>1
  <2> QED
    BY <1>3, <1>4, <2>2, RemainderUnique
<1> QED
  BY <1>6
-----------------------------------------------------------------------------
(* A timestamp is a 32-bit number, whatever the presentation time.         *)
LEMMA TimestampType ==
    ASSUME NEW delta \in Int
    PROVE  Timestamp(delta) \in 0..(TsMod - 1)
<1>1. \A d \in Int : TicksOf(d) \in Int
  <2> TAKE d \in Int
  <2>1. d * CLOCK_RATE \in Int
    BY ClockAssumption
  <2>2. (d * CLOCK_RATE) \div SECOND \in Int
    BY <2>1, DivInt, ClockAssumption
  <2> QED
    BY <2>2 DEF TicksOf
<1>2. Ticks(delta) \in Int
  <2>1. TicksOf(delta) \in Int /\ TicksOf(-delta) \in Int
    BY <1>1
  <2> QED
    BY <2>1 DEF Ticks
<1>3. \A x \in Int : ToUint32(x) \in 0..(TsMod - 1)
  <2> TAKE x \in Int
  <2>1. x % TsMod \in 0..(TsMod - 1)
    BY ModRange, ClockAssumption
  <2> QED
    BY <2>1, ClockAssumption DEF ToUint32
<1> QED
  BY <1>2, <1>3 DEF Timestamp

(* Ticks grow with the elapsed time, although an elapsed time of exactly   *)
(* n ticks may be given n - 1: a shorter one has less than n.              *)
LEMMA DivMonotone ==
    ASSUME NEW a \in Nat, NEW b \in Nat, NEW M \in Nat \ {0}, a <= b
    PROVE  a \div M <= b \div M
OBVIOUS

LEMMA TimesMonotone ==
    ASSUME NEW a \in Nat, NEW b \in Nat, NEW M \in Nat \ {0}, a < b
    PROVE  a * M < b * M
<1>1. PICK d \in Nat : b = a + d /\ d >= 1
  <2>1. b - a \in Nat /\ b = a + (b - a) /\ b - a >= 1
    OBVIOUS
  <2> QED
    BY <2>1
<1>2. M * d >= M
  BY <1>1, MultipleAtLeast
<1>3. b * M = a * M + M * d
  BY <1>1
<1>4. a * M \in Nat /\ M * d \in Nat
  BY <1>1
<1> QED
  BY <1>2, <1>3, <1>4

LEMMA TicksMonotone ==
    ASSUME NEW c \in Nat, NEW d \in Nat, c <= d
    PROVE  TicksOf(c) <= TicksOf(d)
<1> DEFINE x == c * CLOCK_RATE
           y == d * CLOCK_RATE
<1>1. x \in Nat /\ y \in Nat
  BY ClockAssumption
<1>2. CASE c = d
  BY <1>1, <1>2, ClockAssumption, DivInt DEF TicksOf
<1>3. CASE c < d
  <2>1. x < y
    BY <1>3, TimesMonotone, ClockAssumption
  <2>2. /\ TicksOf(c) \in {x \div SECOND, x \div SECOND - 1}
        /\ TicksOf(d) = y \div SECOND - (IF d \in FpShort THEN 1 ELSE 0)
        /\ d \in FpShort => y % SECOND = 0
    BY ClockAssumption DEF TicksOf
  <2> HIDE DEF x, y
  <2>3. x \div SECOND \in Nat /\ y \div SECOND \in Nat /\ x \div SECOND <= y \div SECOND
    BY <1>1, <2>1, DivMonotone, DivMod, ClockAssumption
  <2>4. CASE d \notin FpShort
    BY <2>2, <2>3, <2>4
  <2>5. CASE d \in FpShort
    <3>1. /\ y = SECOND * (y \div SECOND)
          /\ x = SECOND * (x \div SECOND) + (x % SECOND)
          /\ x % SECOND \in Nat
      BY <1>1, <2>2, <2>5, DivMod, ClockAssumption
    <3>2. x \div SECOND # y \div SECOND
      BY <1>1, <2>1, <3>1, ClockAssumption
    <3> QED
      BY <2>2, <2>3, <2>5, <3>2
  <2> QED
    BY <2>4, <2>5
<1> QED
  BY <1>2, <1>3

LEMMA TicksOfSign == \A d \in Nat : TicksOf(d) \in Nat
<1> SUFFICES ASSUME NEW d \in Nat
             PROVE  TicksOf(d) \in Nat
  OBVIOUS
<1>1. TicksOf(0) = 0
  BY ClockAssumption DEF TicksOf
<1>2. TicksOf(0) <= TicksOf(d)
  BY TicksMonotone
<1>3. TicksOf(d) \in Int
  <2>1. d * CLOCK_RATE \in Int
    BY ClockAssumption
  <2>2. (d * CLOCK_RATE) \div SECOND \in Int
    BY <2>1, DivInt, ClockAssumption
  <2> QED
    BY <2>2 DEF TicksOf
<1> QED
  BY <1>1, <1>2, <1>3

(* On the ARM build a later pts never has an earlier timestamp, below the  *)
(* base, above the top of the clock, or across them.                       *)
THEOREM TimestampMonotone ==
    ASSUME Saturating, NEW c \in Int, NEW d \in Int, c <= d
    PROVE  Timestamp(c) <= Timestamp(d)
<1>1. Ticks(c) \in Int /\ Ticks(d) \in Int /\ Ticks(c) <= Ticks(d)
  <2>1. CASE c >= 0
    BY <2>1, TicksMonotone, TicksOfSign DEF Ticks
  <2>2. CASE c < 0 /\ d >= 0
    <3>1. Ticks(c) = -TicksOf(-c) /\ Ticks(d) = TicksOf(d)
      BY <2>2 DEF Ticks
    <3>2. TicksOf(-c) \in Nat /\ TicksOf(d) \in Nat
      BY <2>2, TicksOfSign
    <3> QED
      BY <3>1, <3>2
  <2>3. CASE d < 0
    <3>1. Ticks(c) = -TicksOf(-c) /\ Ticks(d) = -TicksOf(-d)
      BY <2>3 DEF Ticks
    <3>2. /\ -c \in Nat /\ -d \in Nat /\ -d <= -c
      BY <2>3
    <3>3. TicksOf(-c) \in Nat /\ TicksOf(-d) \in Nat /\ TicksOf(-d) <= TicksOf(-c)
      BY <3>2, TicksOfSign, TicksMonotone
    <3> QED
      BY <3>1, <3>3
  <2> QED
    BY <2>1, <2>2, <2>3
<1> HIDE DEF Ticks
<1> QED
  BY <1>1, ClockAssumption DEF Timestamp, ToUint32
-----------------------------------------------------------------------------
(* Differences of timestamps modulo 2^32, for a build that wraps.          *)
LEMMA DivModInt ==
    ASSUME NEW a \in Int, NEW M \in Nat \ {0}
    PROVE  /\ a = M * (a \div M) + (a % M)
           /\ a \div M \in Int
           /\ a % M \in 0..(M - 1)
OBVIOUS

LEMMA RemainderUniqueInt ==
    ASSUME NEW M \in Nat \ {0}, NEW k \in Int, NEW j \in Int,
           NEW r \in 0..(M - 1), NEW s \in 0..(M - 1),
           M * k + r = M * j + s
    PROVE  r = s
<1>1. M * (k - j) = s - r /\ M * (j - k) = r - s
  OBVIOUS
<1>2. CASE k > j
  BY <1>1, <1>2, M * (k - j) >= M, MultipleAtLeast
<1>3. CASE j > k
  BY <1>1, <1>3, M * (j - k) >= M, MultipleAtLeast
<1> QED
  BY <1>2, <1>3

LEMMA ModMinus ==
    ASSUME NEW a \in Int, NEW b \in Int, NEW M \in Nat \ {0}
    PROVE  ((a % M) - (b % M)) % M = (a - b) % M
<1> DEFINE p == a \div M
           r == a % M
           q == b \div M
           s == b % M
           k == (r - s) \div M
           u == (r - s) % M
           x == (a - b) \div M
           y == (a - b) % M
<1>1. /\ a = M * p + r /\ p \in Int /\ r \in Int
      /\ b = M * q + s /\ q \in Int /\ s \in Int
  BY DivModInt
<1>2. r - s \in Int /\ a - b \in Int
  BY <1>1
<1>3. r - s = M * k + u /\ k \in Int /\ u \in 0..(M - 1)
  BY <1>2, DivModInt
<1>4. a - b = M * x + y /\ x \in Int /\ y \in 0..(M - 1)
  BY <1>2, DivModInt
<1>5. u = y
  <2> HIDE DEF p, r, q, s, k, u, x, y
  <2>1. M * (p - q + k) = M * p - M * q + M * k
    BY <1>1, <1>3
  <2>2. a - b = M * p - M * q + M * k + u
    BY <1>1, <1>3
  <2>3. M * (p - q + k) + u = M * x + y /\ p - q + k \in Int
    BY <1>1, <1>3, <1>4, <2>1, <2>2
  <2> QED
    BY <1>3, <1>4, <2>3, RemainderUniqueInt
<1> QED
  BY <1>5

(* The carry of a difference of quotients, and when there is none or one.  *)
LEMMA Carry ==
    ASSUME NEW x \in Int, NEW y \in Int, NEW M \in Nat \ {0}
    PROVE  LET k == (y \div M) - (x \div M) - ((y - x) \div M)
           IN  /\ k \in {0, 1}
               /\ x % M = 0 => k = 0
               /\ y % M = 0 /\ x % M # 0 => k = 1
<1> DEFINE p == x \div M
           r == x % M
           q == y \div M
           s == y % M
           w == (y - x) \div M
           v == (y - x) % M
           k == q - p - w
<1>1. x = M * p + r /\ p \in Int /\ r \in 0..(M - 1)
  BY DivModInt
<1>2. y = M * q + s /\ q \in Int /\ s \in 0..(M - 1)
  BY DivModInt
<1>3. y - x = M * w + v /\ w \in Int /\ v \in 0..(M - 1)
  BY DivModInt
<1> SUFFICES k \in {0, 1} /\ (r = 0 => k = 0) /\ (s = 0 /\ r # 0 => k = 1)
  OBVIOUS
<1> HIDE DEF p, r, q, s, w, v
<1>4. k \in Int /\ M * k = r + v - s
  <2>1. M * (q - p - w) = M * q - M * p - M * w
    BY <1>1, <1>2, <1>3
  <2> QED
    BY <1>1, <1>2, <1>3, <2>1
<1> HIDE DEF k
<1>5. k < 2
  <2> SUFFICES ASSUME k >= 2
               PROVE  FALSE
    BY <1>4
  <2>1. M * (k - 1) >= M /\ M * (k - 1) = M * k - M
    BY <1>4, MultipleAtLeast
  <2> QED
    BY <1>1, <1>2, <1>3, <1>4, <2>1
<1>6. k > -1
  <2> SUFFICES ASSUME k <= -1
               PROVE  FALSE
    BY <1>4
  <2>1. M * (-k) >= M /\ M * (-k) = -(M * k)
    BY <1>4, MultipleAtLeast
  <2> QED
    BY <1>1, <1>2, <1>3, <1>4, <2>1
<1>7. k = 0 \/ k = 1
  BY <1>4, <1>5, <1>6
<1>8. (k = 0 => M * k = 0) /\ (k = 1 => M * k = M)
  OBVIOUS
<1> QED
  BY <1>1, <1>2, <1>3, <1>4, <1>7, <1>8

(* What two elapsed times differ by, in ticks, although either of them may *)
(* be a tick short and each is rounded.                                    *)
LEMMA TicksDifference ==
    ASSUME NEW c \in Nat, NEW d \in Nat
    PROVE  \E k \in -1..1 :
               TicksOf(d) - TicksOf(c) = ((d - c) * CLOCK_RATE) \div SECOND + k
<1> DEFINE x == c * CLOCK_RATE
           y == d * CLOCK_RATE
           z == (d - c) * CLOCK_RATE
           short(e) == IF e \in FpShort THEN 1 ELSE 0
           carry == (y \div SECOND) - (x \div SECOND) - ((y - x) \div SECOND)
<1>1. x \in Int /\ y \in Int /\ z = y - x
  BY ClockAssumption
<1>2. /\ TicksOf(c) = x \div SECOND - short(c)
      /\ TicksOf(d) = y \div SECOND - short(d)
      /\ c \in FpShort => x % SECOND = 0
      /\ d \in FpShort => y % SECOND = 0
  BY ClockAssumption DEF TicksOf
<1>3. SECOND \in Nat \ {0}
  BY ClockAssumption
<1> SUFFICES \E k \in -1..1 : TicksOf(d) - TicksOf(c) = z \div SECOND + k
  OBVIOUS
<1> HIDE DEF x, y, z
<1>4. /\ carry \in {0, 1}
      /\ x % SECOND = 0 => carry = 0
      /\ y % SECOND = 0 /\ x % SECOND # 0 => carry = 1
  BY <1>1, <1>3, Carry
<1>5. /\ y \div SECOND \in Int /\ x \div SECOND \in Int
      /\ z \div SECOND \in Int /\ z \div SECOND = (y - x) \div SECOND
  BY <1>1, <1>3, DivInt
<1>6. TicksOf(d) - TicksOf(c) = z \div SECOND + (carry + short(c) - short(d))
  BY <1>2, <1>5
<1>7. carry + short(c) - short(d) \in -1..1
  BY <1>2, <1>4
<1> QED
  BY <1>6, <1>7
=============================================================================
