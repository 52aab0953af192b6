-------------------------- MODULE RtpTimeline_proofs --------------------------
(***************************************************************************)
(* Proofs about the clock of a session, for any rate, width of the         *)
(* timestamps, build and frames.  The invariant ties the four variables:   *)
(* the timestamp is the one of the last pts, counted from the base; a      *)
(* negative base is always the last pts itself, and any other is the pts   *)
(* of the first frame that had one.                                        *)
(***************************************************************************)
EXTENDS RtpTimeline, RtpClock_proofs

ClockInv ==
    /\ basePts \in Int /\ pts \in Int /\ ts \in 0..(TsMod - 1)
    /\ ts = Timestamp(pts - basePts)
    /\ basePts < 0 => pts = basePts /\ first = None
    /\ basePts >= 0 => first = basePts

LEMMA NewBaseInt ==
    ASSUME NEW base \in Int, NEW p \in Int
    PROVE  /\ NewBase(base, p) \in Int
           /\ base >= 0 => NewBase(base, p) = base
           /\ base < 0 => NewBase(base, p) = p
BY DEF NewBase

LEMMA InitClockInv == ClockInit => ClockInv
<1> SUFFICES ASSUME ClockInit
             PROVE  ClockInv
  OBVIOUS
<1>1. /\ pts \in Pts /\ basePts = NewBase(-1, pts) /\ ts = Timestamp(pts - basePts)
      /\ first = IF pts >= 0 THEN pts ELSE None
  BY DEF ClockInit
<1>2. pts \in Int /\ basePts = pts
  BY <1>1, PtsAssumption, NewBaseInt
<1>3. Timestamp(pts - basePts) \in 0..(TsMod - 1)
  BY <1>2, TimestampType
<1> QED
  BY <1>1, <1>2, <1>3 DEF ClockInv

(* A base that is not negative stays, a negative one gives way to the pts  *)
(* of the frame.                                                           *)
LEMMA FrameClock ==
    ASSUME ClockInv, NEW p \in Pts, Frame(p)
    PROVE  ClockInv'
<1>1. /\ pts' = p /\ basePts' = NewBase(basePts, p) /\ ts' = Timestamp(p - basePts')
      /\ first' = IF first = None /\ p >= 0 THEN p ELSE first
  BY DEF Frame
<1>2. p \in Int /\ basePts \in Int /\ basePts' \in Int
  BY <1>1, PtsAssumption, NewBaseInt DEF ClockInv
<1>3. ts' \in 0..(TsMod - 1)
  BY <1>1, <1>2, TimestampType
<1>4. (ts = Timestamp(pts - basePts))'
  <2>1. ts' = Timestamp(pts' - basePts')
    BY <1>1
  <2> QED
    BY <2>1 DEF Timestamp, Ticks, TicksOf, ToUint32
<1>5. CASE basePts >= 0
  <2>1. basePts' = basePts /\ first = basePts /\ first # None
    BY <1>1, <1>2, <1>5, NewBaseInt DEF ClockInv, None
  <2>2. first' = basePts'
    BY <1>1, <2>1
  <2> QED
    BY <1>1, <1>2, <1>3, <1>4, <1>5, <2>1, <2>2 DEF ClockInv
<1>6. CASE basePts < 0
  <2>1. basePts' = p /\ first = None
    BY <1>1, <1>2, <1>6, NewBaseInt DEF ClockInv
  <2>2. first' = IF p >= 0 THEN p ELSE None
    BY <1>1, <2>1
  <2> QED
    BY <1>1, <1>2, <1>3, <1>4, <2>1, <2>2 DEF ClockInv
<1> QED
  BY <1>2, <1>5, <1>6

LEMMA NextClockInv == ClockInv /\ [ClockNext]_clock => ClockInv'
<1>1. ClockInv /\ ClockNext => ClockInv'
  BY FrameClock DEF ClockNext
<1>2. ClockInv /\ UNCHANGED clock => ClockInv'
  BY DEF clock, ClockInv, Timestamp, Ticks, TicksOf, ToUint32
<1> QED
  BY <1>1, <1>2

THEOREM ClockInvariance == ClockSpec => []ClockInv
BY InitClockInv, NextClockInv, PTL DEF ClockSpec

LEMMA TimestampZero == Timestamp(0) = 0
<1>1. TicksOf(0) = 0
  BY ClockAssumption DEF TicksOf
<1>2. Ticks(0) = 0
  BY <1>1 DEF Ticks
<1>3. 0 % TsMod = 0
  BY ClockAssumption
<1> QED
  BY <1>2, <1>3, ClockAssumption DEF Timestamp, ToUint32

(* Frames before zero are all timed at zero, and from the first frame with *)
(* a pts that is not negative on every frame is timed from that one: the   *)
(* base is replaced while it is negative and never after (line 106).       *)
THEOREM FromFirst == ClockSpec => []CountsFromFirst
<1>1. ClockInv => CountsFromFirst
  <2> SUFFICES ASSUME ClockInv
               PROVE  CountsFromFirst
    OBVIOUS
  <2>1. CASE basePts < 0
    <3>1. pts - basePts = 0 /\ first = None
      BY <2>1 DEF ClockInv
    <3> QED
      BY <3>1, TimestampZero DEF ClockInv, CountsFromFirst
  <2>2. CASE basePts >= 0
    BY <2>2 DEF ClockInv, CountsFromFirst, None
  <2> QED
    BY <2>1, <2>2 DEF ClockInv
<1> QED
  BY ClockInvariance, <1>1, PTL

LEMMA FromBase ==
    ASSUME NEW a \in Int, NEW b \in Int, NEW base \in Int, a <= b
    PROVE  a - base \in Int /\ b - base \in Int /\ a - base <= b - base
OBVIOUS

(* On the ARM build timestamps never go back unless the pts does.          *)
THEOREM Monotone == ClockSpec => NeverBack
<1>1. ASSUME ClockInv, ClockInv', [ClockNext]_clock, Saturating, pts <= pts'
      PROVE  ts <= ts'
  <2>0. /\ basePts \in Int /\ pts \in Int /\ ts \in 0..(TsMod - 1)
        /\ basePts' \in Int /\ pts' \in Int /\ ts' \in 0..(TsMod - 1)
        /\ ts = Timestamp(pts - basePts) /\ (basePts < 0 => pts = basePts)
        /\ pts <= pts'
    BY <1>1 DEF ClockInv
  <2>1. CASE UNCHANGED clock
    BY <2>0, <2>1, ClockAssumption DEF clock
  <2>2. ASSUME NEW p \in Pts, Frame(p)
        PROVE  ts <= ts'
    <3>1. pts' = p /\ basePts' = NewBase(basePts, p) /\ ts' = Timestamp(p - basePts')
      BY <2>2 DEF Frame
    <3>2. CASE basePts < 0
      <4>1. pts - basePts = 0
        BY <2>0, <3>2
      <4>2. ts = 0
        BY <2>0, <4>1, TimestampZero
      <4> QED
        BY <2>0, <4>2, ClockAssumption
    <3>3. CASE basePts >= 0
      <4>1. basePts' = basePts
        BY <2>0, <3>1, <3>3, NewBaseInt
      <4>0. basePts \in Int /\ pts \in Int /\ pts' \in Int /\ pts <= pts'
        BY <2>0
      <4>2. /\ pts - basePts \in Int /\ pts' - basePts \in Int
            /\ pts - basePts <= pts' - basePts
        BY <4>0, FromBase
      <4>3. Timestamp(pts - basePts) <= Timestamp(pts' - basePts)
        BY <1>1, <4>2, TimestampMonotone
      <4> QED
        BY <2>0, <3>1, <4>1, <4>3
    <3> QED
      BY <2>0, <3>2, <3>3
  <2> QED
    BY <1>1, <2>1, <2>2 DEF ClockNext
<1>2. ClockInv /\ ClockInv' /\ [ClockNext]_clock
          => [Saturating /\ pts <= pts' => ts <= ts']_clock
  BY <1>1
<1> QED
  BY ClockInvariance, <1>2, PTL DEF ClockSpec, NeverBack
-----------------------------------------------------------------------------
(* On a host build timestamps are the ticks since the base, modulo 2^32.   *)
LEMMA HostTimestamp ==
    ASSUME ~Saturating, NEW d \in Int
    PROVE  Timestamp(d) = Ticks(d) % TsMod /\ Ticks(d) \in Int
<1>1. d >= 0 => TicksOf(d) \in Int
  BY TicksOfSign
<1>2. d < 0 => TicksOf(-d) \in Int
  BY TicksOfSign
<1> QED
  BY <1>1, <1>2 DEF Timestamp, Ticks, ToUint32

(* Between two frames in the order of their pts: on one side of the base   *)
(* what is truncated of one may be kept of the other, ...                  *)
LEMMA TicksOneSide ==
    ASSUME NEW c \in Int, NEW d \in Int, c <= d, c >= 0 \/ d <= 0
    PROVE  \E k \in -1..1 :
               Ticks(d) - Ticks(c) = ((d - c) * CLOCK_RATE) \div SECOND + k
<1>1. CASE c >= 0
  <2>1. c \in Nat /\ d \in Nat
    BY <1>1
  <2> QED
    BY <2>1, TicksDifference DEF Ticks
<1>2. CASE d <= 0
  <2>1. -c \in Nat /\ -d \in Nat /\ (-c) - (-d) = d - c
    BY <1>2
  <2>2. PICK k \in -1..1 :
            TicksOf(-c) - TicksOf(-d) = ((d - c) * CLOCK_RATE) \div SECOND + k
    BY <2>1, TicksDifference
  <2>3. Ticks(c) = -TicksOf(-c) /\ Ticks(d) = -TicksOf(-d)
    <3>1. TicksOf(0) = 0
      BY ClockAssumption DEF TicksOf
    <3> QED
      BY <1>2, <3>1 DEF Ticks
  <2>4. TicksOf(-c) \in Int /\ TicksOf(-d) \in Int
    BY <2>1, TicksOfSign
  <2> QED
    BY <2>2, <2>3, <2>4
<1> QED
  BY <1>1, <1>2

(* ... and on both sides of it what is truncated of either is lost.        *)
LEMMA TicksAcross ==
    ASSUME NEW c \in Int, NEW d \in Int, c < 0, 0 < d
    PROVE  \E k \in -2..2 :
               Ticks(d) - Ticks(c) = ((d - c) * CLOCK_RATE) \div SECOND + k
<1> DEFINE x == (-c) * CLOCK_RATE
           y == d * CLOCK_RATE
           z == (d - c) * CLOCK_RATE
           short(e) == IF e \in FpShort THEN 1 ELSE 0
           carry == (z \div SECOND) - (x \div SECOND) - ((z - x) \div SECOND)
<1>1. x \in Int /\ y \in Int /\ z \in Int /\ z - x = y
  BY ClockAssumption
<1>2. /\ Ticks(c) = -(x \div SECOND - short(-c))
      /\ Ticks(d) = y \div SECOND - short(d)
      /\ -c \in FpShort => x % SECOND = 0
  BY ClockAssumption DEF Ticks, TicksOf
<1>3. SECOND \in Nat \ {0}
  BY ClockAssumption
<1> SUFFICES \E k \in -2..2 : Ticks(d) - Ticks(c) = z \div SECOND + k
  OBVIOUS
<1> HIDE DEF x, y, z
<1>4. carry \in {0, 1} /\ (x % SECOND = 0 => carry = 0)
  BY <1>1, <1>3, Carry
<1>5. /\ x \div SECOND \in Int /\ y \div SECOND \in Int /\ z \div SECOND \in Int
      /\ (z - x) \div SECOND = y \div SECOND
  BY <1>1, <1>3, DivInt
<1>6. Ticks(d) - Ticks(c) = z \div SECOND - (carry + short(-c) + short(d))
  BY <1>2, <1>5
<1>7. -(carry + short(-c) + short(d)) \in -2..2
  BY <1>2, <1>4
<1>8. z \div SECOND - (carry + short(-c) + short(d))
          = z \div SECOND + (-(carry + short(-c) + short(d)))
  BY <1>4, <1>5
<1> QED
  BY <1>6, <1>7, <1>8

(* Frames a and b in the order of their pts.                               *)
LEMMA Forward ==
    ASSUME ~Saturating, basePts \in Int, NEW a \in Int, NEW b \in Int, a <= b
    PROVE  \E k \in Slack(a, b) :
               Ticks(b - basePts) - Ticks(a - basePts) = Elapsed(a, b) + k
<1> DEFINE c == a - basePts
           d == b - basePts
<1>1. c \in Int /\ d \in Int /\ c <= d /\ d - c = b - a
  OBVIOUS
<1>2. Elapsed(a, b) = ((d - c) * CLOCK_RATE) \div SECOND
  BY <1>1 DEF Elapsed
<1>3. CASE Across(a, b)
  <2>1. c < 0 /\ 0 < d
    BY <1>3 DEF Across
  <2>2. Slack(a, b) = -2..2
    BY <1>3 DEF Slack
  <2> HIDE DEF c, d
  <2> QED
    BY <1>1, <1>2, <2>1, <2>2, TicksAcross DEF c, d
<1>4. CASE ~Across(a, b)
  <2>1. c >= 0 \/ d <= 0
    BY <1>4 DEF Across
  <2>2. Slack(a, b) = -1..1
    BY <1>4 DEF Slack
  <2> QED
    BY <1>1, <1>2, <2>1, <2>2, TicksOneSide
<1> QED
  BY <1>3, <1>4

(* And in any order: the way back is the way there, reversed.              *)
LEMMA HostDifference ==
    ASSUME ~Saturating, basePts \in Int, NEW a \in Int, NEW b \in Int
    PROVE  \E k \in Slack(a, b) :
               (Timestamp(b - basePts) - Timestamp(a - basePts)) % TsMod
                   = (Elapsed(a, b) + k) % TsMod
<1> DEFINE x == Ticks(a - basePts)
           y == Ticks(b - basePts)
<1>1. /\ Timestamp(a - basePts) = x % TsMod /\ x \in Int
      /\ Timestamp(b - basePts) = y % TsMod /\ y \in Int
  BY HostTimestamp
<1> HIDE DEF x, y
<1>2. (Timestamp(b - basePts) - Timestamp(a - basePts)) % TsMod = (y - x) % TsMod
  <2>1. ((y % TsMod) - (x % TsMod)) % TsMod = (y - x) % TsMod
    BY <1>1, ModMinus, ClockAssumption
  <2> QED
    BY <1>1, <2>1
<1>3. \E k \in Slack(a, b) : y - x = Elapsed(a, b) + k
  <2>1. CASE a <= b
    BY <2>1, Forward DEF x, y
  <2>2. CASE b < a
    <3>1. PICK k \in Slack(b, a) : x - y = Elapsed(b, a) + k
      BY <2>2, Forward DEF x, y
    <3>2. Slack(a, b) = Slack(b, a) /\ k \in Int /\ -k \in Slack(b, a)
      BY <3>1 DEF Slack, Across
    <3>3. Elapsed(a, b) = -Elapsed(b, a) /\ Elapsed(b, a) \in Int
      <4>1. (a - b) * CLOCK_RATE \in Int
        BY ClockAssumption
      <4>2. ((a - b) * CLOCK_RATE) \div SECOND \in Int
        BY <4>1, DivInt, ClockAssumption
      <4> QED
        BY <2>2, <4>2 DEF Elapsed
    <3>4. y - x = Elapsed(a, b) + (-k)
      BY <1>1, <3>1, <3>2, <3>3
    <3> QED
      BY <3>2, <3>4
  <2> QED
    BY <2>1, <2>2
<1> QED
  BY <1>2, <1>3

(* On a host build the difference of two successive timestamps is, modulo  *)
(* 2^32, the time between the frames, give or take a tick, or two between  *)
(* a frame before the base and one after it: roundings and lost ticks do   *)
(* not add up to more, and a wrap does not show (line 109).                *)
THEOREM Tracks == ClockSpec => TracksElapsed
<1>1. ASSUME ClockInv, [ClockNext]_clock, ~Saturating, basePts >= 0, ~UNCHANGED clock
      PROVE  \E k \in Slack(pts, pts') :
                 (ts' - ts) % TsMod = (Elapsed(pts, pts') + k) % TsMod
  <2>1. PICK p \in Pts : Frame(p)
    BY <1>1 DEF ClockNext
  <2>2. /\ basePts \in Int /\ pts \in Int /\ p \in Int /\ pts' = p
        /\ ts = Timestamp(pts - basePts)
    BY <1>1, <2>1, PtsAssumption DEF ClockInv, Frame
  <2>3. basePts' = basePts /\ ts' = Timestamp(p - basePts)
    BY <1>1, <2>1, <2>2, NewBaseInt DEF Frame
  <2>4. \E k \in Slack(pts, p) :
            (Timestamp(p - basePts) - Timestamp(pts - basePts)) % TsMod
                = (Elapsed(pts, p) + k) % TsMod
    BY <1>1, <2>2, HostDifference
  <2> QED
    BY <2>2, <2>3, <2>4
<1>2. ClockInv /\ [ClockNext]_clock
          => [~Saturating /\ basePts >= 0 =>
                 \E k \in Slack(pts, pts') :
                     (ts' - ts) % TsMod = (Elapsed(pts, pts') + k) % TsMod]_clock
  BY <1>1
<1> QED
  BY ClockInvariance, <1>2, PTL DEF ClockSpec, TracksElapsed
=============================================================================
