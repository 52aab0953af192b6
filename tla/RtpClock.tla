------------------------------ MODULE RtpClock ------------------------------
(***************************************************************************)
(* The conversion of a presentation time to an RTP timestamp, the same     *)
(* expression on lines 109 and 212 of src/RTPSendingSession.cpp:           *)
(*     static_cast<uint32_t>((pts - basePts_) / 1000000.0 * 90000)         *)
(* A double is computed, truncated toward zero and converted to 32 bits.   *)
(* Converting a negative or too large double is undefined in C++; the two  *)
(* builds build.sh can make give it a meaning: the ARM toolchain's         *)
(* vcvt.u32.f64 saturates, an x86-64 host truncates to 64 bits and keeps   *)
(* the low 32.                                                             *)
(***************************************************************************)
EXTENDS Integers

CONSTANTS SECOND,      \* pts units per second, 1000000 in the code
          CLOCK_RATE,  \* RTP clock units per second, 90000 in the code
          TsMod,       \* 2^32
          Saturating,  \* TRUE for the ARM build, FALSE for a host build
          FpShort      \* the elapsed times whose exact tick count is an integer
                       \* and whose double product falls just short of it

ASSUME ClockAssumption ==
    /\ SECOND \in Nat \ {0}
    /\ CLOCK_RATE \in Nat \ {0}
    /\ TsMod \in Nat \ {0}
    /\ Saturating \in BOOLEAN
    /\ \A d \in FpShort : d \in Nat \ {0} /\ (d * CLOCK_RATE) % SECOND = 0

(* The pts timestamps count from, once a frame of pts comes: -1 is `none   *)
(* yet', but any negative base is replaced.                                *)
NewBaseEarliest(base, pts) ==            \* mutant: the earliest pts so far
    IF base < 0 \/ pts < base THEN pts ELSE base
NewBaseLatest(base, pts) == pts          \* mutant: rebased at every frame
NewBaseOnce(base, pts) == IF base = -1 THEN pts ELSE base    \* mutant: = for <
NewBase(base, pts) == IF base < 0 THEN pts ELSE base

(* Ticks of an elapsed time, truncated toward zero. *)
TicksOfWhole(d) == (d \div SECOND) * CLOCK_RATE   \* mutant: integer division
TicksOf(d) == (d * CLOCK_RATE) \div SECOND - (IF d \in FpShort THEN 1 ELSE 0)
Ticks(delta) == IF delta >= 0 THEN TicksOf(delta) ELSE -TicksOf(-delta)

ToUint32Wraps(x) == x % TsMod         \* mutant: both builds cast through int64_t
ToUint32(x) ==
    IF Saturating
    THEN IF x < 0 THEN 0 ELSE IF x >= TsMod THEN TsMod - 1 ELSE x
    ELSE x % TsMod

Timestamp(delta) == ToUint32(Ticks(delta))
=============================================================================
