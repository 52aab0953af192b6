----------------------------- MODULE RtpTimeline -----------------------------
(***************************************************************************)
(* The clock of a session alone: the timestamps sendFrame gives to frames  *)
(* of any pts, negative ones and ones beyond the range of 32 bits of ticks *)
(* included (RtpSession's frames have non-negative ones).  The state is    *)
(* basePts_, and the last frame's pts and timestamp; `first' is history.   *)
(***************************************************************************)
EXTENDS RtpClock

CONSTANT Pts  \* the pts a frame may have

ASSUME PtsAssumption == Pts \subseteq Int

None == -1

VARIABLES basePts, pts, ts,
          first  \* history: the pts of the first frame that had one >= 0, or None

clock == <<basePts, pts, ts, first>>

(* The first frame, of a session that has no base yet. *)
ClockInit ==
    /\ pts \in Pts
    /\ basePts = NewBase(-1, pts)
    /\ ts = Timestamp(pts - basePts)
    /\ first = IF pts >= 0 THEN pts ELSE None

Frame(p) ==
    /\ pts' = p
    /\ basePts' = NewBase(basePts, p)
    /\ ts' = Timestamp(p - basePts')
    /\ first' = IF first = None /\ p >= 0 THEN p ELSE first

ClockNext == \E p \in Pts : Frame(p)

ClockSpec == ClockInit /\ [][ClockNext]_clock
-----------------------------------------------------------------------------
(* While all pts have been negative the timestamps are zero.  From the     *)
(* first frame whose pts is not negative on, and for good, they are the    *)
(* time since that frame, whatever pts came before it and come after it:   *)
(* no time from before zero leaks into them, and the clock is never set    *)
(* anew (the base of line 106, negative for `none yet').                   *)
CountsFromFirst ==
    ts = IF first = None THEN 0 ELSE Timestamp(pts - first)

(* On the ARM build the timestamp never goes back from a frame to the next *)
(* unless the pts does, wherever the conversion loses a tick, for negative *)
(* pts, while the base is replaced, and past the top, where it stays.      *)
NeverBack == [][Saturating /\ pts <= pts' => ts <= ts']_clock

(* The time from one pts to another in whole ticks, truncated toward zero. *)
Elapsed(from, to) ==
    IF from <= to THEN ((to - from) * CLOCK_RATE) \div SECOND
                  ELSE -(((from - to) * CLOCK_RATE) \div SECOND)

(* On a host build, once a frame has set the base, the timestamps of two   *)
(* successive frames differ, modulo 2^32, by the ticks between them, give  *)
(* or take one: what a receiver computes from them is right for ever, also *)
(* when they wrap.  Between a frame before the base and one after it it is *)
(* give or take two: both times are truncated, toward the base, and both   *)
(* may lose a tick.                                                        *)
Across(from, to) ==
    \/ from < basePts /\ basePts < to
    \/ to < basePts /\ basePts < from

Slack(from, to) == IF Across(from, to) THEN -2..2 ELSE -1..1

TracksElapsed ==
    [][~Saturating /\ basePts >= 0 =>
           \E k \in Slack(pts, pts') :
               (ts' - ts) % TsMod = (Elapsed(pts, pts') + k) % TsMod]_clock
=============================================================================
