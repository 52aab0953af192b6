------------------------------- MODULE AnnexB -------------------------------
(***************************************************************************)
(* RTPSendingSession::parseAndSendFrame: the scan of a frame for start     *)
(* codes, and the NAL units it hands to packetizeAndSendNalu.  Bytes are   *)
(* at positions 0..len-1 as in the code; the scan tells 0, 1 and every     *)
(* other value apart.  Its two nested loops are one step per turn.         *)
(*                                                                         *)
(* RtpSession takes the sizes of `units' as the nalus of a frame.          *)
(***************************************************************************)
EXTENDS Integers, Sequences

CONSTANTS Byte,   \* the values of a byte
          MaxLen  \* bound on the length of a frame

ASSUME ByteAssumption == {0, 1} \subseteq Byte
ASSUME LengthAssumption == MaxLen \in Nat

VARIABLES len, data,  \* the frame: parameters of parseAndSendFrame
          pos,        \* the outer loop is at this byte
          i,          \* the inner loop is at this byte
          loop,       \* "outer", "inner" or "done"
          units       \* the units sent so far: first byte and size

vars == <<len, data, pos, i, loop, units>>

StartCode(p) == /\ data[p] = 0 /\ data[p + 1] = 0
                /\ data[p + 2] = 0 /\ data[p + 3] = 1

(* Both loops stop while four bytes and one more are left. *)
MoreAtEarly(p) == p + 5 < len                 \* mutant: stops a byte early
MoreAt(p) == p + 4 < len

Init == /\ len \in 0..MaxLen
        /\ data \in [0..(len - 1) -> Byte]
        /\ pos = 0
        /\ i = 0
        /\ loop = "outer"
        /\ units = <<>>

ForwardStuck == pos                           \* mutant: pos is not advanced
Forward == pos + 1

SkipByte ==
    /\ loop = "outer"
    /\ MoreAt(pos)
    /\ ~StartCode(pos)
    /\ pos' = Forward
    /\ UNCHANGED <<len, data, i, loop, units>>

UnitBegins ==
    /\ loop = "outer"
    /\ MoreAt(pos)
    /\ StartCode(pos)
    /\ i' = pos + 4
    /\ loop' = "inner"
    /\ UNCHANGED <<len, data, pos, units>>

KeepLooking ==
    /\ loop = "inner"
    /\ MoreAt(i)
    /\ ~StartCode(i)
    /\ i' = i + 1
    /\ UNCHANGED <<len, data, pos, loop, units>>

ResumeAfter(end) == end + 1           \* mutant: goes on past its first byte
ResumeInside(end) == pos + 4          \* mutant: looks at the unit once more
Resume(end) == end                    \* the outer loop goes on at the next code

(* packetizeAndSendNalu(data + pos + 4, end - (pos + 4), ...) *)
SendUnit(end) ==
    /\ units' = Append(units, [first |-> pos + 4, size |-> end - (pos + 4)])
    /\ pos' = Resume(end)
    /\ loop' = "outer"
    /\ UNCHANGED <<len, data, i>>

UnitEnds ==
    /\ loop = "inner"
    /\ MoreAt(i)
    /\ StartCode(i)
    /\ SendUnit(i)

LastUnit ==
    /\ loop = "inner"
    /\ ~MoreAt(i)
    /\ SendUnit(len)

Return ==
    /\ loop = "outer"
    /\ ~MoreAt(pos)
    /\ loop' = "done"
    /\ UNCHANGED <<len, data, pos, i, units>>

Next == \/ SkipByte \/ UnitBegins \/ KeepLooking \/ UnitEnds \/ LastUnit
        \/ Return

Spec == Init /\ [][Next]_vars

(* parseAndSendFrame runs in one thread and waits for nothing.             *)
FairSpec == Spec /\ WF_vars(Next)
-----------------------------------------------------------------------------
TypeOK ==
    /\ len \in Nat
    /\ data \in [0..(len - 1) -> Byte]
    /\ pos \in 0..len
    /\ i \in 0..len
    /\ loop \in {"outer", "inner", "done"}
    /\ units \in Seq([first : 0..len, size : 0..len])

(* The positions whose four bytes are a start code, by the frame alone,    *)
(* and those of them that something follows.                               *)
Codes == {p \in 0..(len - 4) : StartCode(p)}
Openers == {p \in Codes : p + 4 < len}

End(u) == u.first + u.size

(* The units sent are cut out of the frame at its start codes and nowhere  *)
(* else: each is preceded by one, contains none that has a byte after it,  *)
(* ends where the next one's start code begins, and has its first byte,    *)
(* which packetizeAndSendNalu reads even of an empty unit, in the frame.   *)
UnitsCutAtCodes ==
    /\ \A k \in 1..Len(units) :
        /\ units[k].first - 4 \in Openers
        /\ units[k].first < len
        /\ \A p \in Openers : ~(units[k].first <= p /\ p < End(units[k]))
    /\ \A k \in 1..(Len(units) - 1) : units[k + 1].first = End(units[k]) + 4

(* When the scan returns nothing has been left out: every start code that  *)
(* a byte follows has opened a unit, the last unit ends with the frame and *)
(* is not empty, and a frame without such a code has no unit.              *)
NothingLeftOut ==
    loop = "done" =>
        /\ {units[k].first - 4 : k \in 1..Len(units)} = Openers
        /\ units # <<>> => /\ End(units[Len(units)]) = len
                           /\ units[Len(units)].size > 0

(* The scan of any frame returns.                                          *)
ScanReturns == <>(loop = "done")

(* Every turn of either loop leaves less to do, so that the scan of a      *)
(* frame takes at most one turn per byte and one more: the outer loop goes *)
(* on where the inner one stopped, and neither gives a position back (the  *)
(* code the inner loop stops at is seen by the outer one again).           *)
ToDo == CASE loop = "outer" -> len - pos + 1
          [] loop = "inner" -> len - i + 2
          [] loop = "done"  -> 0

ScanAdvances == [][ToDo' \in 0..(ToDo - 1)]_vars

(* RTPSendingSession.hh:38 says of a frame that it is "one or more NALUs   *)
(* with start codes".  Those of an H.264 byte stream may have three bytes  *)
(* as well as four, and neither occurs inside a NALU: no unit sent to the  *)
(* server contains one.                                                    *)
NoCodeInsideUnit ==
    \A k \in 1..Len(units) :
        \A p \in units[k].first..(End(units[k]) - 3) :
            ~(data[p] = 0 /\ data[p + 1] = 0 /\ data[p + 2] = 1)
=============================================================================
