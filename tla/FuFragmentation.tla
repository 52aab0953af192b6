-------------------------- MODULE FuFragmentation ---------------------------
(***************************************************************************)
(* How RTPSendingSession::packetizeAndSendNalu cuts a NAL unit into RTP    *)
(* payloads.  A unit of `size' bytes, its one-byte NAL header included, is *)
(* sent whole when it fits in RTP_MTU bytes; a longer one is cut into FU-A *)
(* fragments, each RTP payload being a two-byte FU prefix and a run of the *)
(* unit's bytes that starts at `pos'.  The bytes themselves are abstracted *)
(* to the positions they come from.                                        *)
(***************************************************************************)
EXTENDS Integers

CONSTANT RTP_MTU  \* largest RTP payload, 1400 in the code

(* Two bytes of an FU payload are its prefix; a fragment carries at least  *)
(* one byte of the unit.                                                   *)
ASSUME MtuAssumption == RTP_MTU \in Nat /\ RTP_MTU >= 3

FuPrefix == 2

FitsOnePacket(size) == size <= RTP_MTU

PayloadLenWide(size, pos) ==               \* mutant: forgets the FU prefix
    IF size - pos < RTP_MTU THEN size - pos ELSE RTP_MTU
PayloadLen(size, pos) ==
    LET remaining == size - pos
        room      == RTP_MTU - FuPrefix
    IN  IF remaining < room THEN remaining ELSE room

(* The S and E bits of the FU header. *)
FuHeaderShort(size, pos) ==      \* mutant: a full last fragment has no E bit
    IF pos = 1 THEN "start"
    ELSE IF size - pos < RTP_MTU - FuPrefix THEN "end" ELSE "middle"
FuHeader(size, pos) ==
    IF pos = 1 THEN "start"
    ELSE IF size - pos - PayloadLen(size, pos) = 0 THEN "end" ELSE "middle"

(* The marker bit of the RTP header: every unit sent whole, and the last   *)
(* fragment of every unit sent in fragments.                               *)
Marker(fu) == fu \in {"whole", "end"}
=============================================================================
