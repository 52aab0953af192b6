---------------------------- MODULE MCRtpSession ----------------------------
(* RtpSession for TLC.  RTP_MTU is 4, so a fragment carries two bytes of   *)
(* its unit: a unit of 4 bytes is the longest sent whole, one of 5 makes   *)
(* two full fragments, one of 6 a start, a middle and a one-byte end.      *)
(* A second is two pts units and three clock ticks.                        *)
EXTENDS RtpSession, TLC

ThreadSymmetry == Permutations(Threads)

(* Frames of units sent whole and in two or three fragments, of an empty   *)
(* unit, and of no unit at all.  They may be pushed in any order, so a pts *)
(* may also be earlier than the first one.                                 *)
MixedFrames == { [pts |-> 1, nalus |-> <<1, 5>>],
                 [pts |-> 3, nalus |-> <<0, 6>>],
                 [pts |-> 7, nalus |-> <<>>] }

(* Two frames for the runs about one send: the first of them due a report. *)
ShortFrames == { [pts |-> 2, nalus |-> <<4, 6>>], [pts |-> 0, nalus |-> <<1>>] }
=============================================================================
