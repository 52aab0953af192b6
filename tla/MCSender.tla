------------------------------ MODULE MCSender ------------------------------
(* EndToEnd for TLC: the clock and sizes of MCRtpSession, and a file of    *)
(* frames with several units, with none, and of records main skips.        *)
EXTENDS EndToEnd

SentFrames == { [pts |-> 1, nalus |-> <<1, 5>>],
                [pts |-> 3, nalus |-> <<0, 6>>],
                [pts |-> 7, nalus |-> <<>>] }

FileRecords ==
    {[chn |-> 0, len |-> 1, type |-> "I", frame |-> f] : f \in SentFrames}
    \cup {[chn |-> c, len |-> n, type |-> t, frame |-> [pts |-> 7, nalus |-> <<>>]] :
             <<c, n, t>> \in {<<-1, 1, "P">>, <<1, 1, "P">>, <<0, 0, "I">>, <<0, 1, "other">>}}
=============================================================================
