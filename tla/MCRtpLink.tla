----------------------------- MODULE MCRtpLink ------------------------------
(* RtpLink for TLC, with the frames of MCRtpSession's safety runs.         *)
EXTENDS RtpLink

LinkFrames == { [pts |-> 1, nalus |-> <<1, 5>>],
                [pts |-> 3, nalus |-> <<0, 6>>],
                [pts |-> 7, nalus |-> <<>>] }
=============================================================================
