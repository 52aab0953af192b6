---------------------------- MODULE MCRtpTimeline ----------------------------
(* RtpTimeline for TLC: nine ticks to 25 pts units, timestamps that reach  *)
(* their top twice over the range of pts.                                  *)
EXTENDS RtpTimeline

PtsRange == -3..96
=============================================================================
