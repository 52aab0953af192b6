--------------------------- MODULE MCFramedSource ---------------------------
(* FramedSource for TLC: producers are interchangeable in the safety runs. *)
EXTENDS FramedSource, TLC

ProducerSymmetry == Permutations(Producers)
=============================================================================
