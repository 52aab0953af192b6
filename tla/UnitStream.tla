----------------------------- MODULE UnitStream -----------------------------
(***************************************************************************)
(* What a sending session promises its receivers, without packets, locks,  *)
(* counters or clocks.  At most one connection is open at a time.  A frame *)
(* is a sequence of NAL units; frames are sent one after the other, unit   *)
(* by unit, and the receiver of the open connection gets each unit whole   *)
(* and in order.  A connection may close at any moment, in the middle of a *)
(* frame too; the units of that frame that are left are lost, nothing else *)
(* is, and a new connection begins with a new frame.                       *)
(***************************************************************************)
EXTENDS Sequences

CONSTANTS Conns,   \* the connections
          NoConn,  \* none is open; not one of Conns
          Unit     \* the NAL units

VARIABLES open,     \* the open connection, or NoConn
          sending,  \* the units of the current frame still to be sent
          got       \* the units each connection's receiver has got

streamVars == <<open, sending, got>>

StreamInit == open = NoConn /\ sending = <<>> /\ got = [c \in Conns |-> <<>>]

Open(c) ==
    /\ open = NoConn /\ got[c] = <<>> /\ sending = <<>>
    /\ open' = c
    /\ UNCHANGED <<sending, got>>

Close ==
    /\ open # NoConn
    /\ open' = NoConn
    /\ UNCHANGED <<sending, got>>

BeginFrame ==
    /\ sending = <<>>
    /\ sending' \in Seq(Unit)
    /\ UNCHANGED <<open, got>>

(* The next unit of the frame arrives, or is lost for want of a connection. *)
SendUnit ==
    /\ sending # <<>>
    /\ got' = [c \in Conns |-> IF c = open THEN Append(got[c], Head(sending))
                                           ELSE got[c]]
    /\ sending' = Tail(sending)
    /\ UNCHANGED open

StreamNext == (\E c \in Conns : Open(c)) \/ Close \/ BeginFrame \/ SendUnit

StreamSpec == StreamInit /\ [][StreamNext]_streamVars
=============================================================================
