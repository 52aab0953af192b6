-------------------------- MODULE DropOldestBuffer --------------------------
(***************************************************************************)
(* What include/CustomFramedSource.hh promises of the class: a buffer that *)
(* accepts frames, hands them to its consumer oldest first, and drops the  *)
(* oldest pending frame when a new one arrives and there is no room.       *)
(* Frames are numbered in the order they are accepted; no queue, no lock   *)
(* and no callback appear here.                                            *)
(***************************************************************************)
EXTENDS Integers, FiniteSets, Sequences

CONSTANTS Capacity,  \* how many frames may be pending
          MaxPush    \* bound on the frames ever pushed

VARIABLES accepted,  \* how many frames have been pushed
          pending,   \* the frames accepted and neither delivered nor dropped
          output,    \* the frames delivered, in the order of delivery
          lost       \* the frames dropped

vars == <<accepted, pending, output, lost>>

Oldest(f) == /\ f \in pending
             /\ \A g \in pending : f <= g

Init == /\ accepted = 0
        /\ pending = {}
        /\ output = <<>>
        /\ lost = {}

PushWithRoom ==
    /\ accepted < MaxPush
    /\ Cardinality(pending) < Capacity
    /\ accepted' = accepted + 1
    /\ pending' = pending \cup {accepted + 1}
    /\ UNCHANGED <<output, lost>>

PushDroppingOldest ==
    /\ accepted < MaxPush
    /\ Cardinality(pending) >= Capacity
    /\ \E f \in pending : /\ Oldest(f)
                          /\ pending' = (pending \ {f}) \cup {accepted + 1}
                          /\ lost' = lost \cup {f}
    /\ accepted' = accepted + 1
    /\ UNCHANGED output

Deliver ==
    \E f \in pending : /\ Oldest(f)
                       /\ pending' = pending \ {f}
                       /\ output' = Append(output, f)
                       /\ UNCHANGED <<accepted, lost>>

Next == PushWithRoom \/ PushDroppingOldest \/ Deliver

Spec == Init /\ [][Next]_vars
=============================================================================
