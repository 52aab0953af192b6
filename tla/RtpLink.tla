------------------------------ MODULE RtpLink -------------------------------
(***************************************************************************)
(* RtpSession with a receiver at the other end of every connection: the    *)
(* depacketizer of RFC 6184 a media server has, which puts NAL units       *)
(* together again from the S and E bits of the packets it is given.  It is *)
(* external to the code.  It reads, in order, everything send() accepted   *)
(* on its connection; rx is what it has made of it.                        *)
(*                                                                         *)
(* Bytes being positions, a unit it completes is known by the frame and    *)
(* the place its bytes come from and by their number; bytes that do not    *)
(* make a contiguous run of one unit are Garbage.                          *)
(***************************************************************************)
EXTENDS RtpSession

VARIABLE rx   \* per socket: the units completed, and the one being put together

linkVars == <<vars, rx>>

Unit == [fid : Nat, unit : Nat, size : Nat]
Garbage == [fid |-> 0, unit |-> 0, size |-> 0]

(* The first bytes of a unit: all of it, or, its NAL header being rebuilt  *)
(* from the FU prefix, those up to the end of the first fragment.          *)
Begins(p) == p.from = IF p.fu = "whole" THEN 0 ELSE 1
Continues(acc, p) == acc.fid = p.fid /\ acc.unit = p.unit /\ acc.size = p.from

Taken(acc, p) ==
    IF IF p.fu \in {"whole", "start"} THEN Begins(p) ELSE Continues(acc, p)
    THEN [fid |-> p.fid, unit |-> p.unit, size |-> p.from + p.bytes]
    ELSE Garbage

Receive(r, p) ==
    IF p.kind = "SR" THEN r
    ELSE IF p.fu \in {"whole", "end"}
    THEN [units |-> Append(r.units, Taken(r.acc, p)), acc |-> Garbage]
    ELSE [units |-> r.units, acc |-> Taken(r.acc, p)]

LinkInit == Init /\ rx = [s \in Socks |-> [units |-> <<>>, acc |-> Garbage]]

Received ==
    rx' = [s \in Socks |-> IF wire'[s] = wire[s] THEN rx[s]
                           ELSE Receive(rx[s], wire'[s][Len(wire'[s])])]

LinkNext == Next /\ Received

LinkSpec == LinkInit /\ [][LinkNext]_linkVars
-----------------------------------------------------------------------------
(* The units of the sendFrame c that are not sent to their last byte.      *)
UnitsLeft(c) ==
    [i \in 1..(Len(c.nalus) + 1 - c.unit) |->
        [fid |-> c.fid, unit |-> c.unit + i - 1, size |-> c.nalus[c.unit + i - 1]]]

OpenConn == IF Connected THEN tcpSock ELSE NoSock
UnitsToCome == IF sendMutex = NoThread THEN <<>> ELSE UnitsLeft(call[sendMutex])
UnitsGot == [s \in Socks |-> rx[s].units]

(* Session and receivers together implement the stream of whole units:     *)
(* whatever the threads, restarts, failing connects and lost peers, what a *)
(* receiver puts together is exactly the units of the frames sent while    *)
(* its connection was up, in order, none cut, mixed or repeated.           *)
Stream == INSTANCE UnitStream
            WITH Conns <- Socks, NoConn <- NoSock,
                 open <- OpenConn, sending <- UnitsToCome, got <- UnitsGot

ImplementsUnitStream == Stream!StreamSpec
=============================================================================
