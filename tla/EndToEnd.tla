------------------------------ MODULE EndToEnd ------------------------------
(***************************************************************************)
(* The program and its server: Sender, with the receiver of RtpLink at the *)
(* other end of its connection.  This is the whole way of a frame: from    *)
(* the record file through the queue, the callback, the packets and the    *)
(* connection to the NAL units the server has put together again.          *)
(***************************************************************************)
EXTENDS Sender, RtpLink

netVars == <<mainVars, rx>>

NetInit == MainInit /\ rx = [s \in Socks |-> [units |-> <<>>, acc |-> Garbage]]

NetNext == MainNext /\ Received

NetSpec == NetInit /\ [][NetNext]_netVars

(* The thread keeps running: a blocking connect, read or send ends, the    *)
(* latter when the server reads or the connection fails.                   *)
FairNetSpec == NetSpec /\ WF_netVars(MainStep /\ Received)
-----------------------------------------------------------------------------
(* A place in the file is unit u of accepted frame f, or the end of frame  *)
(* f when u is one more than it has units.  The first unit at or after the *)
(* place (f, u) is (g, v): that unit itself or, from the end of a frame,   *)
(* the first one of a later frame, those in between having none.           *)
Leads(f, u, g, v) ==
    \/ g = f /\ v = u
    \/ /\ g > f /\ v = 1
       /\ u = Len(accepted[f].nalus) + 1
       /\ \A k \in (f + 1)..(g - 1) : accepted[k].nalus = <<>>

IsUnitOfFile(x) ==
    /\ x.fid \in 1..Len(accepted)
    /\ x.unit \in 1..Len(accepted[x.fid].nalus)
    /\ x.size = accepted[x.fid].nalus[x.unit]

(* What the server has put together is the file from its beginning, unit   *)
(* by unit: each is whole, of its own size, and the one that follows the   *)
(* one before it in the frames main accepted; none is missing in between,  *)
(* repeated or out of order, wherever the connection ended (the read loop, *)
(* pushFrame, deliverNext, sendFrame and packetizeAndSendNalu together).   *)
ReceivedIsFile ==
    \A s \in Socks :
        LET got == rx[s].units
        IN  /\ \A i \in 1..Len(got) : IsUnitOfFile(got[i])
            /\ got # <<>> => Leads(1, 1, got[1].fid, got[1].unit)
            /\ \A i \in 1..(Len(got) - 1) :
                   Leads(got[i].fid, got[i].unit + 1,
                         got[i + 1].fid, got[i + 1].unit)

(* As long as the server has not left, it has every unit of every frame    *)
(* whose callback returned, to its last byte.                              *)
NothingLost ==
    ~peerLost =>
        \A f \in Source!DeliveredFrames : \A u \in 1..Len(accepted[f].nalus) :
            \E s \in Socks : \E i \in 1..Len(rx[s].units) :
                rx[s].units[i]
                    = [fid |-> f, unit |-> u, size |-> accepted[f].nalus[u]]
=============================================================================
