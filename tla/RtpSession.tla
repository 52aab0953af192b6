----------------------------- MODULE RtpSession -----------------------------
(***************************************************************************)
(* One object of the class RTPSendingSession (include/RTPSendingSession.hh *)
(* and src/RTPSendingSession.cpp): start, stop, and sendFrame called by    *)
(* several threads, down to the single send() of every RTP packet and RTCP *)
(* sender report.                                                          *)
(*                                                                         *)
(* A frame is a pts and the sizes of the NAL units parseAndSendFrame finds *)
(* in it.  sendFrame holds sendMutex_ from its first line to its last and  *)
(* is one step per send(), since a send() may block for any time.  start   *)
(* and stop take no lock.  StartUp, CloseSocket and EnterFrame are what    *)
(* the three methods do; Start, Stop and SendFrame add what the model      *)
(* requires of callers: no start and no stop during a sendFrame, and the   *)
(* reverse (Quiet).  Sender, which calls the methods in main's order,      *)
(* shows that main meets it.                                               *)
(*                                                                         *)
(* The kernel and the server are the environment: a socket is opened, is   *)
(* up, loses its peer and is closed; `wire' is what a socket's send() has  *)
(* accepted while it was up, in order.  send()'s result is never looked    *)
(* at, so what happens to the object does not depend on it; a send() on a  *)
(* socket that lost its peer may also raise SIGPIPE, which kills the       *)
(* process.  Fields marked `history' are not in the code: they record what *)
(* an item is, for the properties.                                         *)
(***************************************************************************)
EXTENDS FuFragmentation, RtpClock, Sequences

CONSTANTS Threads,    \* the threads that call sendFrame
          NoThread,   \* sendMutex_ is free
          Frames,     \* the frames a caller may push
          Ssrcs,      \* the values start may draw for rtpSsrc_
          SeqMod,     \* 2^16, the range of rtpSeq_
          CountMod,   \* 2^32, the range of pktCount_ and octetCount_
          MaxSocks,   \* bound on the sockets ever created
          MaxFrames   \* bound on the calls of sendFrame

ASSUME SessionAssumption ==
    /\ NoThread \notin Threads
    /\ Frames \subseteq [pts : Nat, nalus : Seq(Nat)]
    /\ SeqMod \in Nat \ {0}
    /\ CountMod \in Nat \ {0}
    /\ MaxSocks \in Nat
    /\ MaxFrames \in Nat

NoSock == -1
Socks == 0..(MaxSocks - 1)

VARIABLES
    tcpSock, rtpSsrc, rtpSeq, basePts, pktCount, octetCount, lastRtcpPts,
    sendMutex,   \* the thread holding sendMutex_, or NoThread
    call,        \* the sendFrame each thread is in, or Idle
    starting,    \* how far a start() has got: "no", "socket" or "connect"
    conn, wire,  \* each socket's state and what it has accepted
    alive,       \* the process has not been killed by SIGPIPE
    frames,      \* history: number of sendFrame calls so far
    sentPkts,    \* history: number of RTP packets handed to send()
    sentOctets   \* history: their payload bytes

object == <<tcpSock, rtpSsrc, rtpSeq, basePts, pktCount, octetCount,
            lastRtcpPts, sendMutex>>
history == <<frames, sentPkts, sentOctets>>
vars == <<object, call, starting, conn, wire, alive, history>>

(* A sendFrame in progress: NAL unit number `unit' of the frame is next,   *)
(* from byte `pos' on when it goes in fragments.                           *)
Idle == [fid |-> 0, pts |-> 0, nalus |-> <<>>, unit |-> 1, pos |-> 1]
Active(t) == call[t] # Idle
AtStuck(c, u, q) == [c EXCEPT !.unit = u]        \* mutant: pos not advanced
At(c, u, q) == [c EXCEPT !.unit = u, !.pos = q]

Init ==
    /\ tcpSock = NoSock
    /\ rtpSsrc \in Ssrcs                        \* not initialised by the code
    /\ rtpSeq = 0 /\ pktCount = 0 /\ octetCount = 0
    /\ basePts = -1 /\ lastRtcpPts = 0
    /\ sendMutex = NoThread
    /\ call = [t \in Threads |-> Idle]
    /\ starting = "no"
    /\ conn = [s \in Socks |-> "unused"]
    /\ wire = [s \in Socks |-> <<>>]
    /\ alive = TRUE
    /\ frames = 0 /\ sentPkts = 0 /\ sentOctets = 0
-----------------------------------------------------------------------------
(* send() and what it is given.                                            *)

Connected == tcpSock # NoSock /\ conn[tcpSock] = "up"

Transmit(item) ==
    wire' = IF Connected THEN [wire EXCEPT ![tcpSock] = Append(@, item)]
                         ELSE wire

FrameTime(t) == Timestamp(call[t].pts - basePts)

(* The RTP packet with `bytes' bytes of the current unit from byte `from'  *)
(* on, in a payload of `payload' bytes.                                    *)
Packet(t, fu, from, bytes, payload) ==
    [kind |-> "RTP", seq |-> rtpSeq, ts |-> FrameTime(t), ssrc |-> rtpSsrc,
     marker |-> Marker(fu), fu |-> fu, payload |-> payload,
     \* history:
     fid |-> call[t].fid, pts |-> call[t].pts, unit |-> call[t].unit,
     size |-> call[t].nalus[call[t].unit], from |-> from, bytes |-> bytes,
     last |-> call[t].unit = Len(call[t].nalus),
     npkts |-> sentPkts, noctets |-> sentOctets]

Report(t) ==
    [kind |-> "SR", ts |-> FrameTime(t), ssrc |-> rtpSsrc,
     packets |-> pktCount, octets |-> octetCount,
     \* history:
     fid |-> call[t].fid, pts |-> call[t].pts,
     npkts |-> sentPkts, noctets |-> sentOctets]

NextSeqWide == rtpSeq + 1                       \* mutant: a counter too wide
NextSeq == (rtpSeq + 1) % SeqMod
NextPktCount == (pktCount + 1) % CountMod
NextOctetCountWhole(payload) ==                 \* mutant: counts the RTP header
    (octetCount + payload + 12) % CountMod
NextOctetCount(payload) == (octetCount + payload) % CountMod

(* sendRtpPacket *)
SendRtpPacket(t, fu, from, bytes, payload) ==
    /\ Transmit(Packet(t, fu, from, bytes, payload))
    /\ rtpSeq' = NextSeq
    /\ pktCount' = NextPktCount
    /\ octetCount' = NextOctetCount(payload)
    /\ sentPkts' = sentPkts + 1
    /\ sentOctets' = sentOctets + payload

-----------------------------------------------------------------------------
(* start, stop and the sockets.                                            *)

(* What callers must see to: no start and no stop while a sendFrame, or    *)
(* another start, is in progress.                                          *)
Quiet == starting = "no" /\ sendMutex = NoThread

(* start: the parameters and a fresh SSRC are stored; the counters, the    *)
(* sequence number and basePts_ keep their values.                         *)
StartUp ==
    /\ alive
    /\ \E s \in Socks : conn[s] = "unused"
    /\ \E x \in Ssrcs : rtpSsrc' = x
    /\ starting' = "socket"
    /\ UNCHANGED <<tcpSock, rtpSeq, basePts, pktCount, octetCount, lastRtcpPts,
                   sendMutex, call, conn, wire, alive, history>>

StartUnlocked == starting = "no" /\ StartUp    \* mutant: during a sendFrame
Start == Quiet /\ StartUp

(* createSockets: socket() overwrites tcpSock_, whatever it held.          *)
CreateSocket ==
    /\ alive
    /\ starting = "socket"
    /\ \/ \E s \in Socks :
            /\ conn[s] = "unused"
            /\ \A r \in Socks : r < s => conn[r] # "unused"
            /\ conn' = [conn EXCEPT ![s] = "opening"]
            /\ tcpSock' = s
            /\ starting' = "connect"
       \/ /\ tcpSock' = NoSock                               \* socket() failed
          /\ starting' = "no"
          /\ UNCHANGED conn
    /\ UNCHANGED <<rtpSsrc, rtpSeq, basePts, pktCount, octetCount, lastRtcpPts,
                   sendMutex, call, wire, alive, history>>

Connect ==
    /\ alive
    /\ starting = "connect"
    /\ \/ conn' = [conn EXCEPT ![tcpSock] = "up"] /\ UNCHANGED tcpSock
       \/ /\ conn' = [conn EXCEPT ![tcpSock] = "closed"]
          /\ tcpSock' = NoSock
    /\ starting' = "no"
    /\ UNCHANGED <<rtpSsrc, rtpSeq, basePts, pktCount, octetCount, lastRtcpPts,
                   sendMutex, call, wire, alive, history>>

CloseSocket ==
    /\ alive
    /\ tcpSock # NoSock
    /\ conn' = [conn EXCEPT ![tcpSock] = "closed"]
    /\ tcpSock' = NoSock
    /\ UNCHANGED <<rtpSsrc, rtpSeq, basePts, pktCount, octetCount, lastRtcpPts,
                   sendMutex, call, starting, wire, alive, history>>

Stop == Quiet /\ CloseSocket

(* The server closes or resets the connection.                             *)
PeerGone(s) ==
    /\ alive
    /\ conn[s] = "up"
    /\ conn' = [conn EXCEPT ![s] = "gone"]
    /\ UNCHANGED <<object, call, starting, wire, alive, history>>
-----------------------------------------------------------------------------
(* sendFrame.                                                              *)

MayEnterUnlocked == TRUE                           \* mutant: no lock_guard
MayEnter == sendMutex = NoThread

(* The lock is taken and the first pts becomes the base of the timestamps. *)
EnterFrame(t, f) ==
    /\ alive
    /\ ~Active(t)
    /\ MayEnter
    /\ frames < MaxFrames
    /\ sendMutex' = t
    /\ basePts' = NewBase(basePts, f.pts)
    /\ call' = [call EXCEPT ![t] = [fid |-> frames + 1, pts |-> f.pts,
                                    nalus |-> f.nalus, unit |-> 1, pos |-> 1]]
    /\ frames' = frames + 1
    /\ UNCHANGED <<tcpSock, rtpSsrc, rtpSeq, pktCount, octetCount, lastRtcpPts,
                   starting, conn, wire, alive, sentPkts, sentOctets>>

SendFrame(t, f) == starting = "no" /\ EnterFrame(t, f)

UnitLeft(t) == Active(t) /\ call[t].unit <= Len(call[t].nalus)
UnitSize(t) == call[t].nalus[call[t].unit]

(* packetizeAndSendNalu of a unit that fits in one packet. *)
SendWhole(t) ==
    /\ alive
    /\ UnitLeft(t)
    /\ FitsOnePacket(UnitSize(t))
    /\ SendRtpPacket(t, "whole", 0, UnitSize(t), UnitSize(t))
    /\ call' = [call EXCEPT ![t] = At(call[t], call[t].unit + 1, 1)]
    /\ UNCHANGED <<tcpSock, rtpSsrc, basePts, lastRtcpPts, sendMutex, starting,
                   conn, alive, frames>>

(* One turn of its loop over the fragments of a longer unit. *)
SendFragment(t) ==
    /\ alive
    /\ UnitLeft(t)
    /\ ~FitsOnePacket(UnitSize(t))
    /\ LET size == UnitSize(t)
           pos  == call[t].pos
           len  == PayloadLen(size, pos)
       IN  /\ SendRtpPacket(t, FuHeader(size, pos), pos, len, len + FuPrefix)
           /\ call' = [call EXCEPT ![t] =
                         IF pos + len < size
                         THEN At(call[t], call[t].unit, pos + len)
                         ELSE At(call[t], call[t].unit + 1, 1)]
    /\ UNCHANGED <<tcpSock, rtpSsrc, basePts, lastRtcpPts, sendMutex, starting,
                   conn, alive, frames>>

ReportDue(t) == call[t].pts - lastRtcpPts >= SECOND

ReportedAtNever(t) == lastRtcpPts           \* mutant: lastRtcpPts_ not updated
ReportedAt(t) == call[t].pts

(* The end of sendFrame: a sender report if one is due, and the unlock.    *)
FrameSent(t) == Active(t) /\ call[t].unit > Len(call[t].nalus)

ReleaseNever == sendMutex                 \* mutant: the lock is never released
Release == NoThread

Unlock(t) ==
    /\ sendMutex' = Release
    /\ call' = [call EXCEPT ![t] = Idle]
    /\ UNCHANGED <<tcpSock, rtpSsrc, rtpSeq, basePts, pktCount, octetCount,
                   starting, conn, alive, history>>

FinishWithReport(t) ==
    /\ alive
    /\ FrameSent(t)
    /\ ReportDue(t)
    /\ Transmit(Report(t))
    /\ lastRtcpPts' = ReportedAt(t)
    /\ Unlock(t)

Finish(t) ==
    /\ alive
    /\ FrameSent(t)
    /\ ~ReportDue(t)
    /\ UNCHANGED <<wire, lastRtcpPts>>
    /\ Unlock(t)

(* The next send() is on a socket that lost its peer and raises SIGPIPE.   *)
Sigpipe(t) ==
    /\ alive
    /\ UnitLeft(t) \/ (FrameSent(t) /\ ReportDue(t))
    /\ tcpSock # NoSock /\ conn[tcpSock] = "gone"
    /\ alive' = FALSE
    /\ UNCHANGED <<object, call, starting, conn, wire, history>>

(* Nothing is left to do: the process is dead, or the bounds are reached.  *)
Rest ==
    /\ \/ ~alive
       \/ frames = MaxFrames /\ Quiet /\ \A s \in Socks : conn[s] # "unused"
    /\ UNCHANGED vars

Working(t) == \/ SendWhole(t) \/ SendFragment(t)
              \/ FinishWithReport(t) \/ Finish(t) \/ Sigpipe(t)

Next == \/ Start \/ CreateSocket \/ Connect \/ Stop
        \/ \E s \in Socks : PeerGone(s)
        \/ \E t \in Threads : \/ \E f \in Frames : SendFrame(t, f)
                              \/ Working(t)
        \/ Rest

Spec == Init /\ [][Next]_vars

(* A thread inside sendFrame keeps running: a blocking send() ends when    *)
(* the server reads, or when the connection fails.                         *)
FairSpec == Spec /\ \A t \in Threads : WF_vars(Working(t))
-----------------------------------------------------------------------------
FuKinds == {"whole", "start", "middle", "end"}

RtpItem == [kind : {"RTP"}, seq : 0..(SeqMod - 1), ts : 0..(TsMod - 1),
            ssrc : Ssrcs, marker : BOOLEAN, fu : FuKinds, payload : Nat,
            fid : Nat, pts : Nat, unit : Nat, size : Nat, from : Nat,
            bytes : Nat, last : BOOLEAN, npkts : Nat, noctets : Nat]

SrItem == [kind : {"SR"}, ts : 0..(TsMod - 1), ssrc : Ssrcs,
           packets : 0..(CountMod - 1), octets : 0..(CountMod - 1),
           fid : Nat, pts : Nat, npkts : Nat, noctets : Nat]

Activation == [fid : Nat, pts : Nat, nalus : Seq(Nat), unit : Nat, pos : Nat]

TypeOK ==
    /\ tcpSock \in Socks \cup {NoSock}
    /\ rtpSsrc \in Ssrcs
    /\ rtpSeq \in 0..(SeqMod - 1)
    /\ basePts \in Nat \cup {-1}
    /\ pktCount \in 0..(CountMod - 1)
    /\ octetCount \in 0..(CountMod - 1)
    /\ lastRtcpPts \in Nat
    /\ sendMutex \in Threads \cup {NoThread}
    /\ call \in [Threads -> Activation]
    /\ starting \in {"no", "socket", "connect"}
    /\ conn \in [Socks -> {"unused", "opening", "up", "gone", "closed"}]
    /\ wire \in [Socks -> Seq(RtpItem \cup SrItem)]
    /\ alive \in BOOLEAN
    /\ frames \in Nat /\ sentPkts \in Nat /\ sentOctets \in Nat

(* An item that begins a frame's output, and one after which the frame has *)
(* no RTP packet left: where a stream of whole frames may begin and end.   *)
InFragments(p) == p.kind = "RTP" /\ p.fu \in {"start", "middle"}
Resumes(p) == p.kind = "RTP" /\ p.fu \in {"middle", "end"}
Opens(p) == p.kind = "RTP" => p.unit = 1 /\ ~Resumes(p)
Closes(p) == p.kind = "RTP" => p.last /\ ~InFragments(p)

Adjacent(Rel(_, _)) ==
    \A s \in Socks : \A i \in 1..(Len(wire[s]) - 1) :
        Rel(wire[s][i], wire[s][i + 1])

(* Fragments of one unit follow each other with no byte missing or         *)
(* repeated and nothing in between, on every connection, whatever threads  *)
(* send and whenever the session is stopped and started again: a receiver  *)
(* that gets them all can rebuild the unit (packetizeAndSendNalu).         *)
NextFragment(p, q) ==
    /\ InFragments(p) <=> Resumes(q)
    /\ InFragments(p) => /\ q.fid = p.fid
                         /\ q.unit = p.unit
                         /\ q.from = p.from + p.bytes

FragmentsReassemble ==
    /\ Adjacent(NextFragment)
    /\ \A s \in Socks : wire[s] # <<>> => ~Resumes(wire[s][1])

(* Every packet says truthfully which part of its unit it carries: the S   *)
(* bit marks the first byte after the NAL header, the E bit the last byte, *)
(* no fragment is both, the marker bit is on the packet that completes the *)
(* unit, no fragment is empty, and no payload exceeds RTP_MTU.             *)
SoundPacket(p) ==
    LET to == p.from + p.bytes
    IN  /\ p.payload <= RTP_MTU
        /\ p.marker = (to = p.size)
        /\ p.fu = "whole" <=> p.from = 0 /\ to = p.size
        /\ p.fu = "start" <=> p.from = 1 /\ to < p.size
        /\ p.fu = "end"   <=> p.from > 1 /\ to = p.size
        /\ p.fu # "whole" => p.bytes > 0

PacketsSound ==
    \A s \in Socks : \A i \in 1..Len(wire[s]) :
        wire[s][i].kind = "RTP" => SoundPacket(wire[s][i])

(* Frames are sent whole and one after the other: a connection begins with *)
(* the first packet of a frame (or a report), the units of a frame follow  *)
(* each other in order and under one timestamp, the frame after it is a    *)
(* later one, and a sender report falls only between frames, with the      *)
(* timestamp of the frame before it (sendFrame, sendMutex_).               *)
NextInFrames(p, q) ==
    \/ /\ Closes(p) /\ Opens(q) /\ q.fid > p.fid
    \/ /\ Closes(p) /\ p.kind = "RTP" /\ q.kind = "SR"
       /\ q.fid = p.fid /\ q.ts = p.ts
    \/ /\ p.kind = "RTP" /\ q.kind = "RTP" /\ ~Closes(p)
       /\ q.fid = p.fid /\ q.ts = p.ts
       /\ q.unit = IF InFragments(p) THEN p.unit ELSE p.unit + 1

FramesContiguous ==
    /\ Adjacent(NextInFrames)
    /\ \A s \in Socks : wire[s] # <<>> => Opens(wire[s][1])

(* On every connection the RTP sequence numbers advance by one per packet, *)
(* and a sender report counts exactly the packets and payload octets that  *)
(* passed since the previous item did: no send is counted twice, skipped   *)
(* or counted in the wrong order, across every wrap of the 16 and 32 bit   *)
(* counters.  What a report counts before the connection's first item is   *)
(* what the object had counted then: start does not reset the counters.    *)
Numbered(p) ==
    IF p.kind = "RTP" THEN p.seq = p.npkts % SeqMod
    ELSE p.packets = p.npkts % CountMod /\ p.octets = p.noctets % CountMod

NextNumber(p, q) ==
    IF p.kind = "RTP" THEN /\ q.npkts = p.npkts + 1
                           /\ q.noctets = p.noctets + p.payload
    ELSE q.npkts = p.npkts /\ q.noctets = p.noctets

CountersMatchWire ==
    /\ \A s \in Socks : \A i \in 1..Len(wire[s]) : Numbered(wire[s][i])
    /\ Adjacent(NextNumber)

(* All that a connection carries bears one SSRC, although every start      *)
(* draws a new one.                                                        *)
OneSsrcPerConnection ==
    \A s \in Socks : \A i, j \in 1..Len(wire[s]) :
        wire[s][i].ssrc = wire[s][j].ssrc

(* Reports on a connection are at least a second of presentation time      *)
(* apart.                                                                  *)
ReportsSpaced ==
    \A s \in Socks : \A i, j \in 1..Len(wire[s]) :
        /\ i < j
        /\ wire[s][i].kind = "SR"
        /\ wire[s][j].kind = "SR"
        => wire[s][j].pts - wire[s][i].pts >= SECOND

(* On the ARM build a later pts never bears an earlier timestamp, in       *)
(* whatever order frames come and on whichever connection they leave: the  *)
(* first pts the object ever saw is the base of all its timestamps, which  *)
(* start does not reset, and a conversion that loses a tick, saturates at  *)
(* the top or is given a pts before the base keeps the order.  (A host     *)
(* build wraps instead: RtpTimeline.)                                      *)
TimestampsFollowPts ==
    Saturating =>
        \A r, s \in Socks : \A i \in 1..Len(wire[r]), j \in 1..Len(wire[s]) :
            wire[r][i].pts <= wire[s][j].pts => wire[r][i].ts <= wire[s][j].ts

(* Every turn of a sendFrame brings it nearer to its end, or SIGPIPE kills *)
(* the process: it goes on to a later byte of the unit it is in, or to the *)
(* next unit of its frame, and after the last unit it returns.  No unit    *)
(* can keep the lock for good, whatever its size and however its last      *)
(* fragment comes out (packetizeAndSendNalu, parseAndSendFrame).           *)
Nearer(c, d) ==
    \/ c.unit = Len(c.nalus) + 1 /\ d = Idle
    \/ /\ d.fid = c.fid /\ d.nalus = c.nalus
       /\ \/ d.unit = c.unit + 1 /\ d.unit <= Len(d.nalus) + 1 /\ d.pos = 1
          \/ d.unit = c.unit /\ d.pos > c.pos /\ d.pos < d.nalus[d.unit]

TurnsAdvance ==
    [][\A t \in Threads : Working(t) => ~alive' \/ Nearer(call[t], call'[t])]_vars

(* A sendFrame that has the lock gives it back, unless SIGPIPE kills the   *)
(* process first.                                                          *)
SendFrameReturns ==
    \A t \in Threads : (sendMutex = t) ~> (sendMutex # t \/ ~alive)

(* RTPSendingSession.hh:16 says "RTP is sent to port, RTCP is sent to      *)
(* port+1 via two separate TCP connections": no connection carries both.   *)
SeparateConnections ==
    \A s \in Socks : \A i, j \in 1..Len(wire[s]) :
        wire[s][i].kind = wire[s][j].kind

(* RTPSendingSession.hh:32 says of stop() that it will "Stop and cleanup   *)
(* the session": no stop leaves a socket open.                             *)
StopCleansUp ==
    [][Stop => \A s \in Socks : conn'[s] \in {"unused", "closed"}]_vars
=============================================================================
