-------------------------- MODULE RtpSession_proofs --------------------------
(***************************************************************************)
(* Proofs about RtpSession, for any threads, frames, MTU, counter widths   *)
(* and bounds: the types, and that sendMutex_ and the order start,         *)
(* sendFrame..., stop make a sendFrame the only activity of the object.    *)
(***************************************************************************)
EXTENDS RtpSession, RtpClock_proofs

(* Where a sendFrame may be: at a unit of its frame, or after the last     *)
(* one; inside a unit only if that unit is sent in fragments.              *)
CallSound(c) ==
    /\ c.unit \in 1..(Len(c.nalus) + 1)
    /\ c.pos >= 1
    /\ c.pos > 1 => /\ c.unit <= Len(c.nalus)
                    /\ c.pos < c.nalus[c.unit]
                    /\ ~FitsOnePacket(c.nalus[c.unit])

(* One thread is in sendFrame, the one that holds the lock, and none is    *)
(* while start runs.  A socket carries nothing before it is connected.     *)
OneActivity ==
    /\ \A t \in Threads : Active(t) <=> sendMutex = t
    /\ \A t \in Threads : Active(t) => call[t].fid = frames
    /\ \A t \in Threads : CallSound(call[t])
    /\ starting # "no" => sendMutex = NoThread
    /\ starting = "connect" => tcpSock \in Socks /\ conn[tcpSock] = "opening"
    /\ \A s \in Socks : conn[s] \in {"unused", "opening"} => wire[s] = <<>>

TInv == TypeOK /\ OneActivity

(* A fragment of a long unit is not empty, fits, and stays inside it.      *)
LEMMA FragmentInside ==
    ASSUME NEW size \in Nat, NEW pos \in Nat, pos >= 1, pos < size
    PROVE  /\ PayloadLen(size, pos) \in Nat
           /\ PayloadLen(size, pos) >= 1
           /\ PayloadLen(size, pos) + FuPrefix <= RTP_MTU
           /\ pos + PayloadLen(size, pos) <= size
BY MtuAssumption DEF PayloadLen, FuPrefix

LEMMA FrameTimeType ==
    ASSUME TypeOK, NEW t \in Threads
    PROVE  FrameTime(t) \in 0..(TsMod - 1)
<1>1. call[t].pts - basePts \in Int
  BY DEF TypeOK, Activation
<1> QED
  BY <1>1, TimestampType DEF FrameTime

LEMMA PacketType ==
    ASSUME TypeOK, NEW t \in Threads, UnitLeft(t), OneActivity,
           NEW fu \in FuKinds, NEW from \in Nat, NEW bytes \in Nat, NEW payload \in Nat
    PROVE  Packet(t, fu, from, bytes, payload) \in RtpItem
<1>1. /\ rtpSeq \in 0..(SeqMod - 1) /\ rtpSsrc \in Ssrcs
      /\ sentPkts \in Nat /\ sentOctets \in Nat
  BY DEF TypeOK
<1>2. /\ call[t].fid \in Nat /\ call[t].pts \in Nat /\ call[t].unit \in Nat
      /\ call[t].nalus \in Seq(Nat)
  BY DEF TypeOK, Activation
<1>3. call[t].nalus[call[t].unit] \in Nat
  <2> DEFINE c == call[t]
  <2>1. c.unit \in 1..(Len(c.nalus) + 1)
    BY DEF OneActivity, CallSound
  <2>2. c.unit <= Len(c.nalus)
    BY DEF UnitLeft
  <2>3. c.nalus \in Seq(Nat)
    BY <1>2
  <2> HIDE DEF c
  <2>4. c.nalus[c.unit] \in Nat
    BY <2>1, <2>2, <2>3
  <2> QED
    BY <2>4 DEF c
<1>4. Marker(fu) \in BOOLEAN /\ (call[t].unit = Len(call[t].nalus)) \in BOOLEAN
  BY DEF Marker
<1>5. FrameTime(t) \in 0..(TsMod - 1)
  BY FrameTimeType
<1> QED
  BY <1>1, <1>2, <1>3, <1>4, <1>5 DEF Packet, RtpItem

LEMMA ReportType ==
    ASSUME TypeOK, NEW t \in Threads
    PROVE  Report(t) \in SrItem
<1>1. FrameTime(t) \in 0..(TsMod - 1)
  BY FrameTimeType
<1> QED
  BY <1>1 DEF Report, SrItem, TypeOK, Activation

LEMMA TransmitType ==
    ASSUME TypeOK, NEW item \in RtpItem \cup SrItem, Transmit(item)
    PROVE  wire' \in [Socks -> Seq(RtpItem \cup SrItem)]
<1> DEFINE Item == RtpItem \cup SrItem
<1>1. wire \in [Socks -> Seq(Item)] /\ tcpSock \in Socks \cup {NoSock}
  BY DEF TypeOK
<1> HIDE DEF Item
<1>2. item \in Item
  BY DEF Item
<1>3. wire' \in [Socks -> Seq(Item)]
  <2>1. CASE Connected
    <3>1. tcpSock \in Socks
      BY <1>1, <2>1 DEF Connected
    <3>2. Append(wire[tcpSock], item) \in Seq(Item)
      BY <1>1, <1>2, <3>1
    <3> QED
      BY <1>1, <2>1, <3>1, <3>2 DEF Transmit
  <2>2. CASE ~Connected
    BY <1>1, <2>2 DEF Transmit
  <2> QED
    BY <2>1, <2>2
<1> QED
  BY <1>3 DEF Item

-----------------------------------------------------------------------------
LEMMA InitTInv == Init => TInv
<1> SUFFICES ASSUME Init
             PROVE  TInv
  OBVIOUS
<1>1. Idle \in Activation /\ CallSound(Idle)
  BY DEF Idle, Activation, CallSound
<1>2. \A t \in Threads : call[t] = Idle
  BY DEF Init
<1>3. TypeOK
  <2>1. call \in [Threads -> Activation]
    BY <1>1 DEF Init
  <2>2. /\ wire \in [Socks -> Seq(RtpItem \cup SrItem)]
        /\ conn \in [Socks -> {"unused", "opening", "up", "gone", "closed"}]
    BY DEF Init
  <2>3. /\ tcpSock \in Socks \cup {NoSock} /\ rtpSsrc \in Ssrcs
        /\ sendMutex \in Threads \cup {NoThread}
        /\ starting \in {"no", "socket", "connect"} /\ alive \in BOOLEAN
    BY DEF Init
  <2>4. /\ rtpSeq \in 0..(SeqMod - 1)
        /\ pktCount \in 0..(CountMod - 1) /\ octetCount \in 0..(CountMod - 1)
        /\ basePts \in Nat \cup {-1} /\ lastRtcpPts \in Nat
        /\ frames \in Nat /\ sentPkts \in Nat /\ sentOctets \in Nat
    BY SessionAssumption DEF Init
  <2> QED
    BY <2>1, <2>2, <2>3, <2>4 DEF TypeOK
<1>4. OneActivity
  BY <1>1, <1>2, SessionAssumption DEF Init, OneActivity, Active
<1> QED
  BY <1>3, <1>4 DEF TInv

LEMMA ActivationFields ==
    ASSUME NEW c \in Activation
    PROVE  /\ c.fid \in Nat /\ c.pts \in Nat /\ c.nalus \in Seq(Nat)
           /\ c.unit \in Nat /\ c.pos \in Nat
BY DEF Activation

LEMMA AtFields ==
    ASSUME NEW c \in Activation, NEW u \in Nat, NEW q \in Nat
    PROVE  /\ At(c, u, q) \in Activation
           /\ At(c, u, q).unit = u
           /\ At(c, u, q).pos = q
           /\ At(c, u, q).fid = c.fid
           /\ At(c, u, q).pts = c.pts
           /\ At(c, u, q).nalus = c.nalus
<1>1. At(c, u, q) \in Activation
  BY DEF At, Activation
<1>2. At(c, u, q).unit = u /\ At(c, u, q).pos = q
  BY DEF At, Activation
<1>3. /\ At(c, u, q).fid = c.fid /\ At(c, u, q).pts = c.pts
      /\ At(c, u, q).nalus = c.nalus
  BY DEF At, Activation
<1> QED
  BY <1>1, <1>2, <1>3

LEMMA AtNextUnit ==
    ASSUME NEW c \in Activation
    PROVE  LET d == At(c, c.unit + 1, 1)
           IN  /\ d \in Activation /\ d.unit = c.unit + 1 /\ d.pos = 1
               /\ d.fid = c.fid /\ d.pts = c.pts /\ d.nalus = c.nalus
<1> DEFINE u == c.unit + 1
<1>1. u \in Nat /\ 1 \in Nat
  BY ActivationFields
<1> HIDE DEF u
<1>2. /\ At(c, u, 1) \in Activation
      /\ At(c, u, 1).unit = u /\ At(c, u, 1).pos = 1
      /\ At(c, u, 1).fid = c.fid /\ At(c, u, 1).pts = c.pts
      /\ At(c, u, 1).nalus = c.nalus
  BY <1>1, AtFields
<1> QED
  BY <1>2 DEF u

LEMMA AtFragment ==
    ASSUME NEW c \in Activation, NEW to \in Nat
    PROVE  LET d == At(c, c.unit, to)
           IN  /\ d \in Activation /\ d.unit = c.unit /\ d.pos = to
               /\ d.fid = c.fid /\ d.pts = c.pts /\ d.nalus = c.nalus
<1> DEFINE u == c.unit
<1>1. u \in Nat
  BY ActivationFields
<1> HIDE DEF u
<1>2. /\ At(c, u, to) \in Activation
      /\ At(c, u, to).unit = u /\ At(c, u, to).pos = to
      /\ At(c, u, to).fid = c.fid /\ At(c, u, to).pts = c.pts
      /\ At(c, u, to).nalus = c.nalus
  BY <1>1, AtFields
<1> QED
  BY <1>2 DEF u

LEMMA NotIdle ==
    ASSUME NEW c, c.unit > 1 \/ c.pos > 1 \/ c.fid > 0
    PROVE  c # Idle
BY DEF Idle

(* The state of a sendFrame with a unit left to send, and its next one:    *)
(* the next unit, or the next fragment of this one.                        *)
LEMMA UnitLeftSound ==
    ASSUME TInv, NEW t \in Threads, UnitLeft(t)
    PROVE  /\ call[t] \in Activation
           /\ CallSound(call[t])
           /\ call[t].unit \in 1..Len(call[t].nalus)
           /\ UnitSize(t) = call[t].nalus[call[t].unit]
           /\ UnitSize(t) \in Nat
           /\ FitsOnePacket(UnitSize(t)) => call[t].pos = 1
           /\ ~FitsOnePacket(UnitSize(t)) => call[t].pos < UnitSize(t)
<1>1. call[t] \in Activation /\ CallSound(call[t])
  BY DEF TInv, TypeOK, OneActivity
<1> DEFINE c == call[t]
<1>2. /\ c.nalus \in Seq(Nat) /\ c.unit \in Nat /\ c.pos \in Nat
      /\ c.unit <= Len(c.nalus)
  BY <1>1, ActivationFields DEF UnitLeft
<1>3. UnitSize(t) = c.nalus[c.unit]
  BY DEF UnitSize
<1> HIDE DEF c
<1>4. CallSound(c)
  BY <1>1 DEF c
<1>5. c.unit \in 1..Len(c.nalus) /\ c.nalus[c.unit] \in Nat
  BY <1>2, <1>4 DEF CallSound
<1>6. FitsOnePacket(c.nalus[c.unit]) => c.pos = 1
  BY <1>2, <1>4 DEF CallSound
<1>7. ~FitsOnePacket(c.nalus[c.unit]) => c.pos < c.nalus[c.unit]
  BY <1>2, <1>4, <1>5, MtuAssumption DEF CallSound, FitsOnePacket
<1> QED
  BY <1>1, <1>3, <1>5, <1>6, <1>7 DEF c

LEMMA CallAfterFragment ==
    ASSUME NEW t \in Threads, SendFragment(t)
    PROVE  LET c   == call[t]
               to  == c.pos + PayloadLen(UnitSize(t), c.pos)
           IN  call' = [call EXCEPT ![t] = IF to < UnitSize(t) THEN At(c, c.unit, to)
                                           ELSE At(c, c.unit + 1, 1)]
BY DEF SendFragment

(* The next unit and the next fragment are places a sendFrame may be at.   *)
LEMMA NextUnitSound ==
    ASSUME NEW c \in Activation, CallSound(c), c.unit \in 1..Len(c.nalus)
    PROVE  /\ At(c, c.unit + 1, 1) \in Activation
           /\ At(c, c.unit + 1, 1).fid = c.fid
           /\ At(c, c.unit + 1, 1) # Idle
           /\ CallSound(At(c, c.unit + 1, 1))
<1> DEFINE d == At(c, c.unit + 1, 1)
<1>1. c.unit + 1 \in Nat /\ c.unit + 1 > 1 /\ c.nalus \in Seq(Nat)
  BY ActivationFields
<1>2. /\ d \in Activation /\ d.fid = c.fid /\ d.nalus = c.nalus
      /\ d.unit = c.unit + 1 /\ d.pos = 1
  BY AtNextUnit
<1> HIDE DEF d
<1>3. d # Idle
  BY <1>1, <1>2, NotIdle
<1>4. CallSound(d)
  BY <1>1, <1>2 DEF CallSound
<1> QED
  BY <1>2, <1>3, <1>4 DEF d

LEMMA NextFragmentSound ==
    ASSUME NEW c \in Activation, CallSound(c), c.unit \in 1..Len(c.nalus),
           ~FitsOnePacket(c.nalus[c.unit]),
           NEW to \in Nat, to > 1, to < c.nalus[c.unit]
    PROVE  /\ At(c, c.unit, to) \in Activation
           /\ At(c, c.unit, to).fid = c.fid
           /\ At(c, c.unit, to) # Idle
           /\ CallSound(At(c, c.unit, to))
<1> DEFINE d == At(c, c.unit, to)
<1>1. c.unit \in Nat /\ c.nalus \in Seq(Nat)
  BY ActivationFields
<1>2. /\ d \in Activation /\ d.fid = c.fid /\ d.nalus = c.nalus
      /\ d.unit = c.unit /\ d.pos = to
  BY AtFragment
<1> HIDE DEF d
<1>3. d # Idle
  BY <1>2, NotIdle
<1>4. CallSound(d)
  BY <1>1, <1>2 DEF CallSound
<1> QED
  BY <1>2, <1>3, <1>4 DEF d

LEMMA CallAdvances ==
    ASSUME TInv, NEW t \in Threads, SendWhole(t) \/ SendFragment(t)
    PROVE  /\ call' \in [Threads -> Activation]
           /\ \A u \in Threads : u # t => call'[u] = call[u]
           /\ call'[t].fid = call[t].fid
           /\ call'[t] # Idle
           /\ CallSound(call'[t])
<1> DEFINE c == call[t]
           size == UnitSize(t)
           to == c.pos + PayloadLen(size, c.pos)
<1>1. UnitLeft(t)
  BY DEF SendWhole, SendFragment
<1>2. /\ c \in Activation /\ CallSound(c) /\ c.unit \in 1..Len(c.nalus)
      /\ size = c.nalus[c.unit] /\ size \in Nat /\ c.nalus \in Seq(Nat)
      /\ c.unit \in Nat /\ c.unit + 1 > 1
  BY <1>1, UnitLeftSound, ActivationFields
<1>3. ASSUME NEW d \in Activation, call' = [call EXCEPT ![t] = d],
             d.fid = c.fid, d # Idle, CallSound(d)
      PROVE  /\ call' \in [Threads -> Activation]
             /\ \A u \in Threads : u # t => call'[u] = call[u]
             /\ call'[t].fid = call[t].fid
             /\ call'[t] # Idle
             /\ CallSound(call'[t])
  <2>1. call'[t] = d /\ \A u \in Threads : u # t => call'[u] = call[u]
    BY <1>3 DEF TInv, TypeOK
  <2> QED
    BY <1>3, <2>1 DEF TInv, TypeOK
<1>4. /\ At(c, c.unit + 1, 1) \in Activation
      /\ At(c, c.unit + 1, 1).fid = c.fid
      /\ At(c, c.unit + 1, 1) # Idle
      /\ CallSound(At(c, c.unit + 1, 1))
  BY <1>2, NextUnitSound
<1>5. CASE SendWhole(t)
  BY <1>3, <1>4, <1>5 DEF SendWhole
<1>6. CASE SendFragment(t)
  <2>1. ~FitsOnePacket(size) /\ c.pos \in Nat /\ c.pos >= 1 /\ c.pos < size
    BY <1>1, <1>2, <1>6, UnitLeftSound, ActivationFields DEF SendFragment, CallSound
  <2>2. to \in Nat /\ to > 1
    <3>1. PayloadLen(size, c.pos) \in Nat /\ PayloadLen(size, c.pos) >= 1
      BY <1>2, <2>1, FragmentInside
    <3> QED
      BY <2>1, <3>1
  <2> HIDE DEF to
  <2>3. ASSUME to < size
        PROVE  /\ At(c, c.unit, to) \in Activation
               /\ At(c, c.unit, to).fid = c.fid
               /\ At(c, c.unit, to) # Idle
               /\ CallSound(At(c, c.unit, to))
    BY <1>2, <2>1, <2>2, <2>3, NextFragmentSound
  <2>4. call' = [call EXCEPT ![t] = IF to < size THEN At(c, c.unit, to)
                                    ELSE At(c, c.unit + 1, 1)]
    BY <1>6, CallAfterFragment DEF to
  <2>5. CASE to < size
    BY <1>3, <2>3, <2>4, <2>5
  <2>6. CASE ~(to < size)
    BY <1>3, <1>4, <2>4, <2>6
  <2> QED
    BY <2>5, <2>6
<1> QED
  BY <1>5, <1>6

(* A step that sends hands one RTP packet to send(). *)
LEMMA SendsPacket ==
    ASSUME TInv, NEW t \in Threads, SendWhole(t) \/ SendFragment(t)
    PROVE  \E fu \in FuKinds, from \in Nat, bytes \in Nat, payload \in Nat :
               SendRtpPacket(t, fu, from, bytes, payload)
<1>0. TypeOK /\ OneActivity /\ UnitLeft(t)
  BY DEF TInv, SendWhole, SendFragment
<1>1. CASE SendWhole(t)
  <2>1. UnitSize(t) \in Nat
    BY <1>0, UnitLeftSound
  <2> QED
    BY <1>1, <2>1 DEF SendWhole, FuKinds
<1>2. CASE SendFragment(t)
  <2> DEFINE size == UnitSize(t)
             pos  == call[t].pos
             len  == PayloadLen(size, pos)
  <2>1. ~FitsOnePacket(size)
    BY <1>2 DEF SendFragment
  <2>2. size \in Nat /\ pos \in Nat /\ pos >= 1 /\ pos < size
    BY <1>0, <2>1, UnitLeftSound, ActivationFields DEF CallSound
  <2>3. len \in Nat /\ len + FuPrefix \in Nat
    BY <2>2, FragmentInside DEF FuPrefix
  <2>4. FuHeader(size, pos) \in FuKinds
    BY DEF FuHeader, FuKinds
  <2>5. SendRtpPacket(t, FuHeader(size, pos), pos, len, len + FuPrefix)
    BY <1>2 DEF SendFragment
  <2> QED
    BY <2>2, <2>3, <2>4, <2>5
<1> QED
  BY <1>1, <1>2

(* A step that sends hands one item to send() and moves its thread on.     *)
LEMMA SendTInv ==
    ASSUME TInv, NEW t \in Threads, SendWhole(t) \/ SendFragment(t)
    PROVE  TInv'
<1>0. TypeOK /\ OneActivity /\ UnitLeft(t)
  BY DEF TInv, SendWhole, SendFragment
<1>1. PICK fu \in FuKinds, from \in Nat, bytes \in Nat, payload \in Nat :
        SendRtpPacket(t, fu, from, bytes, payload)
  BY SendsPacket
<1>2. /\ UNCHANGED <<tcpSock, rtpSsrc, basePts, lastRtcpPts, sendMutex, starting,
                     conn, alive, frames>>
  BY DEF SendWhole, SendFragment
<1>3. TypeOK'
  <2>1. wire' \in [Socks -> Seq(RtpItem \cup SrItem)]
    BY <1>0, <1>1, PacketType, TransmitType DEF SendRtpPacket
  <2>2. rtpSeq' \in 0..(SeqMod - 1) /\ pktCount' \in 0..(CountMod - 1)
    <3>1. rtpSeq + 1 \in Int /\ pktCount + 1 \in Int
      BY <1>0 DEF TypeOK
    <3> QED
      BY <1>1, <3>1, ModRange, SessionAssumption
      DEF SendRtpPacket, NextSeq, NextPktCount
  <2>3. octetCount' \in 0..(CountMod - 1)
    <3>1. octetCount + payload \in Int
      BY <1>0 DEF TypeOK
    <3> QED
      BY <1>1, <3>1, ModRange, SessionAssumption DEF SendRtpPacket, NextOctetCount
  <2>4. sentPkts' \in Nat /\ sentOctets' \in Nat
    BY <1>0, <1>1 DEF SendRtpPacket, TypeOK
  <2>5. call' \in [Threads -> Activation]
    BY CallAdvances
  <2> QED
    BY <1>0, <1>2, <2>1, <2>2, <2>3, <2>4, <2>5 DEF TypeOK
<1>4. OneActivity'
  <2>1. sendMutex = t /\ starting = "no"
    BY <1>0, SessionAssumption DEF OneActivity, UnitLeft, TypeOK
  <2>2. \A s \in Socks : conn[s] \in {"unused", "opening"} => wire'[s] = wire[s]
    BY <1>0, <1>1 DEF SendRtpPacket, Transmit, Connected, TypeOK
  <2>3. \A u \in Threads : /\ Active(u)' <=> Active(u)
                           /\ call'[u].fid = call[u].fid
                           /\ CallSound(call'[u])
    BY <1>0, CallAdvances DEF Active, OneActivity, UnitLeft
  <2> QED
    BY <1>0, <1>2, <2>1, <2>2, <2>3 DEF OneActivity
<1> QED
  BY <1>3, <1>4 DEF TInv

LEMMA FinishTInv ==
    ASSUME TInv, NEW t \in Threads, FinishWithReport(t) \/ Finish(t)
    PROVE  TInv'
<1>0. TypeOK /\ OneActivity /\ Active(t) /\ Unlock(t)
  BY DEF TInv, FinishWithReport, Finish, FrameSent
<1>1. Idle \in Activation /\ CallSound(Idle)
  BY DEF Idle, Activation, CallSound
<1>2. /\ \A u \in Threads : call'[u] = IF u = t THEN Idle ELSE call[u]
      /\ call' \in [Threads -> Activation]
      /\ sendMutex' = NoThread
  BY <1>0, <1>1 DEF Unlock, Release, TypeOK
<1>3. /\ wire' \in [Socks -> Seq(RtpItem \cup SrItem)]
      /\ lastRtcpPts' \in Nat
      /\ \A s \in Socks : conn[s] \in {"unused", "opening"} => wire'[s] = wire[s]
  <2>1. CASE FinishWithReport(t)
    <3>1. Transmit(Report(t)) /\ lastRtcpPts' = call[t].pts
      BY <2>1 DEF FinishWithReport, ReportedAt
    <3>2. wire' \in [Socks -> Seq(RtpItem \cup SrItem)]
      BY <1>0, <3>1, ReportType, TransmitType
    <3>3. call[t].pts \in Nat
      BY <1>0, ActivationFields DEF TypeOK
    <3>4. \A s \in Socks : conn[s] \in {"unused", "opening"} => wire'[s] = wire[s]
      BY <1>0, <3>1 DEF Transmit, Connected, TypeOK
    <3> QED
      BY <3>1, <3>2, <3>3, <3>4
  <2>2. CASE Finish(t)
    BY <1>0, <2>2 DEF Finish, TypeOK
  <2> QED
    BY <2>1, <2>2
<1>4. TypeOK'
  BY <1>0, <1>2, <1>3 DEF TypeOK, Unlock, history
<1>5. OneActivity'
  <2>1. \A u \in Threads : Active(u)' <=> u # t /\ Active(u)
    BY <1>2 DEF Active
  <2>2. \A u \in Threads : ~Active(u)'
    BY <1>0, <2>1 DEF OneActivity
  <2>3. UNCHANGED <<starting, tcpSock, conn, frames>>
    BY <1>0 DEF Unlock, history
  <2>4. \A u \in Threads : CallSound(call'[u]) /\ sendMutex' # u
    BY <1>0, <1>1, <1>2, SessionAssumption DEF OneActivity
  <2> QED
    BY <1>0, <1>2, <1>3, <2>2, <2>3, <2>4 DEF OneActivity
<1> QED
  BY <1>4, <1>5 DEF TInv

LEMMA NextTInv == TInv /\ [Next]_vars => TInv'
<1> SUFFICES ASSUME TInv, [Next]_vars
             PROVE  TInv'
  OBVIOUS
<1>0. TypeOK /\ OneActivity
  BY DEF TInv
<1>1. CASE Start
  <2>1. /\ rtpSsrc' \in Ssrcs /\ starting' = "socket" /\ sendMutex = NoThread
        /\ UNCHANGED <<tcpSock, rtpSeq, basePts, pktCount, octetCount, lastRtcpPts,
                       sendMutex, call, conn, wire, alive, history>>
    BY <1>1 DEF Start, StartUp, Quiet
  <2>2. TypeOK'
    BY <1>0, <2>1 DEF TypeOK, history
  <2>3. OneActivity'
    BY <1>0, <2>1 DEF OneActivity, Active, history
  <2> QED
    BY <2>2, <2>3 DEF TInv
<1>2. CASE CreateSocket
  <2>1. /\ starting = "socket" /\ starting' \in {"no", "connect"}
        /\ UNCHANGED <<rtpSsrc, rtpSeq, basePts, pktCount, octetCount, lastRtcpPts,
                       sendMutex, call, wire, alive, history>>
        /\ \/ \E s \in Socks : /\ conn[s] = "unused" /\ tcpSock' = s
                               /\ conn' = [conn EXCEPT ![s] = "opening"]
           \/ tcpSock' = NoSock /\ starting' = "no" /\ conn' = conn
    BY <1>2 DEF CreateSocket
  <2>2. TypeOK'
    BY <1>0, <2>1 DEF TypeOK, history
  <2>3. OneActivity'
    BY <1>0, <2>1 DEF OneActivity, Active, TypeOK, history
  <2> QED
    BY <2>2, <2>3 DEF TInv
<1>3. CASE Connect
  <2>1. /\ starting = "connect" /\ starting' = "no"
        /\ tcpSock' \in {tcpSock, NoSock}
        /\ \E x \in {"up", "closed"} : conn' = [conn EXCEPT ![tcpSock] = x]
        /\ UNCHANGED <<rtpSsrc, rtpSeq, basePts, pktCount, octetCount, lastRtcpPts,
                       sendMutex, call, wire, alive, history>>
    BY <1>3 DEF Connect
  <2>2. TypeOK'
    BY <1>0, <2>1 DEF TypeOK, history
  <2>3. OneActivity'
    BY <1>0, <2>1 DEF OneActivity, Active, TypeOK, history
  <2> QED
    BY <2>2, <2>3 DEF TInv
<1>4. CASE Stop
  <2>1. /\ starting = "no" /\ tcpSock' = NoSock
        /\ conn' = [conn EXCEPT ![tcpSock] = "closed"]
        /\ UNCHANGED <<rtpSsrc, rtpSeq, basePts, pktCount, octetCount, lastRtcpPts,
                       sendMutex, call, starting, wire, alive, history>>
    BY <1>4 DEF Stop, CloseSocket, Quiet
  <2>2. TypeOK'
    BY <1>0, <2>1 DEF TypeOK, history
  <2>3. OneActivity'
    BY <1>0, <2>1 DEF OneActivity, Active, TypeOK, history
  <2> QED
    BY <2>2, <2>3 DEF TInv
<1>5. ASSUME NEW s \in Socks, PeerGone(s)
      PROVE  TInv'
  <2>1. /\ conn[s] = "up" /\ conn' = [conn EXCEPT ![s] = "gone"]
        /\ UNCHANGED <<object, call, starting, wire, alive, history>>
    BY <1>5 DEF PeerGone
  <2>2. TypeOK'
    BY <1>0, <2>1 DEF TypeOK, object, history
  <2>3. OneActivity'
    BY <1>0, <2>1 DEF OneActivity, Active, TypeOK, object, history
  <2> QED
    BY <2>2, <2>3 DEF TInv
<1>6. ASSUME NEW t \in Threads, NEW f \in Frames, SendFrame(t, f)
      PROVE  TInv'
  <2> DEFINE c == [fid |-> frames + 1, pts |-> f.pts, nalus |-> f.nalus,
                   unit |-> 1, pos |-> 1]
  <2>1. /\ starting = "no" /\ sendMutex = NoThread /\ sendMutex' = t
        /\ basePts' = NewBase(basePts, f.pts) /\ frames' = frames + 1
        /\ call' = [call EXCEPT ![t] = c]
        /\ UNCHANGED <<tcpSock, rtpSsrc, rtpSeq, pktCount, octetCount, lastRtcpPts,
                       starting, conn, wire, alive, sentPkts, sentOctets>>
    BY <1>6 DEF SendFrame, EnterFrame, MayEnter
  <2>2. f.pts \in Nat /\ f.nalus \in Seq(Nat) /\ frames \in Nat
    BY <1>0, SessionAssumption DEF TypeOK
  <2>3. c \in Activation /\ c # Idle /\ CallSound(c) /\ c.fid = frames + 1
    BY <2>2 DEF Activation, CallSound, Idle
  <2> HIDE DEF c
  <2>4. /\ call' \in [Threads -> Activation]
        /\ \A u \in Threads : call'[u] = IF u = t THEN c ELSE call[u]
    BY <1>0, <2>1, <2>3 DEF TypeOK
  <2>5. TypeOK'
    BY <1>0, <2>1, <2>2, <2>4 DEF TypeOK, NewBase
  <2>6. \A u \in Threads : Active(u)' <=> u = t
    BY <1>0, <2>1, <2>3, <2>4, SessionAssumption DEF Active, OneActivity
  <2>7. OneActivity'
    BY <1>0, <2>1, <2>3, <2>4, <2>6 DEF OneActivity
  <2> QED
    BY <2>5, <2>7 DEF TInv
<1>7. ASSUME NEW t \in Threads, Working(t)
      PROVE  TInv'
  <2>1. CASE Sigpipe(t)
    <3>1. TypeOK'
      BY <1>0, <2>1 DEF Sigpipe, TypeOK, object, history
    <3>2. OneActivity'
      BY <1>0, <2>1 DEF Sigpipe, OneActivity, Active, object, history
    <3> QED
      BY <3>1, <3>2 DEF TInv
  <2> QED
    BY <1>7, <2>1, SendTInv, FinishTInv DEF Working
<1>8. CASE UNCHANGED vars
  <2>1. TypeOK'
    BY <1>0, <1>8 DEF vars, TypeOK, object, history
  <2>2. OneActivity'
    BY <1>0, <1>8 DEF vars, OneActivity, Active, object, history
  <2> QED
    BY <2>1, <2>2 DEF TInv
<1>9. CASE Rest
  BY <1>8, <1>9 DEF Rest
<1> QED
  BY <1>1, <1>2, <1>3, <1>4, <1>5, <1>6, <1>7, <1>8, <1>9 DEF Next

(* Types hold in every reachable state, for every width of the counters.   *)
THEOREM TypeInvariance == Spec => []TInv
BY InitTInv, NextTInv, PTL DEF Spec

THEOREM TypeCorrect == Spec => []TypeOK
<1>1. TInv => TypeOK
  BY DEF TInv
<1> QED
  BY TypeInvariance, <1>1, PTL
-----------------------------------------------------------------------------
(* A turn of sendFrame that sends a packet moves on in its frame.          *)
LEMMA SendNearer ==
    ASSUME TInv, NEW t \in Threads, SendWhole(t) \/ SendFragment(t)
    PROVE  Nearer(call[t], call'[t])
<1> DEFINE c == call[t]
           size == UnitSize(t)
           to == c.pos + PayloadLen(size, c.pos)
<1>1. UnitLeft(t) /\ call \in [Threads -> Activation]
  BY DEF SendWhole, SendFragment, TInv, TypeOK
<1>2. /\ c \in Activation /\ CallSound(c) /\ c.unit \in 1..Len(c.nalus)
      /\ size = c.nalus[c.unit] /\ size \in Nat /\ c.nalus \in Seq(Nat)
      /\ c.unit \in Nat /\ c.pos \in Nat
  BY <1>1, UnitLeftSound, ActivationFields
<1>3. Nearer(c, At(c, c.unit + 1, 1))
  <2> DEFINE d == At(c, c.unit + 1, 1)
  <2>1. d.unit = c.unit + 1 /\ d.pos = 1 /\ d.fid = c.fid /\ d.nalus = c.nalus
    BY <1>2, AtNextUnit
  <2> HIDE DEF d
  <2>2. d.unit <= Len(d.nalus) + 1
    BY <1>2, <2>1
  <2>3. Nearer(c, d)
    BY <2>1, <2>2 DEF Nearer
  <2> QED
    BY <2>3 DEF d
<1>4. CASE SendWhole(t)
  BY <1>1, <1>3, <1>4 DEF SendWhole
<1>5. CASE SendFragment(t)
  <2>1. ~FitsOnePacket(size) /\ c.pos >= 1 /\ c.pos < size
    BY <1>1, <1>2, <1>5, UnitLeftSound DEF SendFragment, CallSound
  <2>2. to \in Nat /\ to > c.pos
    <3>1. PayloadLen(size, c.pos) \in Nat /\ PayloadLen(size, c.pos) >= 1
      BY <1>2, <2>1, FragmentInside
    <3> QED
      BY <1>2, <3>1
  <2> HIDE DEF to
  <2>3. ASSUME to < size
        PROVE  Nearer(c, At(c, c.unit, to))
    <3> DEFINE d == At(c, c.unit, to)
    <3>1. d.unit = c.unit /\ d.pos = to /\ d.fid = c.fid /\ d.nalus = c.nalus
      BY <1>2, <2>2, AtFragment
    <3> HIDE DEF d
    <3>2. Nearer(c, d)
      BY <1>2, <2>2, <2>3, <3>1 DEF Nearer
    <3> QED
      BY <3>2 DEF d
  <2>4. call' = [call EXCEPT ![t] = IF to < size THEN At(c, c.unit, to)
                                    ELSE At(c, c.unit + 1, 1)]
    BY <1>5, CallAfterFragment DEF to
  <2> QED
    BY <1>1, <1>3, <2>3, <2>4
<1> QED
  BY <1>4, <1>5

(* So does every other turn, unless it is the last of the process.         *)
LEMMA WorkingNearer ==
    ASSUME TInv, NEW t \in Threads, Working(t)
    PROVE  ~alive' \/ Nearer(call[t], call'[t])
<1>1. CASE FinishWithReport(t) \/ Finish(t)
  <2> DEFINE c == call[t]
  <2>1. FrameSent(t) /\ call' = [call EXCEPT ![t] = Idle]
    BY <1>1 DEF FinishWithReport, Finish, Unlock
  <2>2. call \in [Threads -> Activation] /\ CallSound(c) /\ c \in Activation
    BY DEF TInv, TypeOK, OneActivity
  <2>3. call'[t] = Idle
    BY <2>1, <2>2
  <2>4. c.unit > Len(c.nalus) /\ c.unit \in 1..(Len(c.nalus) + 1)
        /\ c.nalus \in Seq(Nat)
    BY <2>1, <2>2, ActivationFields DEF FrameSent, CallSound
  <2> HIDE DEF c
  <2>5. c.unit = Len(c.nalus) + 1
    BY <2>4
  <2> QED
    BY <2>3, <2>5 DEF Nearer, c
<1>2. CASE Sigpipe(t)
  BY <1>2 DEF Sigpipe
<1> QED
  BY <1>1, <1>2, SendNearer DEF Working

(* Every turn of a sendFrame brings it nearer to its end, for units of any *)
(* size and any MTU (packetizeAndSendNalu, parseAndSendFrame).             *)
THEOREM TurnAdvances == Spec => TurnsAdvance
<1>1. TInv /\ [Next]_vars =>
        [\A t \in Threads : Working(t) =>
             ~alive' \/ Nearer(call[t], call'[t])]_vars
  BY WorkingNearer
<1> QED
  BY TypeInvariance, <1>1, PTL DEF Spec, TurnsAdvance
=============================================================================
