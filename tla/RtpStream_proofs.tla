--------------------------- MODULE RtpStream_proofs ---------------------------
(***************************************************************************)
(* Proofs about what RtpSession puts on its connections, for any threads,  *)
(* frames, MTU and counter widths.  The streams are sound because of what  *)
(* links the last item of the open connection to the rest of the state:    *)
(* to the place the sendFrame in progress has reached, and to the counts.  *)
(***************************************************************************)
EXTENDS RtpSession_proofs

Item == RtpItem \cup SrItem

(* An item by itself, and next to the one after it on its connection.      *)
ItemSound(p) == (p.kind = "RTP" => SoundPacket(p)) /\ Numbered(p)
Follows(p, q) == NextFragment(p, q) /\ NextInFrames(p, q) /\ NextNumber(p, q)

Streams ==
    /\ \A s \in Socks : \A i \in 1..Len(wire[s]) : ItemSound(wire[s][i])
    /\ \A s \in Socks : \A i \in 1..(Len(wire[s]) - 1) :
           Follows(wire[s][i], wire[s][i + 1])
    /\ \A s \in Socks : wire[s] # <<>> => Opens(wire[s][1])

(* The wrapping counters of the object are the true counts.                *)
TrueCounts ==
    /\ rtpSeq = sentPkts % SeqMod
    /\ pktCount = sentPkts % CountMod
    /\ octetCount = sentOctets % CountMod

LastItem == wire[tcpSock][Len(wire[tcpSock])]

(* The sendFrame c, whose packets bear the timestamp ts, is right after    *)
(* the item p: at the beginning of its frame, or after a packet of it.     *)
AtFrameStart(c, p) == c.unit = 1 /\ c.pos = 1 /\ Closes(p) /\ p.fid < c.fid

AfterPacket(c, ts, p) ==
    /\ p.kind = "RTP" /\ p.fid = c.fid /\ p.ts = ts
    /\ p.last <=> p.unit = Len(c.nalus)
    /\ c.pos > 1 => /\ p.unit = c.unit
                    /\ InFragments(p)
                    /\ p.from + p.bytes = c.pos
    /\ c.pos = 1 => p.unit = c.unit - 1 /\ ~InFragments(p)

(* The end of the open connection and the rest of the state.               *)
Counted(p) ==
    IF p.kind = "RTP"
    THEN sentPkts = p.npkts + 1 /\ sentOctets = p.noctets + p.payload
    ELSE sentPkts = p.npkts /\ sentOctets = p.noctets

Frontier ==
    /\ Connected /\ wire[tcpSock] = <<>> =>
           \A t \in Threads : Active(t) => call[t].unit = 1 /\ call[t].pos = 1
    /\ Connected /\ wire[tcpSock] # <<>> =>
           /\ Counted(LastItem)
           /\ LastItem.fid <= frames
           /\ sendMutex = NoThread => Closes(LastItem)
           /\ \A t \in Threads : Active(t) =>
                  \/ AtFrameStart(call[t], LastItem)
                  \/ AfterPacket(call[t], FrameTime(t), LastItem)

SInv == TInv /\ Streams /\ TrueCounts /\ Frontier
-----------------------------------------------------------------------------
(* What Transmit does to the wires.                                        *)
LEMMA AfterTransmit ==
    ASSUME TypeOK, NEW q, Transmit(q), UNCHANGED <<tcpSock, conn>>
    PROVE  /\ \A s \in Socks : ~(Connected /\ s = tcpSock) => wire'[s] = wire[s]
           /\ Connected' = Connected
           /\ Connected => /\ tcpSock \in Socks
                           /\ wire'[tcpSock] = Append(wire[tcpSock], q)
                           /\ wire'[tcpSock] # <<>>
                           /\ LastItem' = q
<1>1. Connected' = Connected
  BY DEF Connected
<1>2. CASE Connected
  <2>1. tcpSock \in Socks
    BY <1>2 DEF Connected, TypeOK
  <2>2. wire' = [wire EXCEPT ![tcpSock] = Append(wire[tcpSock], q)]
    BY <1>2 DEF Transmit
  <2>3. /\ wire'[tcpSock] = Append(wire[tcpSock], q)
        /\ \A s \in Socks : s # tcpSock => wire'[s] = wire[s]
    BY <2>1, <2>2 DEF TypeOK
  <2> DEFINE w == wire[tcpSock]
  <2>4. w \in Seq(Item)
    BY <2>1 DEF TypeOK, Item
  <2>5. Append(w, q) # <<>> /\ Append(w, q)[Len(Append(w, q))] = q
    <3> HIDE DEF w
    <3> QED
      BY <2>4
  <2>6. LastItem' = q
    BY <2>3, <2>5 DEF LastItem
  <2> QED
    BY <1>1, <1>2, <2>1, <2>3, <2>5, <2>6
<1>3. CASE ~Connected
  BY <1>1, <1>3 DEF Transmit
<1> QED
  BY <1>2, <1>3

(* An item that suits the end of the open connection keeps it sound.       *)
LEMMA SendKeepsStreams ==
    ASSUME TypeOK, Streams, NEW q, Transmit(q), UNCHANGED <<tcpSock, conn>>,
           ItemSound(q),
           Connected => /\ wire[tcpSock] = <<>> => Opens(q)
                        /\ wire[tcpSock] # <<>> => Follows(LastItem, q)
    PROVE  Streams'
<1>0. ASSUME \A s \in Socks :
                 /\ \A i \in 1..Len(wire'[s]) : ItemSound(wire'[s][i])
                 /\ \A i \in 1..(Len(wire'[s]) - 1) :
                        Follows(wire'[s][i], wire'[s][i + 1])
                 /\ wire'[s] # <<>> => Opens(wire'[s][1])
      PROVE  Streams'
  <2>1. (\A s \in Socks : \A i \in 1..Len(wire[s]) : ItemSound(wire[s][i]))'
    BY <1>0 DEF ItemSound, SoundPacket, Numbered
  <2>2. (\A s \in Socks : \A i \in 1..(Len(wire[s]) - 1) :
             Follows(wire[s][i], wire[s][i + 1]))'
    BY <1>0 DEF Follows, NextFragment, NextInFrames, NextNumber, Opens,
                InFragments, Resumes, Closes
  <2>3. (\A s \in Socks : wire[s] # <<>> => Opens(wire[s][1]))'
    BY <1>0 DEF Opens, Resumes
  <2> QED
    BY <2>1, <2>2, <2>3 DEF Streams
<1> SUFFICES ASSUME NEW s \in Socks
             PROVE  /\ \A i \in 1..Len(wire'[s]) : ItemSound(wire'[s][i])
                    /\ \A i \in 1..(Len(wire'[s]) - 1) :
                           Follows(wire'[s][i], wire'[s][i + 1])
                    /\ wire'[s] # <<>> => Opens(wire'[s][1])
  BY <1>0
<1>1. CASE Connected /\ s = tcpSock
  <2> DEFINE w == wire[s]
  <2>1. wire'[s] = Append(w, q)
    BY <1>1, AfterTransmit
  <2>2. w \in Seq(Item)
    BY DEF TypeOK, Item
  <2>3. /\ \A i \in 1..Len(w) : ItemSound(w[i])
        /\ \A i \in 1..(Len(w) - 1) : Follows(w[i], w[i + 1])
        /\ w # <<>> => Opens(w[1])
        /\ w = <<>> => Opens(q)
        /\ w # <<>> => Follows(w[Len(w)], q)
    BY <1>1 DEF Streams, LastItem
  <2> HIDE DEF w
  <2>4. /\ Len(Append(w, q)) = Len(w) + 1
        /\ \A i \in 1..Len(w) : Append(w, q)[i] = w[i]
        /\ Append(w, q)[Len(w) + 1] = q
        /\ Len(w) \in Nat /\ (w # <<>> <=> Len(w) > 0)
    BY <2>2
  <2>5. \A i \in 1..(Len(w) + 1) : ItemSound(Append(w, q)[i])
    BY <2>3, <2>4
  <2>6. \A i \in 1..Len(w) : Follows(Append(w, q)[i], Append(w, q)[i + 1])
    <3> TAKE i \in 1..Len(w)
    <3>1. CASE i = Len(w)
      BY <2>3, <2>4, <3>1
    <3>2. CASE i \in 1..(Len(w) - 1)
      <4>1. Append(w, q)[i] = w[i] /\ Append(w, q)[i + 1] = w[i + 1]
        BY <2>4, <3>2
      <4> QED
        BY <2>3, <3>2, <4>1
    <3> QED
      BY <2>4, <3>1, <3>2
  <2>7. Opens(Append(w, q)[1])
    <3>1. CASE w = <<>>
      BY <2>3, <2>4, <3>1
    <3>2. CASE w # <<>>
      BY <2>3, <2>4, <3>2
    <3> QED
      BY <3>1, <3>2
  <2> QED
    BY <2>1, <2>4, <2>5, <2>6, <2>7
<1>2. CASE ~(Connected /\ s = tcpSock)
  <2>1. wire'[s] = wire[s]
    BY <1>2, AfterTransmit
  <2> QED
    BY <2>1 DEF Streams
<1> QED
  BY <1>1, <1>2
-----------------------------------------------------------------------------
(* Every packet is sound: the two kinds of packets sendFrame makes.        *)
LEMMA WholeSound ==
    ASSUME NEW p, NEW size \in Nat, FitsOnePacket(size),
           p.size = size, p.from = 0, p.bytes = size, p.payload = size,
           p.fu = "whole", p.marker = Marker("whole")
    PROVE  SoundPacket(p)
BY DEF SoundPacket, FitsOnePacket, Marker

LEMMA FragmentSound ==
    ASSUME NEW p, NEW size \in Nat, NEW pos \in Nat, pos >= 1, pos < size,
           ~FitsOnePacket(size),
           p.size = size, p.from = pos, p.bytes = PayloadLen(size, pos),
           p.payload = PayloadLen(size, pos) + FuPrefix,
           p.fu = FuHeader(size, pos), p.marker = Marker(FuHeader(size, pos))
    PROVE  SoundPacket(p)
<1> DEFINE len == PayloadLen(size, pos)
<1>1. /\ len \in Nat /\ len >= 1 /\ len + FuPrefix <= RTP_MTU /\ pos + len <= size
  BY FragmentInside
<1>2. pos = 1 => pos + len < size
  BY MtuAssumption DEF PayloadLen, FuPrefix, FitsOnePacket
<1>3. FuHeader(size, pos) = IF pos = 1 THEN "start"
                           ELSE IF size - pos - len = 0 THEN "end" ELSE "middle"
  BY DEF FuHeader
<1> HIDE DEF len
<1>4. p.bytes = len /\ p.payload = len + FuPrefix
  BY DEF len
<1> QED
  BY <1>1, <1>2, <1>3, <1>4 DEF SoundPacket, Marker

(* One packet is handed to send() by the sendFrame of t, which then is at  *)
(* d: the packet is sound, begins where the call was and, unless it ends   *)
(* its unit, the call is where it ends.                                    *)
PartSent(t, fu, from, bytes, payload, d) ==
    /\ SendRtpPacket(t, fu, from, bytes, payload)
    /\ UNCHANGED <<tcpSock, conn, basePts, sendMutex, frames>>
    /\ SoundPacket(Packet(t, fu, from, bytes, payload))
    /\ fu \in {"middle", "end"} <=> call[t].pos > 1
    /\ call[t].pos > 1 => from = call[t].pos
    /\ call' = [call EXCEPT ![t] = d]
    /\ d.fid = call[t].fid /\ d.pts = call[t].pts /\ d.nalus = call[t].nalus
    /\ fu \in {"start", "middle"} =>
           d.unit = call[t].unit /\ d.pos = from + bytes /\ d.pos > 1
    /\ fu \in {"whole", "end"} => d.unit = call[t].unit + 1 /\ d.pos = 1

(* Sending a packet that is sound and continues the frame where the        *)
(* sendFrame in progress is, which then moves past it.                     *)
LEMMA PacketStep ==
    ASSUME SInv, NEW t \in Threads, UnitLeft(t),
           NEW fu \in FuKinds, NEW from \in Nat, NEW bytes \in Nat, NEW payload \in Nat,
           NEW d \in Activation, PartSent(t, fu, from, bytes, payload, d)
    PROVE  Streams' /\ TrueCounts' /\ Frontier'
<1> SUFFICES ASSUME
        SendRtpPacket(t, fu, from, bytes, payload),
        UNCHANGED <<tcpSock, conn, basePts, sendMutex, frames>>,
        SoundPacket(Packet(t, fu, from, bytes, payload)),
        fu \in {"middle", "end"} <=> call[t].pos > 1,
        call[t].pos > 1 => from = call[t].pos,
        call' = [call EXCEPT ![t] = d],
        d.fid = call[t].fid, d.pts = call[t].pts, d.nalus = call[t].nalus,
        fu \in {"start", "middle"} =>
            d.unit = call[t].unit /\ d.pos = from + bytes /\ d.pos > 1,
        fu \in {"whole", "end"} => d.unit = call[t].unit + 1 /\ d.pos = 1
     PROVE  Streams' /\ TrueCounts' /\ Frontier'
  BY DEF PartSent
<1> DEFINE c == call[t]
           q == Packet(t, fu, from, bytes, payload)
<1>0. TInv /\ TypeOK /\ OneActivity /\ Streams /\ TrueCounts /\ Frontier
  BY DEF SInv, TInv
<1>1. /\ q.kind = "RTP" /\ q.seq = rtpSeq /\ q.ts = FrameTime(t) /\ q.fu = fu
      /\ q.payload = payload /\ q.fid = c.fid /\ q.unit = c.unit /\ q.from = from
      /\ q.bytes = bytes /\ (q.last <=> c.unit = Len(c.nalus))
      /\ q.npkts = sentPkts /\ q.noctets = sentOctets
  BY DEF Packet
<1>2. /\ Transmit(q) /\ rtpSeq' = (rtpSeq + 1) % SeqMod
      /\ pktCount' = (pktCount + 1) % CountMod
      /\ octetCount' = (octetCount + payload) % CountMod
      /\ sentPkts' = sentPkts + 1 /\ sentOctets' = sentOctets + payload
  BY DEF SendRtpPacket, NextSeq, NextPktCount, NextOctetCount
<1>3. SoundPacket(q)
  OBVIOUS
<1> HIDE DEF q
<1>4. /\ c \in Activation /\ CallSound(c) /\ c.unit \in 1..Len(c.nalus)
      /\ c.unit \in Nat /\ c.pos \in Nat /\ c.pos >= 1 /\ c.nalus \in Seq(Nat)
      /\ c.fid \in Nat /\ Active(t) /\ sendMutex = t /\ sendMutex # NoThread
      /\ c.fid = frames
  BY <1>0, UnitLeftSound, ActivationFields, SessionAssumption
  DEF CallSound, OneActivity, UnitLeft
<1>5. TrueCounts'
  <2>1. sentPkts \in Nat /\ sentOctets \in Nat /\ 1 \in Nat
    BY <1>0 DEF TypeOK
  <2>2. SeqMod \in Nat \ {0} /\ CountMod \in Nat \ {0}
    BY SessionAssumption
  <2>3. ((sentPkts % SeqMod) + 1) % SeqMod = (sentPkts + 1) % SeqMod
    BY <2>1, <2>2, ModPlus, ZenonT(60)
  <2>4. ((sentPkts % CountMod) + 1) % CountMod = (sentPkts + 1) % CountMod
    BY <2>1, <2>2, ModPlus, ZenonT(60)
  <2>5. ((sentOctets % CountMod) + payload) % CountMod
          = (sentOctets + payload) % CountMod
    BY <2>1, <2>2, ModPlus, ZenonT(60)
  <2> QED
    BY <1>0, <1>2, <2>3, <2>4, <2>5 DEF TrueCounts
<1>6. ItemSound(q)
  BY <1>0, <1>1, <1>3 DEF ItemSound, Numbered, TrueCounts
<1>7. c.pos = 1 /\ c.unit = 1 => Opens(q)
  BY <1>1 DEF Opens, Resumes
<1>8. Connected /\ wire[tcpSock] = <<>> => Opens(q)
  BY <1>0, <1>4, <1>7 DEF Frontier
<1>9. Connected /\ wire[tcpSock] # <<>> => Follows(LastItem, q)
  <2> SUFFICES ASSUME Connected, wire[tcpSock] # <<>>
               PROVE  Follows(LastItem, q)
    OBVIOUS
  <2> DEFINE p == LastItem
  <2>1. /\ Counted(p)
        /\ AtFrameStart(c, p) \/ AfterPacket(c, FrameTime(t), p)
    BY <1>0, <1>4 DEF Frontier
  <2> HIDE DEF p
  <2>2. NextNumber(p, q)
    BY <1>1, <2>1 DEF NextNumber, Counted
  <2>3. CASE AtFrameStart(c, p)
    <3>1. NextFragment(p, q)
      BY <1>1, <2>3 DEF NextFragment, AtFrameStart, Closes, InFragments, Resumes
    <3>2. NextInFrames(p, q)
      BY <1>1, <1>7, <2>3 DEF NextInFrames, AtFrameStart
    <3> QED
      BY <2>2, <3>1, <3>2 DEF Follows, p
  <2>4. CASE AfterPacket(c, FrameTime(t), p)
    <3>1. NextFragment(p, q)
      BY <1>1, <1>4, <2>4 DEF NextFragment, AfterPacket, InFragments, Resumes
    <3>2. ~Closes(p)
      <4>1. CASE c.pos > 1
        BY <2>4, <4>1 DEF AfterPacket, Closes
      <4>2. CASE c.pos = 1
        <5>1. p.unit # Len(c.nalus)
          BY <1>4, <2>4, <4>2 DEF AfterPacket
        <5> QED
          BY <2>4, <5>1 DEF AfterPacket, Closes
      <4> QED
        BY <1>4, <4>1, <4>2
    <3>3. q.unit = IF InFragments(p) THEN p.unit ELSE p.unit + 1
      BY <1>1, <1>4, <2>4 DEF AfterPacket
    <3>4. NextInFrames(p, q)
      BY <1>1, <2>4, <3>2, <3>3 DEF NextInFrames, AfterPacket
    <3> QED
      BY <2>2, <3>1, <3>4 DEF Follows, p
  <2> QED
    BY <2>1, <2>3, <2>4
<1>10. Streams'
  BY <1>0, <1>2, <1>6, <1>8, <1>9, SendKeepsStreams
<1>11. Frontier'
  <2>1. /\ Connected' = Connected
        /\ Connected => wire'[tcpSock] # <<>> /\ LastItem' = q
    BY <1>0, <1>2, AfterTransmit
  <2>2. call'[t] = d /\ \A u \in Threads : Active(u)' => u = t
    BY <1>0, <1>4 DEF Active, OneActivity, TypeOK
  <2>3. sentPkts' = q.npkts + 1 /\ sentOctets' = q.noctets + q.payload
    BY <1>1, <1>2
  <2>4. FrameTime(t)' = FrameTime(t)
    BY <2>2 DEF FrameTime
  <2>5. AfterPacket(d, FrameTime(t), q)
    <3>1. CASE fu \in {"start", "middle"}
      <4>1. d.unit = c.unit /\ d.pos = from + bytes /\ d.pos > 1 /\ d.nalus = c.nalus
        BY <3>1
      <4>2. InFragments(q)
        BY <1>1, <3>1 DEF InFragments
      <4> QED
        BY <1>1, <4>1, <4>2 DEF AfterPacket
    <3>2. CASE fu \in {"whole", "end"}
      <4>0. d.unit = c.unit + 1 /\ d.pos = 1 /\ d.nalus = c.nalus
        BY <3>2
      <4>1. c.unit = d.unit - 1
        BY <1>4, <4>0
      <4>2. ~InFragments(q)
        BY <1>1, <3>2 DEF InFragments
      <4> QED
        BY <1>1, <4>0, <4>1, <4>2 DEF AfterPacket
    <3> QED
      BY <3>1, <3>2 DEF FuKinds
  <2>6. Connected' => Counted(LastItem)' /\ LastItem'.fid <= frames'
    BY <1>1, <1>4, <2>1, <2>3 DEF Counted
  <2>7. \A u \in Threads : Connected' /\ Active(u)' =>
            AfterPacket(call'[u], FrameTime(u)', LastItem')
    BY <2>1, <2>2, <2>4, <2>5
  <2>8. sendMutex' # NoThread
    BY <1>4
  <2> QED
    BY <2>1, <2>6, <2>7, <2>8 DEF Frontier
<1> QED
  BY <1>5, <1>10, <1>11

LEMMA WholePart ==
    ASSUME TInv, NEW t \in Threads, SendWhole(t)
    PROVE  \E fu \in FuKinds, from, bytes, payload \in Nat, d \in Activation :
               PartSent(t, fu, from, bytes, payload, d)
<1> DEFINE c == call[t]
           size == UnitSize(t)
           d == At(c, c.unit + 1, 1)
<1>1. UnitLeft(t) /\ FitsOnePacket(size)
  BY DEF SendWhole
<1>2. /\ c \in Activation /\ c.unit \in Nat /\ c.unit + 1 \in Nat /\ size \in Nat
      /\ size = c.nalus[c.unit] /\ c.pos = 1
  BY <1>1, UnitLeftSound, ActivationFields
<1>3. /\ SendRtpPacket(t, "whole", 0, size, size)
      /\ UNCHANGED <<tcpSock, conn, basePts, sendMutex, frames>>
      /\ call' = [call EXCEPT ![t] = d]
  BY DEF SendWhole
<1>4. /\ d \in Activation /\ d.unit = c.unit + 1 /\ d.pos = 1
      /\ d.fid = c.fid /\ d.pts = c.pts /\ d.nalus = c.nalus
  BY <1>2, AtNextUnit
<1>5. SoundPacket(Packet(t, "whole", 0, size, size))
  BY <1>1, <1>2, WholeSound DEF Packet
<1>6. /\ "whole" \in FuKinds /\ 0 \in Nat
      /\ ("whole" \in {"middle", "end"} <=> c.pos > 1)
      /\ (c.pos > 1 => 0 = c.pos)
      /\ "whole" \notin {"start", "middle"}
  BY <1>2 DEF FuKinds
<1> HIDE DEF d, size
<1>7. PartSent(t, "whole", 0, size, size, d)
  BY <1>2, <1>3, <1>4, <1>5, <1>6 DEF PartSent
<1> QED
  BY <1>2, <1>4, <1>6, <1>7

LEMMA FragmentPart ==
    ASSUME TInv, NEW t \in Threads, SendFragment(t)
    PROVE  \E fu \in FuKinds, from, bytes, payload \in Nat, d \in Activation :
               PartSent(t, fu, from, bytes, payload, d)
<1> DEFINE c    == call[t]
           size == UnitSize(t)
           pos  == c.pos
           len  == PayloadLen(size, pos)
           fu   == FuHeader(size, pos)
           d    == IF pos + len < size THEN At(c, c.unit, pos + len)
                   ELSE At(c, c.unit + 1, 1)
<1>1. UnitLeft(t) /\ ~FitsOnePacket(size)
  BY DEF SendFragment
<1>2. /\ c \in Activation /\ c.unit \in Nat /\ c.unit + 1 \in Nat /\ size \in Nat
      /\ size = c.nalus[c.unit] /\ pos \in Nat /\ pos >= 1 /\ pos < size
  BY <1>1, UnitLeftSound, ActivationFields DEF CallSound
<1>3. /\ SendRtpPacket(t, fu, pos, len, len + FuPrefix)
      /\ UNCHANGED <<tcpSock, conn, basePts, sendMutex, frames>>
      /\ call' = [call EXCEPT ![t] = d]
  BY DEF SendFragment
<1>4. /\ len \in Nat /\ len >= 1 /\ len + FuPrefix \in Nat /\ pos + len <= size
      /\ pos + len \in Nat /\ pos + len > 1
  <2>1. len \in Nat /\ len >= 1 /\ pos + len <= size
    BY <1>2, FragmentInside
  <2> HIDE DEF len
  <2> QED
    BY <1>2, <2>1 DEF FuPrefix
<1>5. /\ fu \in FuKinds
      /\ fu \in {"middle", "end"} <=> pos > 1
      /\ fu # "whole"
      /\ pos > 1 => (fu = "end" <=> size - pos - len = 0)
  BY <1>2 DEF FuHeader, FuKinds
<1>6. pos = 1 => pos + len < size
  BY <1>1, <1>2, MtuAssumption DEF PayloadLen, FuPrefix, FitsOnePacket
<1>7. SoundPacket(Packet(t, fu, pos, len, len + FuPrefix))
  BY <1>1, <1>2, FragmentSound DEF Packet
<1> HIDE DEF len, fu, size
<1>8. fu \in {"start", "middle"} <=> pos + len < size
  BY <1>2, <1>4, <1>5, <1>6 DEF FuKinds
<1>9. /\ d \in Activation
      /\ d.fid = c.fid /\ d.pts = c.pts /\ d.nalus = c.nalus
      /\ pos + len < size => d.unit = c.unit /\ d.pos = pos + len
      /\ ~(pos + len < size) => d.unit = c.unit + 1 /\ d.pos = 1
  <2>1. CASE pos + len < size
    <3>1. d = At(c, c.unit, pos + len)
      BY <2>1
    <3> QED
      BY <1>2, <1>4, <2>1, <3>1, AtFragment
  <2>2. CASE ~(pos + len < size)
    <3>1. d = At(c, c.unit + 1, 1)
      BY <2>2
    <3> QED
      BY <1>2, <2>2, <3>1, AtNextUnit
  <2> QED
    BY <2>1, <2>2
<1>10. /\ fu \in {"start", "middle"} => /\ d.unit = c.unit
                                        /\ d.pos = pos + len /\ d.pos > 1
       /\ fu \in {"whole", "end"} => d.unit = c.unit + 1 /\ d.pos = 1
  BY <1>4, <1>5, <1>8, <1>9 DEF FuKinds
<1> DEFINE payload == len + FuPrefix
<1>11. /\ payload \in Nat
       /\ SendRtpPacket(t, fu, pos, len, payload)
       /\ SoundPacket(Packet(t, fu, pos, len, payload))
  BY <1>3, <1>4, <1>7
<1> HIDE DEF d, payload
<1>12. /\ fu \in FuKinds
       /\ fu \in {"middle", "end"} <=> call[t].pos > 1
       /\ call[t].pos > 1 => pos = call[t].pos
       /\ len \in Nat /\ pos \in Nat
  BY <1>2, <1>4, <1>5
<1>13. /\ d \in Activation
       /\ d.fid = call[t].fid /\ d.pts = call[t].pts /\ d.nalus = call[t].nalus
  BY <1>9
<1> QED
  <2>1. PartSent(t, fu, pos, len, payload, d)
    BY <1>3, <1>10, <1>11, <1>12, <1>13 DEF PartSent
  <2> QED
    BY <1>11, <1>12, <1>13, <2>1

LEMMA PartStep ==
    ASSUME SInv, NEW t \in Threads, SendWhole(t) \/ SendFragment(t)
    PROVE  Streams' /\ TrueCounts' /\ Frontier'
<1>1. TInv /\ UnitLeft(t)
  BY DEF SInv, SendWhole, SendFragment
<1>2. PICK fu \in FuKinds, from \in Nat, bytes \in Nat, payload \in Nat, d \in Activation :
        PartSent(t, fu, from, bytes, payload, d)
  BY <1>1, WholePart, FragmentPart
<1> QED
  BY <1>1, <1>2, PacketStep

(* A report closes the frame it follows. *)
LEMMA ReportStep ==
    ASSUME SInv, NEW t \in Threads, FinishWithReport(t)
    PROVE  Streams' /\ TrueCounts' /\ Frontier'
<1> DEFINE c == call[t]
           q == Report(t)
<1>0. TInv /\ TypeOK /\ OneActivity /\ Streams /\ TrueCounts /\ Frontier
  BY DEF SInv, TInv
<1>1. /\ q.kind = "SR" /\ q.ts = FrameTime(t) /\ q.fid = c.fid
      /\ q.packets = pktCount /\ q.octets = octetCount
      /\ q.npkts = sentPkts /\ q.noctets = sentOctets
  BY DEF Report
<1>2. /\ Transmit(q) /\ FrameSent(t)
      /\ sendMutex' = NoThread /\ call' = [call EXCEPT ![t] = Idle]
      /\ UNCHANGED <<tcpSock, rtpSeq, pktCount, octetCount, conn, frames,
                     sentPkts, sentOctets>>
  BY DEF FinishWithReport, Unlock, Release, history
<1> HIDE DEF q
<1>3. /\ CallSound(c) /\ c \in Activation /\ c.unit > Len(c.nalus)
      /\ c.nalus \in Seq(Nat) /\ c.unit \in Nat /\ c.pos \in Nat
      /\ Active(t) /\ c.fid = frames /\ frames \in Nat
  BY <1>0, <1>2, ActivationFields DEF FrameSent, OneActivity, TypeOK
<1>4. c.pos = 1 /\ c.unit = Len(c.nalus) + 1
  BY <1>3 DEF CallSound
<1>5. Opens(q) /\ ~Resumes(q) /\ ~InFragments(q) /\ Closes(q)
  BY <1>1 DEF Opens, Resumes, InFragments, Closes
<1>6. ItemSound(q)
  BY <1>0, <1>1 DEF ItemSound, Numbered, TrueCounts
<1>7. Connected /\ wire[tcpSock] # <<>> => Follows(LastItem, q)
  <2> SUFFICES ASSUME Connected, wire[tcpSock] # <<>>
               PROVE  Follows(LastItem, q)
    OBVIOUS
  <2> DEFINE p == LastItem
  <2>1. /\ Counted(p)
        /\ AtFrameStart(c, p) \/ AfterPacket(c, FrameTime(t), p)
    BY <1>0, <1>3 DEF Frontier
  <2> HIDE DEF p
  <2>2. NextNumber(p, q)
    BY <1>1, <2>1 DEF NextNumber, Counted
  <2>3. CASE AtFrameStart(c, p)
    <3>1. NextFragment(p, q)
      BY <1>5, <2>3 DEF NextFragment, AtFrameStart, Closes, InFragments
    <3>2. NextInFrames(p, q)
      BY <1>1, <1>5, <2>3 DEF NextInFrames, AtFrameStart
    <3> QED
      BY <2>2, <3>1, <3>2 DEF Follows, p
  <2>4. CASE AfterPacket(c, FrameTime(t), p)
    <3>1. p.last /\ ~InFragments(p)
      <4>1. p.unit = c.unit - 1 /\ ~InFragments(p)
        BY <1>4, <2>4 DEF AfterPacket
      <4>2. p.unit = Len(c.nalus)
        BY <1>3, <1>4, <4>1
      <4> QED
        BY <2>4, <4>1, <4>2 DEF AfterPacket
    <3>2. NextFragment(p, q)
      BY <1>5, <3>1 DEF NextFragment
    <3>3. NextInFrames(p, q)
      BY <1>1, <2>4, <3>1 DEF NextInFrames, AfterPacket, Closes
    <3> QED
      BY <2>2, <3>2, <3>3 DEF Follows, p
  <2> QED
    BY <2>1, <2>3, <2>4
<1>8. Streams'
  BY <1>0, <1>2, <1>5, <1>6, <1>7, SendKeepsStreams
<1>9. TrueCounts'
  BY <1>0, <1>2 DEF TrueCounts
<1>10. Frontier'
  <2>1. /\ Connected' = Connected
        /\ Connected => wire'[tcpSock] # <<>> /\ LastItem' = q
    BY <1>0, <1>2, AfterTransmit
  <2>2. \A u \in Threads : ~Active(u)'
    BY <1>0, <1>2, <1>3 DEF Active, OneActivity, TypeOK
  <2>3. Connected' => /\ Counted(LastItem)' /\ LastItem'.fid <= frames'
                      /\ Closes(LastItem)'
    BY <1>1, <1>2, <1>3, <1>5, <2>1 DEF Counted, Closes, InFragments
  <2> QED
    BY <1>2, <2>1, <2>2, <2>3 DEF Frontier
<1> QED
  BY <1>8, <1>9, <1>10

LEMMA FinishStep ==
    ASSUME SInv, NEW t \in Threads, Finish(t)
    PROVE  Streams' /\ TrueCounts' /\ Frontier'
<1> DEFINE c == call[t]
<1>0. TInv /\ TypeOK /\ OneActivity /\ Streams /\ TrueCounts /\ Frontier
  BY DEF SInv, TInv
<1>1. /\ FrameSent(t)
      /\ sendMutex' = NoThread /\ call' = [call EXCEPT ![t] = Idle]
      /\ UNCHANGED <<tcpSock, rtpSeq, pktCount, octetCount, conn, wire, frames,
                     sentPkts, sentOctets>>
  BY DEF Finish, Unlock, Release, history
<1>2. /\ CallSound(c) /\ c \in Activation /\ c.unit > Len(c.nalus)
      /\ c.nalus \in Seq(Nat) /\ c.unit \in Nat /\ c.pos \in Nat /\ Active(t)
  BY <1>0, <1>1, ActivationFields DEF FrameSent, OneActivity, TypeOK
<1>3. c.pos = 1 /\ c.unit = Len(c.nalus) + 1
  BY <1>2 DEF CallSound
<1>4. \A u \in Threads : ~Active(u)'
  BY <1>0, <1>1, <1>2 DEF Active, OneActivity, TypeOK
<1>5. Connected' = Connected /\ LastItem' = LastItem
  BY <1>1 DEF Connected, LastItem
<1>6. Connected /\ wire[tcpSock] # <<>> => Closes(LastItem)
  <2> SUFFICES ASSUME Connected, wire[tcpSock] # <<>>
               PROVE  Closes(LastItem)
    OBVIOUS
  <2>1. CASE AtFrameStart(c, LastItem)
    BY <2>1 DEF AtFrameStart
  <2>2. CASE AfterPacket(c, FrameTime(t), LastItem)
    <3>1. LastItem.unit = Len(c.nalus) /\ ~InFragments(LastItem)
      BY <1>2, <1>3, <2>2 DEF AfterPacket
    <3> QED
      BY <2>2, <3>1 DEF AfterPacket, Closes
  <2> QED
    BY <1>0, <1>2, <2>1, <2>2 DEF Frontier
<1>7. Connected /\ wire[tcpSock] # <<>> => Counted(LastItem)' /\ LastItem'.fid <= frames'
  BY <1>0, <1>1, <1>5 DEF Frontier, Counted
<1>8. Frontier'
  BY <1>1, <1>4, <1>5, <1>6, <1>7 DEF Frontier, Closes, InFragments
<1> QED
  BY <1>0, <1>1, <1>8 DEF Streams, TrueCounts

(* A new frame finds the stream between two frames.                        *)
LEMMA SendFrameStep ==
    ASSUME SInv, NEW t \in Threads, NEW f \in Frames, SendFrame(t, f)
    PROVE  Streams' /\ TrueCounts' /\ Frontier'
<1>0. TypeOK /\ OneActivity /\ Streams /\ TrueCounts /\ Frontier
  BY DEF SInv, TInv
<1>1. /\ sendMutex = NoThread /\ sendMutex' = t /\ frames' = frames + 1
      /\ UNCHANGED <<tcpSock, rtpSeq, pktCount, octetCount, conn, wire,
                     sentPkts, sentOctets>>
  BY DEF SendFrame, EnterFrame, MayEnter
<1>2. \A u \in Threads : ~Active(u)
  BY <1>0, <1>1, SessionAssumption DEF OneActivity
<1>3. /\ call'[t].unit = 1 /\ call'[t].pos = 1 /\ call'[t].fid = frames + 1
      /\ \A u \in Threads : u # t => call'[u] = call[u]
  BY <1>0 DEF SendFrame, EnterFrame, TypeOK
<1>4. \A u \in Threads : Active(u)' => u = t
  BY <1>2, <1>3 DEF Active
<1>5. Connected' = Connected /\ LastItem' = LastItem
  BY <1>1 DEF Connected, LastItem
<1>6. Connected /\ wire[tcpSock] # <<>> =>
          /\ Counted(LastItem)'
          /\ LastItem'.fid < frames' /\ LastItem'.fid <= frames'
          /\ Closes(LastItem')
  <2> SUFFICES ASSUME Connected, wire[tcpSock] # <<>>
               PROVE  /\ Counted(LastItem)'
                      /\ LastItem'.fid < frames' /\ LastItem'.fid <= frames'
                      /\ Closes(LastItem')
    OBVIOUS
  <2>1. Counted(LastItem) /\ LastItem.fid <= frames /\ Closes(LastItem)
    BY <1>0, <1>1 DEF Frontier
  <2>2. tcpSock \in Socks /\ wire[tcpSock] \in Seq(Item)
    BY <1>0 DEF Connected, TypeOK, Item
  <2>3. LastItem \in Item
    BY <2>2 DEF LastItem
  <2>4. LastItem.fid \in Nat /\ frames \in Nat
    BY <1>0, <2>3 DEF Item, RtpItem, SrItem, TypeOK
  <2> QED
    BY <1>1, <1>5, <2>1, <2>4 DEF Counted
<1>7. Frontier'
  <2>1. sendMutex' # NoThread
    BY <1>1, SessionAssumption
  <2>2. wire'[tcpSock'] = wire[tcpSock]
    BY <1>1
  <2>3. Connected /\ wire[tcpSock] # <<>> =>
            \A u \in Threads : Active(u)' => AtFrameStart(call'[u], LastItem')
    BY <1>1, <1>3, <1>4, <1>6 DEF AtFrameStart
  <2> QED
    BY <1>3, <1>4, <1>5, <1>6, <2>1, <2>2, <2>3 DEF Frontier
<1> QED
  BY <1>0, <1>1, <1>7 DEF Streams, TrueCounts

(* Opening, closing and losing a socket leave the streams as they are.     *)
SameWires == UNCHANGED <<wire, call, sendMutex, basePts, rtpSeq, pktCount,
                         octetCount, frames, sentPkts, sentOctets>>

LEMMA SocketStep ==
    ASSUME SInv, SameWires, Connected' => Connected /\ tcpSock' = tcpSock
    PROVE  Streams' /\ TrueCounts' /\ Frontier'
<1>0. Streams /\ TrueCounts /\ Frontier
  BY DEF SInv
<1>1. Streams' /\ TrueCounts'
  BY <1>0 DEF Streams, TrueCounts, SameWires
<1>2. ASSUME Connected'
      PROVE  Frontier'
  <2>1. /\ Connected /\ tcpSock' = tcpSock /\ wire' = wire
        /\ LastItem' = LastItem /\ sendMutex' = sendMutex /\ frames' = frames
        /\ call' = call
    BY <1>2 DEF LastItem, SameWires
  <2>2. \A t \in Threads : /\ Active(t)' <=> Active(t)
                           /\ FrameTime(t)' = FrameTime(t)
    BY DEF Active, FrameTime, SameWires
  <2>3. Counted(LastItem) => Counted(LastItem)'
    BY <2>1 DEF Counted, SameWires
  <2> QED
    BY <1>0, <2>1, <2>2, <2>3 DEF Frontier
<1>3. ASSUME ~Connected'
      PROVE  Frontier'
  BY <1>3 DEF Frontier
<1>4. Connected' \/ ~Connected'
  OBVIOUS
<1>5. Frontier'
  BY <1>2, <1>3, <1>4
<1> QED
  BY <1>1, <1>5

(* A socket that comes up carries nothing yet, and no frame is under way.  *)
LEMMA FreshSocketStep ==
    ASSUME SInv, SameWires, \A t \in Threads : ~Active(t), wire[tcpSock'] = <<>>
    PROVE  Streams' /\ TrueCounts' /\ Frontier'
<1>1. Streams' /\ TrueCounts'
  BY DEF SInv, Streams, TrueCounts, SameWires
<1>2. wire'[tcpSock'] = <<>> /\ \A t \in Threads : ~Active(t)'
  BY DEF Active, SameWires
<1>3. Frontier'
  BY <1>2 DEF Frontier
<1> QED
  BY <1>1, <1>3

LEMMA NextSInv == SInv /\ [Next]_vars => SInv'
<1> SUFFICES ASSUME SInv, [Next]_vars
             PROVE  Streams' /\ TrueCounts' /\ Frontier'
  BY NextTInv DEF SInv
<1>0. TypeOK /\ OneActivity
  BY DEF SInv, TInv
<1>1. CASE Start
  <2>1. Connected' = Connected /\ tcpSock' = tcpSock
    BY <1>1 DEF Start, StartUp, Connected
  <2> QED
    BY <1>1, <2>1, SocketStep DEF Start, StartUp, SameWires, history
<1>2. CASE CreateSocket
  <2>1. ~Connected'
    <3>1. CASE tcpSock' = NoSock
      BY <3>1 DEF Connected
    <3>2. ASSUME NEW s \in Socks, tcpSock' = s,
                 conn' = [conn EXCEPT ![s] = "opening"]
          PROVE  ~Connected'
      BY <1>0, <3>2 DEF Connected, TypeOK
    <3> QED
      BY <1>2, <3>1, <3>2 DEF CreateSocket
  <2> QED
    BY <1>2, <2>1, SocketStep DEF CreateSocket, SameWires, history
<1>3. CASE Connect
  <2>1. wire[tcpSock] = <<>> /\ \A t \in Threads : ~Active(t)
    BY <1>0, <1>3, SessionAssumption DEF Connect, OneActivity
  <2>2. tcpSock' = tcpSock \/ ~Connected'
    BY <1>3 DEF Connect, Connected
  <2> QED
    <3>1. SameWires
      BY <1>3 DEF Connect, SameWires, history
    <3> QED
      BY <2>1, <2>2, <3>1, SocketStep, FreshSocketStep
<1>4. CASE Stop
  <2>1. ~Connected'
    BY <1>4 DEF Stop, CloseSocket, Connected
  <2> QED
    BY <1>4, <2>1, SocketStep DEF Stop, CloseSocket, SameWires, history
<1>5. ASSUME NEW s \in Socks, PeerGone(s)
      PROVE  Streams' /\ TrueCounts' /\ Frontier'
  <2>1. Connected' => Connected /\ tcpSock' = tcpSock
    BY <1>0, <1>5 DEF PeerGone, Connected, TypeOK, object
  <2> QED
    BY <1>5, <2>1, SocketStep DEF PeerGone, SameWires, object, history
<1>6. ASSUME NEW t \in Threads, NEW f \in Frames, SendFrame(t, f)
      PROVE  Streams' /\ TrueCounts' /\ Frontier'
  BY <1>6, SendFrameStep
<1>7. CASE UNCHANGED vars
  <2>1. Connected' = Connected /\ tcpSock' = tcpSock
    BY <1>7 DEF vars, object, Connected
  <2> QED
    BY <1>7, <2>1, SocketStep DEF vars, SameWires, object, history
<1>8. ASSUME NEW t \in Threads, Working(t)
      PROVE  Streams' /\ TrueCounts' /\ Frontier'
  <2>1. CASE Sigpipe(t)
    <3>1. Connected' = Connected /\ tcpSock' = tcpSock
      BY <2>1 DEF Sigpipe, object, Connected
    <3> QED
      BY <2>1, <3>1, SocketStep DEF Sigpipe, SameWires, object, history
  <2> QED
    BY <1>8, <2>1, PartStep, ReportStep, FinishStep DEF Working
<1>9. CASE Rest
  BY <1>7, <1>9 DEF Rest
<1> QED
  BY <1>1, <1>2, <1>3, <1>4, <1>5, <1>6, <1>7, <1>8, <1>9 DEF Next

LEMMA InitSInv == Init => SInv
<1> SUFFICES ASSUME Init
             PROVE  Streams /\ TrueCounts /\ Frontier
  BY InitTInv DEF SInv
<1>1. Streams
  BY DEF Init, Streams
<1>2. TrueCounts
  <2>1. 0 % SeqMod = 0 /\ 0 % CountMod = 0
    BY SessionAssumption
  <2> QED
    BY <2>1 DEF Init, TrueCounts
<1>3. Frontier
  BY DEF Init, Frontier, Connected
<1> QED
  BY <1>1, <1>2, <1>3

THEOREM StreamInvariance == Spec => []SInv
BY InitSInv, NextSInv, PTL DEF Spec
-----------------------------------------------------------------------------
(* The fragments of a unit follow each other on every connection, complete *)
(* and uninterrupted (packetizeAndSendNalu under sendMutex_).              *)
THEOREM Reassembly == Spec => []FragmentsReassemble
<1>1. SInv => FragmentsReassemble
  BY DEF SInv, Streams, FragmentsReassemble, Adjacent, Follows, Opens, Resumes
<1> QED
  BY StreamInvariance, <1>1, PTL

(* Every packet says truthfully which part of its unit it carries.         *)
THEOREM Packets == Spec => []PacketsSound
<1>1. SInv => PacketsSound
  BY DEF SInv, Streams, PacketsSound, ItemSound
<1> QED
  BY StreamInvariance, <1>1, PTL

(* Frames are sent whole, one after the other, in the order of their calls *)
(* (sendFrame under sendMutex_).                                           *)
THEOREM Contiguity == Spec => []FramesContiguous
<1>1. SInv => FramesContiguous
  BY DEF SInv, Streams, FramesContiguous, Adjacent, Follows
<1> QED
  BY StreamInvariance, <1>1, PTL

(* Sequence numbers and the counts of the reports agree with what was sent *)
(* (sendRtpPacket, sendRtcpSr).                                            *)
THEOREM Counts == Spec => []CountersMatchWire
<1>1. SInv => CountersMatchWire
  BY DEF SInv, Streams, CountersMatchWire, Adjacent, Follows, ItemSound
<1> QED
  BY StreamInvariance, <1>1, PTL
-----------------------------------------------------------------------------
(* What all the items of a connection have in common with the object: its  *)
(* SSRC, once start is over, and reports no later than lastRtcpPts_.       *)
Items == {wire[tcpSock][i] : i \in 1..Len(wire[tcpSock])}

SsrcInv ==
    /\ OneSsrcPerConnection
    /\ Connected /\ starting = "no" => \A p \in Items : p.ssrc = rtpSsrc

ReportInv ==
    /\ ReportsSpaced
    /\ Connected => \A p \in Items : p.kind = "SR" => p.pts <= lastRtcpPts

PInv == TInv /\ SsrcInv /\ ReportInv

LEMMA ItemsAppend ==
    ASSUME TypeOK, NEW q, Transmit(q), UNCHANGED <<tcpSock, conn>>
    PROVE  Connected => Items' = Items \cup {q}
<1> SUFFICES ASSUME Connected
             PROVE  Items' = Items \cup {q}
  OBVIOUS
<1> DEFINE w == wire[tcpSock]
           v == wire'[tcpSock]
<1>1. v = Append(w, q)
  BY AfterTransmit
<1>2. w \in Seq(Item)
  BY DEF Connected, TypeOK, Item
<1>3. Items = {w[i] : i \in 1..Len(w)} /\ Items' = {v[i] : i \in 1..Len(v)}
  BY DEF Items
<1> HIDE DEF w, v
<1>4. /\ Len(v) = Len(w) + 1 /\ Len(w) \in Nat
      /\ \A i \in 1..Len(w) : v[i] = w[i]
      /\ v[Len(w) + 1] = q
  BY <1>1, <1>2
<1> QED
  BY <1>3, <1>4

(* An item with the SSRC of the object, and no earlier report than a       *)
(* second after the last one, keeps the pairs of items right.              *)
LEMMA SendKeepsPairs ==
    ASSUME PInv, NEW q \in Item, Transmit(q), UNCHANGED <<tcpSock, conn>>,
           starting = "no", q.ssrc = rtpSsrc,
           q.kind = "SR" => q.pts >= lastRtcpPts + SECOND
    PROVE  OneSsrcPerConnection' /\ ReportsSpaced'
<1>0. TypeOK /\ OneSsrcPerConnection /\ ReportsSpaced /\ SsrcInv /\ ReportInv
  BY DEF PInv, TInv, SsrcInv, ReportInv
<1> SUFFICES ASSUME NEW s \in Socks, NEW i \in 1..Len(wire'[s]),
                    NEW j \in 1..Len(wire'[s])
             PROVE  /\ wire'[s][i].ssrc = wire'[s][j].ssrc
                    /\ i < j /\ wire'[s][i].kind = "SR" /\ wire'[s][j].kind = "SR"
                         => wire'[s][j].pts - wire'[s][i].pts >= SECOND
  BY DEF OneSsrcPerConnection, ReportsSpaced
<1>1. CASE Connected /\ s = tcpSock
  <2> DEFINE w == wire[s]
             v == wire'[s]
  <2>1. v = Append(w, q) /\ w \in Seq(Item)
    BY <1>0, <1>1, AfterTransmit DEF TypeOK, Item
  <2>2. /\ \A k \in 1..Len(w) : w[k].ssrc = rtpSsrc
        /\ \A k \in 1..Len(w) : w[k].kind = "SR" => w[k].pts <= lastRtcpPts
        /\ \A k, l \in 1..Len(w) : k < l /\ w[k].kind = "SR" /\ w[l].kind = "SR"
                                 => w[l].pts - w[k].pts >= SECOND
    BY <1>0, <1>1 DEF SsrcInv, ReportInv, ReportsSpaced, Items
  <2>3. i \in 1..Len(v) /\ j \in 1..Len(v)
    OBVIOUS
  <2> HIDE DEF w, v
  <2>4. /\ Len(v) = Len(w) + 1 /\ Len(w) \in Nat
        /\ \A k \in 1..Len(w) : v[k] = w[k] /\ w[k] \in Item
        /\ v[Len(w) + 1] = q
    BY <2>1
  <2>5. \A k \in 1..Len(v) : v[k].ssrc = rtpSsrc
    BY <2>2, <2>4
  <2>6. ASSUME i < j, v[i].kind = "SR", v[j].kind = "SR"
        PROVE  v[j].pts - v[i].pts >= SECOND
    <3>1. i \in 1..Len(w) /\ v[i] = w[i]
      BY <2>3, <2>4, <2>6
    <3>2. CASE j \in 1..Len(w)
      BY <2>2, <2>4, <2>6, <3>1, <3>2
    <3>3. CASE j = Len(w) + 1
      <4>1. v[j] = q /\ q.pts >= lastRtcpPts + SECOND /\ w[i].pts <= lastRtcpPts
        BY <2>2, <2>4, <2>6, <3>1, <3>3
      <4>2. w[i].pts \in Nat /\ q.pts \in Nat
        BY <2>4, <3>1 DEF Item, RtpItem, SrItem
      <4>3. SECOND \in Nat /\ lastRtcpPts \in Nat
        BY <1>0, ClockAssumption DEF TypeOK
      <4> QED
        BY <3>1, <4>1, <4>2, <4>3
    <3> QED
      BY <2>3, <2>4, <3>2, <3>3
  <2> QED
    BY <2>3, <2>5, <2>6 DEF v
<1>2. CASE ~(Connected /\ s = tcpSock)
  <2>1. wire'[s] = wire[s]
    BY <1>0, <1>2, AfterTransmit
  <2> QED
    BY <1>0, <2>1 DEF OneSsrcPerConnection, ReportsSpaced
<1> QED
  BY <1>1, <1>2

(* The steps that leave the wires alone. *)
LEMMA SilentPairs ==
    ASSUME PInv, wire' = wire,
           \/ ~Connected'
           \/ wire[tcpSock'] = <<>>
           \/ /\ Connected /\ UNCHANGED <<tcpSock, lastRtcpPts>>
              /\ starting' = "no" => starting = "no" /\ rtpSsrc' = rtpSsrc
    PROVE  SsrcInv' /\ ReportInv'
<1>1. OneSsrcPerConnection' /\ ReportsSpaced'
  BY DEF PInv, SsrcInv, ReportInv, OneSsrcPerConnection, ReportsSpaced
<1>2. CASE ~Connected'
  BY <1>1, <1>2 DEF SsrcInv, ReportInv
<1>3. CASE wire[tcpSock'] = <<>>
  <2>1. Items' = {}
    BY <1>3 DEF Items
  <2> QED
    BY <1>1, <2>1 DEF SsrcInv, ReportInv
<1>4. CASE /\ Connected /\ UNCHANGED <<tcpSock, lastRtcpPts>>
           /\ starting' = "no" => starting = "no" /\ rtpSsrc' = rtpSsrc
  <2>1. Items' = Items
    BY <1>4 DEF Items
  <2> QED
    BY <1>1, <1>4, <2>1 DEF PInv, SsrcInv, ReportInv
<1> QED
  BY <1>2, <1>3, <1>4

(* A packet bears the SSRC of the object; no report is recorded.           *)
LEMMA PacketPairs ==
    ASSUME PInv, NEW t \in Threads, SendWhole(t) \/ SendFragment(t)
    PROVE  SsrcInv' /\ ReportInv'
<1>0. TInv /\ TypeOK /\ OneActivity /\ SsrcInv /\ ReportInv /\ UnitLeft(t)
  BY DEF PInv, TInv, SendWhole, SendFragment
<1>1. PICK fu \in FuKinds, from \in Nat, bytes \in Nat, payload \in Nat :
        SendRtpPacket(t, fu, from, bytes, payload)
  BY <1>0, SendsPacket
<1> DEFINE q == Packet(t, fu, from, bytes, payload)
<1>2. q \in Item /\ q.kind = "RTP" /\ q.ssrc = rtpSsrc
  BY <1>0, PacketType DEF Item, Packet
<1>3. /\ Transmit(q)
      /\ UNCHANGED <<tcpSock, rtpSsrc, lastRtcpPts, starting, conn>>
  BY <1>1 DEF SendRtpPacket, SendWhole, SendFragment
<1>4. starting = "no"
  BY <1>0, SessionAssumption DEF OneActivity, UnitLeft
<1> HIDE DEF q
<1>5. OneSsrcPerConnection' /\ ReportsSpaced'
  BY <1>2, <1>3, <1>4, SendKeepsPairs
<1>6. Connected' = Connected /\ (Connected => Items' = Items \cup {q})
  BY <1>0, <1>3, ItemsAppend DEF Connected
<1> QED
  BY <1>0, <1>2, <1>3, <1>5, <1>6 DEF SsrcInv, ReportInv

(* A report is sent when a second has passed, and becomes the last one.    *)
LEMMA ReportPairs ==
    ASSUME PInv, NEW t \in Threads, FinishWithReport(t)
    PROVE  SsrcInv' /\ ReportInv'
<1> DEFINE q == Report(t)
<1>0. TInv /\ TypeOK /\ OneActivity /\ SsrcInv /\ ReportInv
  BY DEF PInv, TInv
<1>1. /\ Active(t) /\ Transmit(q) /\ lastRtcpPts' = call[t].pts
      /\ call[t].pts - lastRtcpPts >= SECOND
      /\ UNCHANGED <<tcpSock, rtpSsrc, starting, conn>>
  BY DEF FinishWithReport, FrameSent, ReportedAt, ReportDue, Unlock
<1>2. /\ q \in Item /\ q.ssrc = rtpSsrc /\ q.pts = call[t].pts
  BY <1>0, ReportType DEF Item, Report
<1>3. starting = "no"
  BY <1>0, <1>1, SessionAssumption DEF OneActivity
<1>4. SECOND \in Nat /\ lastRtcpPts \in Nat /\ call[t].pts \in Nat
  BY <1>0, ClockAssumption DEF TypeOK, Activation
<1>5. q.pts >= lastRtcpPts + SECOND /\ lastRtcpPts' >= lastRtcpPts
  BY <1>1, <1>2, <1>4
<1> HIDE DEF q
<1>6. OneSsrcPerConnection' /\ ReportsSpaced'
  BY <1>1, <1>2, <1>3, <1>5, SendKeepsPairs
<1>7. Connected' = Connected /\ (Connected => Items' = Items \cup {q})
  BY <1>0, <1>1, ItemsAppend DEF Connected
<1>8. \A p \in Items : Connected => p \in Item
  BY <1>0 DEF Items, Connected, TypeOK, Item
<1>9. Connected => \A p \in Items' : p.kind = "SR" => p.pts <= lastRtcpPts'
  <2> SUFFICES ASSUME Connected, NEW p \in Items', p.kind = "SR"
               PROVE  p.pts <= lastRtcpPts'
    OBVIOUS
  <2>1. CASE p = q
    BY <1>1, <1>2, <1>4, <2>1
  <2>2. CASE p \in Items
    <3>1. p.pts <= lastRtcpPts /\ p.pts \in Nat
      BY <1>0, <1>8, <2>2 DEF ReportInv, Item, RtpItem, SrItem
    <3> QED
      BY <1>1, <1>4, <1>5, <3>1
  <2> QED
    BY <1>7, <2>1, <2>2
<1> QED
  BY <1>0, <1>1, <1>2, <1>6, <1>7, <1>9 DEF SsrcInv, ReportInv

LEMMA NextPInv == PInv /\ [Next]_vars => PInv'
<1> SUFFICES ASSUME PInv, [Next]_vars
             PROVE  SsrcInv' /\ ReportInv'
  BY NextTInv DEF PInv
<1>0. TypeOK /\ OneActivity
  BY DEF PInv, TInv
<1>1. CASE Start
  <2>1. /\ Connected' = Connected /\ wire' = wire
        /\ UNCHANGED <<tcpSock, lastRtcpPts>> /\ starting' # "no"
    BY <1>1 DEF Start, StartUp, Connected
  <2> QED
    BY <2>1, SilentPairs
<1>2. CASE CreateSocket
  <2>1. ~Connected'
    <3>1. CASE tcpSock' = NoSock
      BY <3>1 DEF Connected
    <3>2. ASSUME NEW s \in Socks, tcpSock' = s,
                 conn' = [conn EXCEPT ![s] = "opening"]
          PROVE  ~Connected'
      BY <1>0, <3>2 DEF Connected, TypeOK
    <3> QED
      BY <1>2, <3>1, <3>2 DEF CreateSocket
  <2> QED
    BY <1>2, <2>1, SilentPairs DEF CreateSocket
<1>3. CASE Connect
  <2>1. wire[tcpSock] = <<>> /\ wire' = wire
    BY <1>0, <1>3 DEF Connect, OneActivity
  <2>2. tcpSock' = tcpSock \/ ~Connected'
    BY <1>3 DEF Connect, Connected
  <2> QED
    BY <2>1, <2>2, SilentPairs
<1>4. CASE Stop
  <2>1. ~Connected' /\ wire' = wire
    BY <1>4 DEF Stop, CloseSocket, Connected
  <2> QED
    BY <2>1, SilentPairs
<1>5. ASSUME NEW s \in Socks, PeerGone(s)
      PROVE  SsrcInv' /\ ReportInv'
  <2>1. (Connected' => Connected) /\ wire' = wire
    BY <1>0, <1>5 DEF PeerGone, Connected, TypeOK, object
  <2>2. UNCHANGED <<tcpSock, lastRtcpPts, starting, rtpSsrc>>
    BY <1>5 DEF PeerGone, object
  <2> QED
    BY <2>1, <2>2, SilentPairs
<1>6. ASSUME NEW t \in Threads, NEW f \in Frames, SendFrame(t, f)
      PROVE  SsrcInv' /\ ReportInv'
  <2>1. /\ Connected' = Connected /\ wire' = wire
        /\ UNCHANGED <<tcpSock, lastRtcpPts, starting, rtpSsrc>>
    BY <1>6 DEF SendFrame, EnterFrame, Connected
  <2> QED
    BY <2>1, SilentPairs
<1>7. CASE UNCHANGED vars
  <2>1. /\ Connected' = Connected /\ wire' = wire
        /\ UNCHANGED <<tcpSock, lastRtcpPts, starting, rtpSsrc>>
    BY <1>7 DEF vars, object, Connected
  <2> QED
    BY <2>1, SilentPairs
<1>8. ASSUME NEW t \in Threads, Working(t)
      PROVE  SsrcInv' /\ ReportInv'
  <2>1. CASE Finish(t) \/ Sigpipe(t)
    <3>1. /\ Connected' = Connected /\ wire' = wire
          /\ UNCHANGED <<tcpSock, lastRtcpPts, starting, rtpSsrc>>
      BY <2>1 DEF Finish, Unlock, Sigpipe, object, Connected
    <3> QED
      BY <3>1, SilentPairs
  <2> QED
    BY <1>8, <2>1, PacketPairs, ReportPairs DEF Working
<1>9. CASE Rest
  BY <1>7, <1>9 DEF Rest
<1> QED
  BY <1>1, <1>2, <1>3, <1>4, <1>5, <1>6, <1>7, <1>8, <1>9 DEF Next

LEMMA InitPInv == Init => PInv
<1> SUFFICES ASSUME Init
             PROVE  SsrcInv /\ ReportInv
  BY InitTInv DEF PInv
<1>1. \A s \in Socks : wire[s] = <<>>
  BY DEF Init
<1>2. ~Connected
  BY DEF Init, Connected
<1> QED
  BY <1>1, <1>2 DEF SsrcInv, ReportInv, OneSsrcPerConnection, ReportsSpaced

THEOREM PairInvariance == Spec => []PInv
BY InitPInv, NextPInv, PTL DEF Spec
-----------------------------------------------------------------------------
(* A connection carries a single SSRC, although every start draws another  *)
(* (start, sendRtpPacket, sendRtcpSr).                                     *)
THEOREM OneSsrc == Spec => []OneSsrcPerConnection
<1>1. PInv => OneSsrcPerConnection
  BY DEF PInv, SsrcInv
<1> QED
  BY PairInvariance, <1>1, PTL

(* Any two sender reports of a connection, adjacent or not, are at least a *)
(* second of presentation time apart (the test at the end of sendFrame).   *)
THEOREM Cadence == Spec => []ReportsSpaced
<1>1. PInv => ReportsSpaced
  BY DEF PInv, ReportInv
<1> QED
  BY PairInvariance, <1>1, PTL
-----------------------------------------------------------------------------
(* Every item is timed from the one base the object keeps once it has it.  *)
Timed(p) == basePts \in Nat /\ p.ts = Timestamp(p.pts - basePts)

BaseInv ==
    /\ \A t \in Threads : Active(t) => basePts \in Nat
    /\ \A s \in Socks : \A i \in 1..Len(wire[s]) : Timed(wire[s][i])

TimelineInv == TInv /\ BaseInv

LEMMA PrimedBaseInv ==
    ASSUME \A t \in Threads : call'[t] # Idle => basePts' \in Nat,
           \A s \in Socks : \A i \in 1..Len(wire'[s]) :
               /\ basePts' \in Nat
               /\ wire'[s][i].ts = Timestamp(wire'[s][i].pts - basePts')
    PROVE  BaseInv'
<1>1. (\A t \in Threads : Active(t) => basePts \in Nat)'
  BY DEF Active, Idle
<1>2. (\A s \in Socks : \A i \in 1..Len(wire[s]) : Timed(wire[s][i]))'
  BY DEF Timed, Timestamp, Ticks, TicksOf, ToUint32
<1> QED
  BY <1>1, <1>2 DEF BaseInv

(* The steps that send nothing: a base that is set is kept.                *)
LEMMA SilentBase ==
    ASSUME BaseInv, wire' = wire, basePts \in Nat => basePts' = basePts,
           basePts' \in Nat \/ \A t \in Threads : call'[t] # Idle => Active(t)
    PROVE  BaseInv'
<1>1. \A t \in Threads : call'[t] # Idle => basePts' \in Nat
  BY DEF BaseInv
<1>2. \A s \in Socks : \A i \in 1..Len(wire[s]) : Timed(wire[s][i])
  BY DEF BaseInv
<1>3. ASSUME NEW s \in Socks, NEW i \in 1..Len(wire'[s])
      PROVE  /\ basePts' \in Nat
             /\ wire'[s][i].ts = Timestamp(wire'[s][i].pts - basePts')
  <2>1. Timed(wire[s][i])
    BY <1>2, <1>3
  <2>2. basePts \in Nat /\ basePts' = basePts
    BY <2>1 DEF Timed
  <2> QED
    BY <2>1, <2>2 DEF Timed
<1> QED
  BY <1>1, <1>3, PrimedBaseInv

(* The steps that send an item of the sendFrame in progress.               *)
LEMMA SendBase ==
    ASSUME TimelineInv, NEW t \in Threads, Active(t), NEW q \in Item, Transmit(q),
           q.pts = call[t].pts, q.ts = FrameTime(t),
           UNCHANGED <<tcpSock, conn, basePts>>,
           \A u \in Threads : call'[u] # Idle => Active(u)
    PROVE  BaseInv'
<1>0. TypeOK /\ basePts \in Nat
  BY DEF TimelineInv, TInv, BaseInv
<1>1. Timed(q)
  BY <1>0 DEF Timed, FrameTime
<1>2. ASSUME NEW s \in Socks
      PROVE  \A i \in 1..Len(wire'[s]) : Timed(wire'[s][i])
  <2> DEFINE w == wire[s]
  <2>1. w \in Seq(Item) /\ \A i \in 1..Len(w) : Timed(w[i])
    BY <1>0 DEF TypeOK, Item, TimelineInv, BaseInv
  <2>2. wire'[s] = w \/ wire'[s] = Append(w, q)
    BY <1>0, AfterTransmit
  <2> HIDE DEF w
  <2>3. /\ Len(Append(w, q)) = Len(w) + 1 /\ Len(w) \in Nat
        /\ \A i \in 1..Len(w) : Append(w, q)[i] = w[i]
        /\ Append(w, q)[Len(w) + 1] = q
    BY <2>1
  <2>4. \A i \in 1..Len(Append(w, q)) : Timed(Append(w, q)[i])
    BY <1>1, <2>1, <2>3
  <2> QED
    BY <2>1, <2>2, <2>4
<1>3. ASSUME NEW s \in Socks, NEW i \in 1..Len(wire'[s])
      PROVE  /\ basePts' \in Nat
             /\ wire'[s][i].ts = Timestamp(wire'[s][i].pts - basePts')
  BY <1>0, <1>2, <1>3 DEF Timed
<1>4. \A u \in Threads : call'[u] # Idle => basePts' \in Nat
  BY <1>0
<1> QED
  BY <1>3, <1>4, PrimedBaseInv

LEMMA WorkingBase ==
    ASSUME TimelineInv, NEW t \in Threads, Working(t)
    PROVE  BaseInv'
<1>0. TInv /\ TypeOK /\ OneActivity /\ BaseInv
  BY DEF TimelineInv, TInv
<1>1. ASSUME NEW u \in Threads, call'[u] # Idle, Active(t)
      PROVE  Active(u)
  <2>1. u # t => call'[u] = call[u]
    <3>1. \E d : call' = [call EXCEPT ![t] = d]
      <4>1. CASE SendWhole(t)
        BY <4>1 DEF SendWhole
      <4>2. CASE SendFragment(t)
        BY <4>2 DEF SendFragment
      <4>3. CASE FinishWithReport(t) \/ Finish(t)
        BY <4>3 DEF FinishWithReport, Finish, Unlock
      <4>4. CASE Sigpipe(t)
        <5>1. call' = [call EXCEPT ![t] = call[t]]
          BY <1>0, <4>4 DEF Sigpipe, TypeOK
        <5> QED
          BY <5>1
      <4> QED
        BY <4>1, <4>2, <4>3, <4>4 DEF Working
    <3> QED
      BY <1>0, <3>1 DEF TypeOK
  <2> QED
    BY <1>1, <2>1 DEF Active
<1>2. CASE SendWhole(t) \/ SendFragment(t)
  <2>1. UnitLeft(t) /\ Active(t) /\ UNCHANGED <<tcpSock, conn, basePts>>
    BY <1>2 DEF SendWhole, SendFragment, UnitLeft
  <2>2. PICK fu \in FuKinds, from \in Nat, bytes \in Nat, payload \in Nat :
          SendRtpPacket(t, fu, from, bytes, payload)
    BY <1>0, <1>2, <2>1, SendsPacket
  <2> DEFINE q == Packet(t, fu, from, bytes, payload)
  <2>3. q \in Item /\ q.pts = call[t].pts /\ q.ts = FrameTime(t) /\ Transmit(q)
    BY <1>0, <2>1, <2>2, PacketType DEF Item, Packet, SendRtpPacket
  <2> HIDE DEF q
  <2> QED
    BY <1>1, <2>1, <2>3, SendBase
<1>3. CASE FinishWithReport(t)
  <2> DEFINE q == Report(t)
  <2>1. /\ Active(t) /\ Transmit(q) /\ UNCHANGED <<tcpSock, conn, basePts>>
    BY <1>3 DEF FinishWithReport, FrameSent, Unlock
  <2>2. q \in Item /\ q.pts = call[t].pts /\ q.ts = FrameTime(t)
    BY <1>0, ReportType DEF Item, Report
  <2> HIDE DEF q
  <2> QED
    BY <1>1, <2>1, <2>2, SendBase
<1>4. CASE Finish(t) \/ Sigpipe(t)
  <2>1. wire' = wire /\ basePts' = basePts /\ Active(t)
    BY <1>4 DEF Finish, Unlock, FrameSent, UnitLeft, Sigpipe, object
  <2> QED
    BY <1>0, <1>1, <2>1, SilentBase
<1> QED
  BY <1>2, <1>3, <1>4 DEF Working

LEMMA NextTimelineInv == TimelineInv /\ [Next]_vars => TimelineInv'
<1> SUFFICES ASSUME TimelineInv, [Next]_vars
             PROVE  BaseInv'
  BY NextTInv DEF TimelineInv
<1>0. TInv /\ TypeOK /\ BaseInv
  BY DEF TimelineInv, TInv
<1>1. CASE \/ Start \/ CreateSocket \/ Connect \/ Stop \/ Rest \/ UNCHANGED vars
           \/ \E s \in Socks : PeerGone(s)
  <2>1. wire' = wire /\ basePts' = basePts /\ call' = call
    BY <1>1 DEF Start, StartUp, CreateSocket, Connect, Stop, CloseSocket, Rest, vars, object,
                PeerGone
  <2> QED
    BY <1>0, <2>1, SilentBase DEF Active
<1>2. ASSUME NEW t \in Threads, NEW f \in Frames, SendFrame(t, f)
      PROVE  BaseInv'
  <2>1. wire' = wire /\ basePts' = NewBase(basePts, f.pts) /\ f.pts \in Nat
    BY <1>2, SessionAssumption DEF SendFrame, EnterFrame
  <2>2. basePts' \in Nat /\ (basePts \in Nat => basePts' = basePts)
    BY <1>0, <2>1 DEF NewBase, TypeOK
  <2> QED
    BY <1>0, <2>1, <2>2, SilentBase
<1>3. ASSUME NEW t \in Threads, Working(t)
      PROVE  BaseInv'
  BY <1>3, WorkingBase
<1> QED
  BY <1>1, <1>2, <1>3 DEF Next

LEMMA InitTimelineInv == Init => TimelineInv
<1> SUFFICES ASSUME Init
             PROVE  BaseInv
  BY InitTInv DEF TimelineInv
<1> QED
  BY DEF Init, BaseInv, Active

LEMMA ItemPts ==
    ASSUME NEW p \in Item
    PROVE  p.pts \in Int
<1>1. p \in RtpItem => p.pts \in Nat
  BY DEF RtpItem
<1>2. p \in SrItem => p.pts \in Nat
  BY DEF SrItem
<1> QED
  BY <1>1, <1>2 DEF Item

(* On the ARM build timestamps follow the presentation times over the      *)
(* whole life of the object (basePts_, the conversion in sendFrame and     *)
(* parseAndSendFrame).                                                     *)
THEOREM Timeline == Spec => []TimestampsFollowPts
<1>1. ASSUME TimelineInv, Saturating,
             NEW r \in Socks, NEW s \in Socks,
             NEW i \in 1..Len(wire[r]), NEW j \in 1..Len(wire[s]),
             wire[r][i].pts <= wire[s][j].pts
      PROVE  wire[r][i].ts <= wire[s][j].ts
  <2> DEFINE p == wire[r][i]
             q == wire[s][j]
  <2>1. p \in Item /\ q \in Item
    BY <1>1 DEF TimelineInv, TInv, TypeOK, Item
  <2>2. Timed(p) /\ Timed(q)
    BY <1>1 DEF TimelineInv, BaseInv
  <2>3. p.pts <= q.pts
    BY <1>1
  <2> HIDE DEF p, q
  <2>4. p.pts \in Int /\ q.pts \in Int
    BY <2>1, ItemPts
  <2>5. /\ p.pts - basePts \in Int /\ q.pts - basePts \in Int
        /\ p.pts - basePts <= q.pts - basePts
    BY <2>2, <2>3, <2>4 DEF Timed
  <2>6. Timestamp(p.pts - basePts) <= Timestamp(q.pts - basePts)
    BY <1>1, <2>5, TimestampMonotone
  <2>7. p.ts <= q.ts
    BY <2>2, <2>6 DEF Timed
  <2> QED
    BY <2>7 DEF p, q
<1>2. TimelineInv => TimestampsFollowPts
  BY <1>1 DEF TimestampsFollowPts
<1>3. Spec => []TimelineInv
  BY InitTimelineInv, NextTimelineInv, PTL DEF Spec
<1> QED
  BY <1>2, <1>3, PTL
=============================================================================
