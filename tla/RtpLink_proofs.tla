---------------------------- MODULE RtpLink_proofs ----------------------------
(***************************************************************************)
(* The session, seen by its receivers, implements UnitStream, for any      *)
(* threads, frames and MTU.  A receiver in the middle of a unit has put    *)
(* together exactly what the last packet of the open connection ends; by   *)
(* RtpStream_proofs the sendFrame in progress goes on from there.          *)
(***************************************************************************)
EXTENDS RtpLink, RtpStream_proofs

Receiver == [units : Seq(Unit), acc : Unit]

(* What a receiver that has been given the packet p without a gap has of   *)
(* its unit.                                                               *)
UpTo(p) == [fid |-> p.fid, unit |-> p.unit, size |-> p.from + p.bytes]

RxInv ==
    /\ rx \in [Socks -> Receiver]
    /\ \A s \in Socks : wire[s] = <<>> => rx[s].units = <<>>
    /\ Connected /\ wire[tcpSock] # <<>> /\ InFragments(LastItem) =>
           rx[tcpSock].acc = UpTo(LastItem)

LInv == SInv /\ RxInv

StreamStep == Stream!StreamNext \/ UNCHANGED Stream!streamVars
-----------------------------------------------------------------------------
(* The units a sendFrame has left.                                         *)
LEMMA ElementOf ==
    ASSUME NEW S, NEW q \in Seq(S), NEW i \in 1..Len(q)
    PROVE  q[i] \in S /\ i \in Nat
OBVIOUS

LEMMA PlaceOfLeft ==
    ASSUME NEW n \in Nat, NEW k \in 1..(n + 1), NEW i \in 1..(n + 1 - k)
    PROVE  k + i - 1 \in 1..n
OBVIOUS

LEMMA UnitsLeftSeq ==
    ASSUME NEW c \in Activation, CallSound(c)
    PROVE  /\ UnitsLeft(c) \in Seq(Unit)
           /\ Len(UnitsLeft(c)) = Len(c.nalus) + 1 - c.unit
           /\ c.unit > Len(c.nalus) => UnitsLeft(c) = <<>>
<1>1. /\ c.fid \in Nat /\ c.unit \in Nat /\ c.nalus \in Seq(Nat)
      /\ c.unit \in 1..(Len(c.nalus) + 1) /\ Len(c.nalus) \in Nat
  BY ActivationFields DEF CallSound
<1> DEFINE n == Len(c.nalus) + 1 - c.unit
           item(i) == [fid |-> c.fid, unit |-> c.unit + i - 1,
                       size |-> c.nalus[c.unit + i - 1]]
<1>2. n \in Nat
  BY <1>1
<1>3. \A i \in 1..n : item(i) \in Unit
  <2> TAKE i \in 1..n
  <2> DEFINE k == c.unit + i - 1
  <2>1. k \in 1..Len(c.nalus)
    BY <1>1, PlaceOfLeft
  <2> HIDE DEF k
  <2>2. c.nalus[k] \in Nat /\ k \in Nat
    BY <1>1, <2>1, ElementOf
  <2> QED
    BY <1>1, <2>2 DEF Unit, k
<1>4. UnitsLeft(c) = [i \in 1..n |-> item(i)]
  BY DEF UnitsLeft
<1> HIDE DEF item
<1>5. UnitsLeft(c) \in Seq(Unit) /\ Len(UnitsLeft(c)) = n
  <2> HIDE DEF n
  <2> QED
    BY <1>2, <1>3, <1>4
<1>6. c.unit > Len(c.nalus) => n = 0
  BY <1>1
<1> HIDE DEF n
<1>7. n = 0 => UnitsLeft(c) = <<>>
  BY <1>5
<1> QED
  BY <1>5, <1>6, <1>7 DEF n

LEMMA UnitsLeftNext ==
    ASSUME NEW c \in Activation, CallSound(c), NEW d \in Activation, CallSound(d),
           d.fid = c.fid, d.nalus = c.nalus, d.unit = c.unit + 1
    PROVE  /\ UnitsLeft(c) # <<>>
           /\ Head(UnitsLeft(c)) = [fid |-> c.fid, unit |-> c.unit,
                                    size |-> c.nalus[c.unit]]
           /\ UnitsLeft(d) = Tail(UnitsLeft(c))
<1> DEFINE u == UnitsLeft(c)
           v == UnitsLeft(d)
           n == Len(c.nalus)
           k == c.unit
<1>1. /\ k \in Nat /\ n \in Nat /\ k + 1 <= n + 1 /\ k >= 1
  BY ActivationFields DEF CallSound
<1>2. /\ u \in Seq(Unit) /\ v \in Seq(Unit)
      /\ Len(u) = n + 1 - k /\ Len(v) = n + 1 - (k + 1)
  BY UnitsLeftSeq
<1>3. /\ \A i \in 1..(n + 1 - k) :
             u[i] = [fid |-> c.fid, unit |-> k + i - 1, size |-> c.nalus[k + i - 1]]
      /\ \A i \in 1..(n + 1 - (k + 1)) :
             v[i] = [fid |-> c.fid, unit |-> (k + 1) + i - 1,
                     size |-> c.nalus[(k + 1) + i - 1]]
  BY DEF UnitsLeft
<1> HIDE DEF u, v, n, k
<1>4. Len(u) >= 1 /\ 1 \in 1..(n + 1 - k) /\ k + 1 - 1 = k
  BY <1>1, <1>2
<1>5. u # <<>> /\ Head(u) = u[1]
  BY <1>2, <1>4
<1>6. Head(u) = [fid |-> c.fid, unit |-> k, size |-> c.nalus[k]]
  BY <1>3, <1>4, <1>5
<1>7. v = Tail(u)
  <2>1. /\ Tail(u) \in Seq(Unit) /\ Len(Tail(u)) = Len(u) - 1
        /\ \A i \in 1..(Len(u) - 1) : Tail(u)[i] = u[i + 1]
    BY <1>2, <1>5
  <2>2. Len(v) = Len(u) - 1
    BY <1>1, <1>2
  <2>3. \A i \in 1..Len(v) : v[i] = u[i + 1]
    <3> TAKE i \in 1..Len(v)
    <3>1. /\ i \in 1..(n + 1 - (k + 1)) /\ i + 1 \in 1..(n + 1 - k)
          /\ (k + 1) + i - 1 = k + (i + 1) - 1
      BY <1>1, <1>2
    <3> QED
      BY <1>3, <3>1
  <2> QED
    BY <1>2, <2>1, <2>2, <2>3
<1> QED
  BY <1>5, <1>6, <1>7 DEF u, v, k

LEMMA UnitsLeftSame ==
    ASSUME NEW c, NEW d, d.fid = c.fid, d.nalus = c.nalus, d.unit = c.unit
    PROVE  UnitsLeft(d) = UnitsLeft(c)
BY DEF UnitsLeft
-----------------------------------------------------------------------------
(* What the receivers make of an item handed to send().                    *)
LEMMA ReceiverOf ==
    ASSUME RxInv, Received, NEW q, TypeOK, Transmit(q), UNCHANGED <<tcpSock, conn>>
    PROVE  rx' = [s \in Socks |-> IF Connected /\ s = tcpSock
                                 THEN Receive(rx[s], q) ELSE rx[s]]
<1> SUFFICES ASSUME NEW s \in Socks
             PROVE  (IF wire'[s] = wire[s] THEN rx[s]
                     ELSE Receive(rx[s], wire'[s][Len(wire'[s])]))
                    = IF Connected /\ s = tcpSock THEN Receive(rx[s], q) ELSE rx[s]
  BY DEF Received
<1>1. CASE Connected /\ s = tcpSock
  <2> DEFINE w == wire[s]
  <2>1. wire'[s] = Append(w, q) /\ w \in Seq(Item)
    BY <1>1, AfterTransmit DEF TypeOK, Item
  <2> HIDE DEF w
  <2>2. Append(w, q) # w /\ Append(w, q)[Len(Append(w, q))] = q
    <3>1. Len(Append(w, q)) = Len(w) + 1 /\ Len(w) \in Nat
      BY <2>1
    <3>2. Append(w, q) # w
      BY <3>1
    <3>3. Append(w, q)[Len(w) + 1] = q
      BY <2>1
    <3> QED
      BY <3>1, <3>2, <3>3
  <2> QED
    BY <1>1, <2>1, <2>2 DEF w
<1>2. CASE ~(Connected /\ s = tcpSock)
  <2>1. wire'[s] = wire[s]
    BY <1>2, AfterTransmit
  <2> QED
    BY <1>2, <2>1
<1> QED
  BY <1>1, <1>2

(* Nothing is sent: no frame begins or moves on, and a connection may end. *)
LEMMA ClosingStep ==
    ASSUME LInv, Received, UNCHANGED <<wire, call, sendMutex>>,
           Connected' => Connected /\ tcpSock' = tcpSock
    PROVE  RxInv' /\ StreamStep
<1>1. rx' = rx
  BY DEF Received, LInv, RxInv
<1>2. UnitsToCome' = UnitsToCome /\ UnitsGot' = UnitsGot
  BY <1>1 DEF UnitsToCome, UnitsLeft, UnitsGot
<1>3. OpenConn' = OpenConn \/ (OpenConn # NoSock /\ OpenConn' = NoSock)
  BY DEF OpenConn, Connected
<1>4. StreamStep
  BY <1>2, <1>3 DEF StreamStep, Stream!StreamNext, Stream!Close, Stream!streamVars
<1>5. ASSUME Connected'
      PROVE  RxInv'
  <2>1. Connected /\ tcpSock' = tcpSock /\ LastItem' = LastItem
    BY <1>5 DEF LastItem
  <2> QED
    BY <1>1, <2>1 DEF LInv, RxInv, InFragments, UpTo
<1>6. ASSUME ~Connected'
      PROVE  RxInv'
  BY <1>1, <1>6 DEF LInv, RxInv
<1>7. RxInv'
  BY <1>5, <1>6
<1> QED
  BY <1>4, <1>7

(* A connection comes up, between two frames, with nothing received yet.   *)
LEMMA OpeningStep ==
    ASSUME LInv, Received, Connect
    PROVE  RxInv' /\ StreamStep
<1>0. TypeOK /\ OneActivity
  BY DEF LInv, SInv, TInv
<1>1. /\ UNCHANGED <<wire, call, sendMutex>> /\ sendMutex = NoThread
      /\ tcpSock \in Socks /\ ~Connected /\ wire[tcpSock] = <<>>
  BY <1>0 DEF Connect, OneActivity, Connected
<1>2. CASE ~Connected'
  BY <1>1, <1>2, ClosingStep
<1>3. CASE Connected'
  <2>1. tcpSock' = tcpSock
    BY <1>3 DEF Connect, Connected
  <2>2. rx' = rx
    BY <1>1 DEF Received, LInv, RxInv
  <2>3. RxInv'
    BY <1>1, <2>1, <2>2 DEF LInv, RxInv
  <2>4. /\ UnitsToCome = <<>> /\ UnitsToCome' = <<>> /\ UnitsGot' = UnitsGot
        /\ UnitsGot[tcpSock] = <<>>
    BY <1>1, <2>2 DEF UnitsToCome, UnitsGot, LInv, RxInv
  <2>5. OpenConn = NoSock /\ OpenConn' = tcpSock
    BY <1>1, <1>3, <2>1 DEF OpenConn
  <2>6. Stream!Open(tcpSock)
    BY <2>4, <2>5 DEF Stream!Open
  <2> QED
    BY <1>1, <2>3, <2>6 DEF StreamStep, Stream!StreamNext
<1> QED
  BY <1>2, <1>3

(* sendFrame takes the lock: a frame begins.                               *)
LEMMA BeginStep ==
    ASSUME LInv, TInv', Received, NEW t \in Threads, NEW f \in Frames, SendFrame(t, f)
    PROVE  RxInv' /\ StreamStep
<1>1. /\ UNCHANGED <<wire, tcpSock, conn>>
      /\ sendMutex = NoThread /\ sendMutex' = t /\ t # NoThread
  BY SessionAssumption DEF SendFrame, EnterFrame, MayEnter
<1>2. rx' = rx /\ OpenConn' = OpenConn /\ LastItem' = LastItem /\ Connected' = Connected
  BY <1>1 DEF Received, LInv, RxInv, OpenConn, Connected, LastItem
<1>3. RxInv'
  BY <1>1, <1>2 DEF LInv, RxInv, InFragments, UpTo
<1>4. UnitsToCome = <<>> /\ UnitsGot' = UnitsGot
  BY <1>1, <1>2 DEF UnitsToCome, UnitsGot
<1>5. call'[t] \in Activation /\ CallSound(call'[t])
  <2>1. (TypeOK /\ OneActivity)'
    BY DEF TInv
  <2>2. (\A u \in Threads : CallSound(call[u]))' => \A u \in Threads : CallSound(call'[u])
    BY DEF CallSound, FitsOnePacket
  <2> QED
    BY <2>1, <2>2 DEF TypeOK, OneActivity
<1>6. UnitsToCome' = UnitsLeft(call'[t])
  BY <1>1 DEF UnitsToCome, UnitsLeft
<1>7. UnitsToCome' \in Seq(Unit)
  BY <1>5, <1>6, UnitsLeftSeq
<1> QED
  BY <1>2, <1>3, <1>4, <1>7 DEF StreamStep, Stream!StreamNext, Stream!BeginFrame

(* The end of a sendFrame: a receiver takes no notice of a report.         *)
LEMMA EndRx ==
    ASSUME LInv, Received, NEW t \in Threads, FinishWithReport(t) \/ Finish(t)
    PROVE  rx' = rx
<1>1. /\ TypeOK /\ UNCHANGED <<tcpSock, conn>>
      /\ Transmit(Report(t)) \/ wire' = wire
  BY DEF LInv, SInv, TInv, FinishWithReport, Finish, Unlock
<1>2. CASE Transmit(Report(t))
  <2>1. Report(t).kind = "SR"
    BY DEF Report
  <2>2. \A s \in Socks : Receive(rx[s], Report(t)) = rx[s]
    BY <2>1 DEF Receive
  <2>3. rx' = [s \in Socks |-> rx[s]]
    BY <1>1, <1>2, <2>2, ReceiverOf DEF LInv
  <2> QED
    BY <2>3 DEF LInv, RxInv
<1>3. CASE wire' = wire
  BY <1>3 DEF Received, LInv, RxInv
<1> QED
  BY <1>1, <1>2, <1>3

(* The end of sendFrame: the frame has no unit left, and a report says     *)
(* nothing about units.                                                    *)
LEMMA EndStep ==
    ASSUME LInv, Received, NEW t \in Threads, FinishWithReport(t) \/ Finish(t)
    PROVE  RxInv' /\ StreamStep
<1>0. TypeOK /\ OneActivity
  BY DEF LInv, SInv, TInv
<1>1. /\ FrameSent(t) /\ sendMutex' = NoThread
      /\ UNCHANGED <<tcpSock, conn>>
      /\ Transmit(Report(t)) \/ wire' = wire
  BY DEF FinishWithReport, Finish, Unlock, Release
<1>2. sendMutex = t /\ UnitsLeft(call[t]) = <<>>
  <2>1. call[t] \in Activation /\ CallSound(call[t]) /\ Active(t)
    BY <1>0, <1>1 DEF TypeOK, OneActivity, FrameSent
  <2> QED
    BY <1>0, <1>1, <2>1, UnitsLeftSeq DEF FrameSent, OneActivity
<1>3. UnitsToCome = <<>> /\ UnitsToCome' = <<>>
  BY <1>1, <1>2 DEF UnitsToCome
<1>4. rx' = rx
  BY EndRx
<1>5. Connected' = Connected /\ OpenConn' = OpenConn /\ UnitsGot' = UnitsGot
  BY <1>1, <1>4 DEF Connected, OpenConn, UnitsGot
<1>6. RxInv'
  <2>1. CASE Transmit(Report(t))
    <3>1. /\ \A s \in Socks : wire'[s] = <<>> => wire[s] = <<>>
          /\ Connected => ~InFragments(LastItem')
      <4>1. ~InFragments(Report(t))
        BY DEF InFragments, Report
      <4> QED
        BY <1>0, <1>1, <2>1, <4>1, AfterTransmit
    <3>2. Connected' => ~InFragments(LastItem)'
      BY <1>5, <3>1 DEF InFragments
    <3> QED
      BY <1>4, <3>1, <3>2 DEF LInv, RxInv
  <2>2. CASE wire' = wire
    <3>1. LastItem' = LastItem
      BY <1>1, <2>2 DEF LastItem
    <3> QED
      BY <1>1, <1>4, <1>5, <2>2, <3>1 DEF LInv, RxInv, InFragments, UpTo
  <2> QED
    BY <1>1, <2>1, <2>2
<1> QED
  BY <1>3, <1>5, <1>6 DEF StreamStep, Stream!streamVars

(* A packet is handed to send(): a receiver that gets it has, so far,      *)
(* exactly what the packet ends.                                           *)
LEMMA Assembled ==
    ASSUME LInv, NEW t \in Threads, UnitLeft(t),
           NEW fu \in FuKinds, NEW from \in Nat, NEW bytes \in Nat, NEW payload \in Nat,
           NEW d \in Activation, PartSent(t, fu, from, bytes, payload, d), Connected
    PROVE  LET q == Packet(t, fu, from, bytes, payload)
           IN  Taken(rx[tcpSock].acc, q) = UpTo(q)
<1> DEFINE q == Packet(t, fu, from, bytes, payload)
           c == call[t]
           acc == rx[tcpSock].acc
<1>0. TInv /\ TypeOK /\ OneActivity /\ Frontier /\ RxInv
  BY DEF LInv, SInv, TInv
<1>1. /\ q.fu = fu /\ q.fid = c.fid /\ q.unit = c.unit /\ q.from = from /\ q.bytes = bytes
      /\ q.size = c.nalus[c.unit]
  BY DEF Packet
<1>2. /\ SoundPacket(q) /\ (fu \in {"middle", "end"} <=> c.pos > 1)
      /\ (c.pos > 1 => from = c.pos)
  BY DEF PartSent
<1>3. CallSound(c) /\ c.pos \in Nat /\ c.pos >= 1 /\ Active(t)
  BY <1>0, UnitLeftSound, ActivationFields DEF CallSound, UnitLeft
<1> HIDE DEF q
<1>4. CASE fu \in {"whole", "start"}
  <2>1. Begins(q)
    BY <1>1, <1>2, <1>4 DEF Begins, SoundPacket
  <2> QED
    BY <1>1, <1>4, <2>1 DEF Taken, UpTo, q
<1>5. CASE fu \in {"middle", "end"}
  <2>1. c.pos > 1 /\ from = c.pos
    BY <1>2, <1>5
  <2>2. wire[tcpSock] # <<>>
    BY <1>0, <1>3, <2>1 DEF Frontier
  <2>3. ~AtFrameStart(c, LastItem)
    BY <2>1 DEF AtFrameStart
  <2>4. AfterPacket(c, FrameTime(t), LastItem)
    BY <1>0, <1>3, <2>2, <2>3 DEF Frontier
  <2>5. /\ LastItem.fid = c.fid /\ LastItem.unit = c.unit /\ InFragments(LastItem)
        /\ LastItem.from + LastItem.bytes = c.pos
    BY <2>1, <2>4 DEF AfterPacket
  <2>6. acc = [fid |-> c.fid, unit |-> c.unit, size |-> c.pos]
    BY <1>0, <2>2, <2>5 DEF RxInv, UpTo
  <2>7. Continues(acc, q)
    BY <1>1, <2>1, <2>6 DEF Continues
  <2>8. fu \notin {"whole", "start"}
    BY <1>5
  <2> QED
    BY <1>1, <2>7, <2>8 DEF Taken, UpTo, q
<1> QED
  BY <1>4, <1>5 DEF FuKinds

RxAfter(q) ==
    [s \in Socks |-> IF Connected /\ s = tcpSock
                    THEN IF q.fu \in {"whole", "end"}
                         THEN [units |-> Append(rx[s].units, UpTo(q)), acc |-> Garbage]
                         ELSE [units |-> rx[s].units, acc |-> UpTo(q)]
                    ELSE rx[s]]

LEMMA PartRx ==
    ASSUME LInv, Received, NEW t \in Threads, UnitLeft(t),
           NEW fu \in FuKinds, NEW from \in Nat, NEW bytes \in Nat, NEW payload \in Nat,
           NEW d \in Activation, PartSent(t, fu, from, bytes, payload, d)
    PROVE  rx' = RxAfter(Packet(t, fu, from, bytes, payload))
<1> DEFINE q == Packet(t, fu, from, bytes, payload)
<1>1. TypeOK /\ RxInv /\ Transmit(q) /\ UNCHANGED <<tcpSock, conn>>
  BY DEF LInv, SInv, TInv, PartSent, SendRtpPacket
<1>2. q.kind = "RTP" /\ q.fu = fu
  BY DEF Packet
<1>3. Connected => Taken(rx[tcpSock].acc, q) = UpTo(q)
  BY Assembled
<1> HIDE DEF q
<1>4. rx' = [s \in Socks |-> IF Connected /\ s = tcpSock
                            THEN Receive(rx[s], q) ELSE rx[s]]
  BY <1>1, ReceiverOf
<1>5. ASSUME Connected
      PROVE  Receive(rx[tcpSock], q) =
               IF fu \in {"whole", "end"}
               THEN [units |-> Append(rx[tcpSock].units, UpTo(q)), acc |-> Garbage]
               ELSE [units |-> rx[tcpSock].units, acc |-> UpTo(q)]
  BY <1>2, <1>3, <1>5 DEF Receive
<1> QED
  BY <1>2, <1>4, <1>5 DEF RxAfter, q

LEMMA PartRxInv ==
    ASSUME LInv, Received, NEW t \in Threads, UnitLeft(t),
           NEW fu \in FuKinds, NEW from \in Nat, NEW bytes \in Nat, NEW payload \in Nat,
           NEW d \in Activation, PartSent(t, fu, from, bytes, payload, d)
    PROVE  RxInv'
<1> DEFINE q == Packet(t, fu, from, bytes, payload)
<1>0. TypeOK /\ OneActivity /\ RxInv
  BY DEF LInv, SInv, TInv
<1>1. /\ Transmit(q) /\ UNCHANGED <<tcpSock, conn>>
      /\ q.fu = fu /\ q.kind = "RTP"
  BY DEF PartSent, SendRtpPacket, Packet
<1>2. rx' = RxAfter(q)
  BY PartRx
<1>3. UpTo(q) \in Unit
  <2>1. q \in RtpItem
    BY <1>0, PacketType
  <2> HIDE DEF q
  <2> QED
    BY <2>1 DEF UpTo, Unit, RtpItem
<1> HIDE DEF q
<1>4. Garbage \in Unit
  BY DEF Garbage, Unit
<1>5. rx' \in [Socks -> Receiver]
  <2>1. \A s \in Socks : rx[s] \in Receiver
    BY <1>0 DEF RxInv
  <2>2. \A r \in Receiver : /\ [units |-> Append(r.units, UpTo(q)), acc |-> Garbage] \in Receiver
                            /\ [units |-> r.units, acc |-> UpTo(q)] \in Receiver
    BY <1>3, <1>4 DEF Receiver
  <2> QED
    BY <1>2, <2>1, <2>2 DEF RxAfter
<1>6. /\ Connected' = Connected
      /\ Connected => /\ tcpSock \in Socks /\ LastItem' = q
                      /\ wire'[tcpSock] # <<>>
      /\ \A s \in Socks : ~(Connected /\ s = tcpSock) => wire'[s] = wire[s]
  BY <1>0, <1>1, AfterTransmit
<1>7. \A s \in Socks : wire'[s] = <<>> => rx'[s].units = <<>>
  BY <1>0, <1>2, <1>6 DEF RxInv, RxAfter
<1>8. Connected /\ InFragments(q) => rx'[tcpSock].acc = UpTo(q)
  BY <1>1, <1>2, <1>6 DEF InFragments, RxAfter
<1>9. Connected' /\ wire'[tcpSock'] # <<>> /\ InFragments(LastItem)' =>
          rx'[tcpSock'].acc = UpTo(LastItem)'
  <2> SUFFICES ASSUME Connected', InFragments(LastItem)'
               PROVE  rx'[tcpSock'].acc = UpTo(LastItem)'
    OBVIOUS
  <2>1. InFragments(q)
    BY <1>6 DEF InFragments
  <2>2. UpTo(LastItem)' = UpTo(q)
    BY <1>6 DEF UpTo
  <2> QED
    BY <1>1, <1>6, <1>8, <2>1, <2>2
<1> QED
  BY <1>5, <1>7, <1>9 DEF RxInv

(* Only the last packet of a unit delivers it, to the open connection.     *)
LEMMA PartStream ==
    ASSUME LInv, TInv', Received, NEW t \in Threads, UnitLeft(t),
           NEW fu \in FuKinds, NEW from \in Nat, NEW bytes \in Nat, NEW payload \in Nat,
           NEW d \in Activation, PartSent(t, fu, from, bytes, payload, d)
    PROVE  StreamStep
<1> DEFINE q == Packet(t, fu, from, bytes, payload)
           c == call[t]
<1>0. TInv /\ TypeOK /\ OneActivity /\ RxInv
  BY DEF LInv, SInv, TInv
<1>1. /\ UNCHANGED <<tcpSock, conn, sendMutex>> /\ SoundPacket(q)
      /\ call' = [call EXCEPT ![t] = d]
      /\ d.fid = c.fid /\ d.nalus = c.nalus
      /\ fu \in {"start", "middle"} => d.unit = c.unit
      /\ fu \in {"whole", "end"} => d.unit = c.unit + 1
  BY DEF PartSent
<1>2. /\ q.fu = fu /\ q.fid = c.fid /\ q.unit = c.unit /\ q.from = from
      /\ q.bytes = bytes /\ q.size = c.nalus[c.unit] /\ q.marker = Marker(fu)
  BY DEF Packet
<1>3. rx' = RxAfter(q)
  BY PartRx
<1> HIDE DEF q
<1>4. OpenConn' = OpenConn /\ (Connected => OpenConn = tcpSock)
      /\ (~Connected => OpenConn = NoSock)
  BY <1>1 DEF OpenConn, Connected
<1>5. c \in Activation /\ CallSound(c) /\ sendMutex = t /\ t # NoThread
  BY <1>0, UnitLeftSound, SessionAssumption DEF OneActivity, UnitLeft
<1>6. call'[t] = d
  BY <1>0, <1>1 DEF TypeOK
<1>7. UnitsToCome = UnitsLeft(c) /\ UnitsToCome' = UnitsLeft(d)
  BY <1>1, <1>5, <1>6 DEF UnitsToCome, UnitsLeft
<1>8. CASE fu \in {"start", "middle"}
  <2>1. UnitsToCome' = UnitsToCome
    BY <1>1, <1>7, <1>8, UnitsLeftSame
  <2>2. UnitsGot' = UnitsGot
    BY <1>2, <1>3, <1>8 DEF UnitsGot, RxAfter
  <2> QED
    BY <1>4, <2>1, <2>2 DEF StreamStep, Stream!streamVars
<1>9. CASE fu \in {"whole", "end"}
  <2>1. CallSound(d)
    <3>1. (TypeOK /\ OneActivity)'
      BY DEF TInv
    <3>2. (\A u \in Threads : CallSound(call[u]))' => \A u \in Threads : CallSound(call'[u])
      BY DEF CallSound, FitsOnePacket
    <3> QED
      BY <1>6, <3>1, <3>2 DEF OneActivity
  <2>2. /\ UnitsToCome # <<>> /\ UnitsToCome' = Tail(UnitsToCome)
        /\ Head(UnitsToCome) = [fid |-> c.fid, unit |-> c.unit, size |-> c.nalus[c.unit]]
    BY <1>1, <1>5, <1>7, <1>9, <2>1, UnitsLeftNext
  <2>3. UpTo(q) = Head(UnitsToCome)
    <3>1. q.from + q.bytes = q.size
      BY <1>1, <1>2, <1>9 DEF SoundPacket, Marker
    <3> QED
      BY <1>2, <2>2, <3>1 DEF UpTo
  <2>4. UnitsGot' = [s \in Socks |-> IF s = OpenConn
                                    THEN Append(UnitsGot[s], Head(UnitsToCome))
                                    ELSE UnitsGot[s]]
    <3>1. \A s \in Socks : s # NoSock
      BY SessionAssumption DEF Socks, NoSock
    <3>2. \A s \in Socks : s = OpenConn <=> Connected /\ s = tcpSock
      BY <1>4, <3>1
    <3>3. \A s \in Socks : UnitsGot[s] = rx[s].units
      BY DEF UnitsGot
    <3>4. \A s \in Socks : rx'[s].units = IF s = OpenConn
                                         THEN Append(UnitsGot[s], Head(UnitsToCome))
                                         ELSE UnitsGot[s]
      BY <1>2, <1>3, <1>9, <2>3, <3>2, <3>3 DEF RxAfter
    <3>5. UnitsGot' = [s \in Socks |-> rx'[s].units]
      BY DEF UnitsGot
    <3> QED
      BY <3>4, <3>5
  <2> QED
    BY <1>4, <2>2, <2>4 DEF StreamStep, Stream!StreamNext, Stream!SendUnit
<1> QED
  BY <1>8, <1>9 DEF FuKinds
-----------------------------------------------------------------------------
LEMMA LinkStep ==
    ASSUME LInv, LinkNext
    PROVE  LInv' /\ StreamStep
<1>0. TInv /\ TypeOK /\ OneActivity /\ Next /\ Received
  BY DEF LInv, SInv, TInv, LinkNext
<1>1. SInv' /\ TInv'
  BY <1>0, NextSInv DEF LInv, SInv
<1>2. CASE Start \/ Stop \/ Rest \/ \E s \in Socks : PeerGone(s)
  <2>1. UNCHANGED <<wire, call, sendMutex>>
    BY <1>2 DEF Start, StartUp, Stop, CloseSocket, Rest, PeerGone, vars, object
  <2>2. Connected' => Connected /\ tcpSock' = tcpSock
    <3>1. CASE Start \/ Stop \/ Rest
      BY <3>1 DEF Start, StartUp, Stop, CloseSocket, Rest, vars, object, Connected
    <3>2. ASSUME NEW s \in Socks, PeerGone(s)
          PROVE  Connected' => Connected /\ tcpSock' = tcpSock
      BY <1>0, <3>2 DEF PeerGone, object, Connected, TypeOK
    <3> QED
      BY <1>2, <3>1, <3>2
  <2> QED
    BY <1>0, <1>1, <2>1, <2>2, ClosingStep DEF LInv
<1>3. CASE CreateSocket
  <2>1. ~Connected'
    <3>1. CASE tcpSock' = NoSock
      BY <3>1 DEF Connected
    <3>2. ASSUME NEW s \in Socks, tcpSock' = s,
                 conn' = [conn EXCEPT ![s] = "opening"]
          PROVE  ~Connected'
      BY <1>0, <3>2 DEF Connected, TypeOK
    <3> QED
      BY <1>3, <3>1, <3>2 DEF CreateSocket
  <2>2. UNCHANGED <<wire, call, sendMutex>>
    BY <1>3 DEF CreateSocket
  <2> QED
    BY <1>0, <1>1, <2>1, <2>2, ClosingStep DEF LInv
<1>4. CASE Connect
  BY <1>0, <1>1, <1>4, OpeningStep DEF LInv
<1>5. ASSUME NEW t \in Threads, NEW f \in Frames, SendFrame(t, f)
      PROVE  RxInv' /\ StreamStep
  BY <1>0, <1>1, <1>5, BeginStep
<1>6. ASSUME NEW t \in Threads, Working(t)
      PROVE  RxInv' /\ StreamStep
  <2>1. CASE SendWhole(t) \/ SendFragment(t)
    <3>1. UnitLeft(t)
      BY <2>1 DEF SendWhole, SendFragment
    <3>2. PICK fu \in FuKinds, from \in Nat, bytes \in Nat, payload \in Nat,
               d \in Activation : PartSent(t, fu, from, bytes, payload, d)
      BY <1>0, <2>1, WholePart, FragmentPart
    <3> QED
      BY <1>0, <1>1, <3>1, <3>2, PartRxInv, PartStream
  <2>2. CASE FinishWithReport(t) \/ Finish(t)
    BY <1>0, <2>2, EndStep
  <2>3. CASE Sigpipe(t)
    <3>1. /\ UNCHANGED <<wire, call, sendMutex>> /\ tcpSock' = tcpSock
          /\ Connected' = Connected
      BY <2>3 DEF Sigpipe, object, Connected
    <3> QED
      BY <1>0, <3>1, ClosingStep
  <2> QED
    BY <1>6, <2>1, <2>2, <2>3 DEF Working
<1> QED
  BY <1>0, <1>1, <1>2, <1>3, <1>4, <1>5, <1>6 DEF Next, LInv

LEMMA NextLInv == LInv /\ [LinkNext]_linkVars => LInv' /\ StreamStep
<1>1. ASSUME LInv, UNCHANGED linkVars
      PROVE  LInv' /\ StreamStep
  <2>1. vars' = vars /\ rx' = rx
    BY <1>1 DEF linkVars
  <2>2. SInv'
    BY <1>1, <2>1, NextSInv DEF LInv
  <2>3. /\ Connected' = Connected /\ LastItem' = LastItem /\ wire' = wire
        /\ tcpSock' = tcpSock /\ call' = call /\ sendMutex' = sendMutex
    BY <2>1 DEF vars, object, Connected, LastItem
  <2>4. RxInv'
    BY <1>1, <2>1, <2>3 DEF LInv, RxInv, InFragments, UpTo
  <2>5. UNCHANGED Stream!streamVars
    BY <2>1, <2>3 DEF Stream!streamVars, OpenConn, UnitsToCome, UnitsLeft, UnitsGot
  <2> QED
    BY <2>2, <2>4, <2>5 DEF LInv, StreamStep
<1> QED
  BY <1>1, LinkStep

LEMMA InitLInv == LinkInit => LInv /\ Stream!StreamInit
<1> SUFFICES ASSUME LinkInit
             PROVE  LInv /\ Stream!StreamInit
  OBVIOUS
<1>1. SInv
  BY InitSInv DEF LinkInit
<1>2. /\ ~Connected /\ sendMutex = NoThread /\ \A s \in Socks : wire[s] = <<>>
      /\ rx = [s \in Socks |-> [units |-> <<>>, acc |-> Garbage]]
  BY DEF LinkInit, Init, Connected
<1>3. RxInv
  <2>1. [units |-> <<>>, acc |-> Garbage] \in Receiver
    BY DEF Receiver, Garbage, Unit
  <2> QED
    BY <1>2, <2>1 DEF RxInv
<1>4. Stream!StreamInit
  BY <1>2 DEF Stream!StreamInit, OpenConn, UnitsToCome, UnitsGot
<1> QED
  BY <1>1, <1>3, <1>4 DEF LInv

(* What the receivers put together is the stream of whole units, for any   *)
(* threads, frames, sizes and MTU (sendFrame, packetizeAndSendNalu, start  *)
(* and stop).                                                              *)
THEOREM Link == LinkSpec => ImplementsUnitStream
<1>1. LInv /\ [LinkNext]_linkVars => LInv' /\ [Stream!StreamNext]_(Stream!streamVars)
  BY NextLInv DEF StreamStep
<1> QED
  BY InitLInv, <1>1, PTL DEF LinkSpec, ImplementsUnitStream, Stream!StreamSpec
=============================================================================
