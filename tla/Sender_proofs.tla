---------------------------- MODULE Sender_proofs ----------------------------
(***************************************************************************)
(* The program keeps the rules its session needs, so what is proved of     *)
(* RtpSession holds of the program; and every frame it accepts from the    *)
(* file leaves through the queue, the callback and the connection as it    *)
(* was read, and arrives at the server so.  For any file, MTU, queue       *)
(* capacity and counter widths.                                            *)
(***************************************************************************)
EXTENDS EndToEnd, RtpLink_proofs

InLoop == pc \in {"read", "deliver", "sending"}
InCallback == pc \in {"deliver", "sending"}
Running == pc \in {"callback", "open", "read", "deliver", "sending", "stop"}

Typed ==
    /\ pc \in {"arguments", "start", "socket", "callback", "open", "read",
               "deliver", "sending", "stop", "return", "exit"}
    /\ reader \in {"none", "open", "closed"}
    /\ callback \in BOOLEAN /\ peerLost \in BOOLEAN

(* What main's place says of the session, the callback and the file.       *)
Phase ==
    /\ starting # "no" <=> pc = "socket"
    /\ sendMutex # NoThread => pc = "sending"
    /\ pc = "open" \/ InLoop => callback
    /\ reader = "open" <=> InLoop

(* The queue holds the frame being delivered, or nothing, and what was     *)
(* accepted has been delivered in order.                                   *)
Queue ==
    /\ accepted \in Seq(Frames) /\ pushed = Len(accepted)
    /\ reads \in 0..MaxReads /\ pushed <= reads
    /\ delivered \in Seq(Nat) /\ \A i \in 1..Len(delivered) : delivered[i] = i
    /\ dropped = {} /\ unserved = 0
    /\ InCallback => /\ frameQueue = <<pushed>> /\ mutex = Main
                     /\ pushed = Len(delivered) + 1
    /\ ~InCallback => /\ frameQueue = <<>> /\ mutex = NoThread
                      /\ pushed = Len(delivered)

(* The sendFrame in progress has the frame of its number.                  *)
InFile(c) == /\ c.fid \in 1..Len(accepted)
             /\ c.pts = accepted[c.fid].pts
             /\ c.nalus = accepted[c.fid].nalus

File ==
    /\ frames = IF pc = "deliver" THEN pushed - 1 ELSE pushed
    /\ Active(Main) => InFile(call[Main])
    /\ WireIsFile

(* No socket but the session's own is open.                                *)
Sockets ==
    /\ \A s \in Socks : conn[s] \in {"unused", "closed"} \/ s = tcpSock
    /\ pc \in {"arguments", "start", "exit"} \/ starting = "socket" => tcpSock = NoSock
    /\ Running /\ ~peerLost => Connected

(* What has been sent to its last byte.                                    *)
Wired ==
    ~peerLost =>
        /\ \A f \in 1..Len(delivered) :
               \A u \in 1..Len(accepted[f].nalus) : Completed(f, u)
        /\ Active(Main) =>
               \A u \in 1..(call[Main].unit - 1) : Completed(frames, u)
        /\ pc = "sending" /\ ~Active(Main) =>
               \A u \in 1..Len(accepted[frames].nalus) : Completed(frames, u)
-----------------------------------------------------------------------------
LEMMA Appended ==
    ASSUME NEW S, NEW q \in Seq(S), NEW e \in S
    PROVE  /\ Append(q, e) \in Seq(S) /\ Len(Append(q, e)) = Len(q) + 1
           /\ \A i \in 1..Len(q) : Append(q, e)[i] = q[i]
           /\ Append(q, e)[Len(q) + 1] = e
OBVIOUS

(* The one thread.                                                         *)
LEMMA OneThread ==
    ASSUME TInv
    PROVE  /\ Main \in Threads /\ Main # NoThread
           /\ Active(Main) <=> sendMutex = Main
           /\ sendMutex = NoThread <=> ~Active(Main)
           /\ Active(Main) => call[Main].fid = frames
           /\ call[Main] \in Activation /\ CallSound(call[Main])
<1>1. Main \in Threads /\ Main # NoThread /\ Threads = {Main}
  BY ProgramAssumption, SessionAssumption
<1>2. TypeOK /\ OneActivity
  BY DEF TInv
<1> QED
  BY <1>1, <1>2 DEF TypeOK, OneActivity

(* What a turn of sendFrame leaves alone.                                  *)
LEMMA WorkingKeeps ==
    ASSUME TInv, Working(Main)
    PROVE  /\ UNCHANGED <<tcpSock, conn, starting, frames>>
           /\ Active(Main)
           /\ sendMutex' \in {sendMutex, NoThread}
<1>1. CASE SendWhole(Main)
  BY <1>1 DEF SendWhole, UnitLeft
<1>2. CASE SendFragment(Main)
  BY <1>2 DEF SendFragment, UnitLeft
<1>3. CASE FinishWithReport(Main)
  BY <1>3 DEF FinishWithReport, FrameSent, Unlock, Release, history
<1>4. CASE Finish(Main)
  BY <1>4 DEF Finish, FrameSent, Unlock, Release, history
<1>5. CASE Sigpipe(Main)
  BY <1>5 DEF Sigpipe, UnitLeft, FrameSent, object, history
<1> QED
  BY <1>1, <1>2, <1>3, <1>4, <1>5 DEF Working

LEMMA SessionStill ==
    ASSUME UNCHANGED vars
    PROVE  /\ UNCHANGED <<tcpSock, conn, starting, frames, sendMutex, call, wire>>
           /\ Active(Main)' = Active(Main) /\ Connected' = Connected
BY DEF vars, object, history, Active, Connected

(* session.stop(), where main calls it, finds no sendFrame in progress: it *)
(* is RtpSession's Stop.                                                   *)
LEMMA StopIsQuiet ==
    ASSUME Phase, StopSession, pc # "socket", pc # "sending"
    PROVE  Stop \/ UNCHANGED vars
BY DEF Phase, StopSession, Stop, Quiet

(* The steps of main whose part in the session is nothing.                 *)
SessionIdle ==
    \/ CheckArguments \/ InstallCallback \/ OpenFile
    \/ \E r \in Records : ReadRecord(r)
    \/ CallbackReturns \/ EndOfFile \/ Ended

LEMMA IdleStill == SessionIdle => UNCHANGED vars
BY DEF SessionIdle, CheckArguments, InstallCallback, OpenFile, ReadRecord,
       CallbackReturns, EndOfFile, Ended, mainVars

LEMMA MainSteps ==
    MainNext => \/ SessionIdle \/ StartSession \/ OpenSession \/ Deliver \/ Sending
                \/ StopSessions \/ Destructors \/ ServerCloses
BY DEF MainNext, MainStep, SessionIdle

(* Every step of the program is one of the session, or leaves it alone.    *)
LEMMA SessionStep ==
    ASSUME TInv, Phase, Queue, MainNext
    PROVE  [Next]_vars
<1>1. CASE SessionIdle
  BY <1>1, IdleStill
<1>2. CASE StartSession    \* where main calls start, the session is quiet
  <2>1. Quiet /\ StartUp
    BY <1>2 DEF StartSession, Step, Phase, Quiet
  <2> QED
    BY <2>1 DEF Start, Next
<1>3. CASE OpenSession
  BY <1>3 DEF OpenSession, Next
<1>4. CASE Deliver
  <2>1. Main \in Threads /\ InCallback
    BY <1>4, OneThread DEF Deliver, Step, InCallback
  <2>2. Head(frameQueue) = pushed /\ pushed \in 1..Len(accepted)
    BY <2>1 DEF Queue
  <2>3. accepted[Head(frameQueue)] \in Frames
    BY <2>2 DEF Queue
  <2>4. SendFrame(Main, accepted[Head(frameQueue)])
    BY <1>4 DEF Deliver, Step, Phase, SendFrame
  <2> QED
    BY <2>1, <2>3, <2>4 DEF Next
<1>5. CASE Sending
  <2>1. Main \in Threads /\ Working(Main)
    BY <1>5, OneThread DEF Sending
  <2> QED
    BY <2>1 DEF Next
<1>6. CASE StopSessions \/ Destructors
  <2>1. StopSession /\ pc # "socket" /\ pc # "sending"
    BY <1>6 DEF StopSessions, Destructors, Step
  <2> QED
    BY <2>1, StopIsQuiet DEF Next
<1>7. CASE ServerCloses
  BY <1>7 DEF ServerCloses, Next
<1> QED
  BY <1>1, <1>2, <1>3, <1>4, <1>5, <1>6, <1>7, MainSteps
-----------------------------------------------------------------------------
LEMMA NextTyped ==
    ASSUME Typed, MainNext
    PROVE  Typed'
<1>1. CASE CheckArguments \/ StartSession \/ OpenFile \/ Deliver \/ EndOfFile
           \/ StopSessions \/ Destructors
  <2>1. callback' = callback /\ peerLost' = peerLost /\ reader' \in {reader, "open", "closed"}
    BY <1>1 DEF CheckArguments, StartSession, OpenFile, Deliver, EndOfFile, StopSessions,
                Destructors, sourceVars, UnchangedFile
  <2>2. pc' \in {"start", "exit", "socket", "read", "return", "sending", "stop"}
    BY <1>1 DEF CheckArguments, StartSession, OpenFile, Deliver, EndOfFile, StopSessions,
                Destructors, Step
  <2> QED
    BY <2>1, <2>2 DEF Typed
<1>2. CASE OpenSession
  <2>1. pc' \in {"socket", "callback", "return"}
    BY <1>2 DEF OpenSession
  <2> QED
    BY <1>2, <2>1 DEF OpenSession, sourceVars, UnchangedFile, Typed
<1>3. CASE InstallCallback
  BY <1>3 DEF InstallCallback, Step, Source!SetCallback, UnchangedFile, Typed
<1>4. ASSUME NEW r \in Records, ReadRecord(r)
      PROVE  Typed'
  <2>1. callback' = callback /\ pc' \in {"read", "deliver"}
    BY <1>4 DEF ReadRecord, Source!PushFrame, sourceVars
  <2> QED
    BY <1>4, <2>1 DEF ReadRecord, Typed
<1>5. CASE CallbackReturns
  BY <1>5 DEF CallbackReturns, Step, Source!CallbackReturns, UnchangedFile, Typed
<1>6. CASE Sending \/ ServerCloses
  BY <1>6 DEF Sending, ServerCloses, sourceVars, UnchangedFile, Typed
<1>7. CASE Ended
  BY <1>7 DEF Ended, mainVars, sourceVars, Typed
<1> QED
  BY <1>1, <1>2, <1>3, <1>4, <1>5, <1>6, <1>7 DEF MainNext, MainStep

LEMMA NextPhase ==
    ASSUME TInv, Phase, MainNext
    PROVE  Phase'
<1>1. CASE CheckArguments
  BY <1>1, SessionStill DEF CheckArguments, Step, UnchangedFile, sourceVars, Phase, InLoop
<1>2. CASE StartSession
  BY <1>2 DEF StartSession, StartUp, Step, UnchangedFile, sourceVars, Phase, InLoop
<1>3. CASE OpenSession
  <2>1. sendMutex' = sendMutex /\ starting' \in {"connect", "no"}
    BY <1>3 DEF OpenSession, CreateSocket, Connect
  <2>2. pc' \in {"socket", "callback", "return"} /\ (pc' = "socket" <=> starting' # "no")
    BY <1>3 DEF OpenSession
  <2>3. UNCHANGED <<callback, reader>> /\ pc = "socket"
    BY <1>3 DEF OpenSession, UnchangedFile, sourceVars
  <2> QED
    BY <2>1, <2>2, <2>3 DEF Phase, InLoop
<1>4. CASE InstallCallback
  <2>1. callback' = TRUE
    BY <1>4 DEF InstallCallback, Source!SetCallback
  <2> QED
    BY <1>4, <2>1, SessionStill DEF InstallCallback, Step, UnchangedFile, Phase, InLoop
<1>5. CASE OpenFile
  BY <1>5, SessionStill DEF OpenFile, Step, sourceVars, Phase, InLoop
<1>6. ASSUME NEW r \in Records, ReadRecord(r)
      PROVE  Phase'
  <2>1. callback' = callback
    BY <1>6 DEF ReadRecord, Source!PushFrame, sourceVars
  <2>2. UNCHANGED <<starting, sendMutex, reader>>
    BY <1>6, SessionStill DEF ReadRecord
  <2>3. pc = "read" /\ pc' \in {"read", "deliver"}
    BY <1>6 DEF ReadRecord
  <2> QED
    BY <2>1, <2>2, <2>3 DEF Phase, InLoop
<1>7. CASE Deliver
  <2>1. starting' = starting
    BY <1>7 DEF Deliver, EnterFrame
  <2> QED
    BY <1>7, <2>1 DEF Deliver, Step, UnchangedFile, sourceVars, Phase, InLoop
<1>8. CASE Sending
  <2>1. starting' = starting
    BY <1>8, WorkingKeeps DEF Sending
  <2> QED
    BY <1>8, <2>1 DEF Sending, UnchangedFile, sourceVars, Phase, InLoop
<1>9. CASE CallbackReturns
  <2>1. sendMutex = NoThread
    BY <1>9, OneThread DEF CallbackReturns, Sent
  <2>2. callback' = callback
    BY <1>9 DEF CallbackReturns, Source!CallbackReturns
  <2> QED
    BY <1>9, <2>1, <2>2, SessionStill DEF CallbackReturns, Step, UnchangedFile, Phase, InLoop
<1>10. CASE EndOfFile
  BY <1>10, SessionStill DEF EndOfFile, Step, sourceVars, Phase, InLoop
<1>11. CASE StopSessions \/ Destructors
  <2>1. UNCHANGED <<starting, sendMutex>>
    BY <1>11, SessionStill DEF StopSessions, Destructors, StopSession, CloseSocket
  <2> QED
    BY <1>11, <2>1 DEF StopSessions, Destructors, Step, UnchangedFile, sourceVars, Phase, InLoop
<1>12. CASE ServerCloses
  <2>1. UNCHANGED <<starting, sendMutex>>
    BY <1>12 DEF ServerCloses, PeerGone, object
  <2> QED
    BY <1>12, <2>1 DEF ServerCloses, sourceVars, Phase, InLoop
<1>13. CASE Ended
  BY <1>13, SessionStill DEF Ended, mainVars, sourceVars, Phase, InLoop
<1> QED
  BY <1>1, <1>2, <1>3, <1>4, <1>5, <1>6, <1>7, <1>8, <1>9, <1>10, <1>11, <1>12, <1>13
  DEF MainNext, MainStep
-----------------------------------------------------------------------------
(* Every step but a push and the return of the callback leaves the queue   *)
(* alone, and does not enter or leave the callback.                        *)
LEMMA QueueStill ==
    ASSUME Queue, MainNext, ~CallbackReturns, \A r \in Records : ~ReadRecord(r)
    PROVE  /\ UNCHANGED <<frameQueue, mutex, pushed, delivered, dropped, unserved,
                          accepted, reads>>
           /\ InCallback' <=> InCallback
<1>1. CASE InstallCallback
  BY <1>1 DEF InstallCallback, Source!SetCallback, Step, UnchangedFile, InCallback
<1>2. CASE OpenSession
  BY <1>2 DEF OpenSession, sourceVars, UnchangedFile, InCallback
<1>3. CASE Ended
  BY <1>3 DEF Ended, mainVars, sourceVars, InCallback
<1>4. CASE CheckArguments \/ StartSession \/ OpenFile \/ Deliver \/ EndOfFile
           \/ StopSessions \/ Destructors
  BY <1>4 DEF CheckArguments, StartSession, OpenFile, Deliver, EndOfFile, StopSessions,
              Destructors, Step, sourceVars, UnchangedFile, InCallback
<1>5. CASE Sending \/ ServerCloses
  BY <1>5 DEF Sending, ServerCloses, sourceVars, UnchangedFile, InCallback
<1> QED
  BY <1>1, <1>2, <1>3, <1>4, <1>5 DEF MainNext, MainStep

(* A push finds the queue empty and the callback installed.                *)
LEMMA PushEffect ==
    ASSUME Phase, Queue, NEW r \in Records, ReadRecord(r), Wanted(r)
    PROVE  /\ frameQueue' = <<pushed + 1>> /\ mutex' = Main /\ pushed' = pushed + 1
           /\ UNCHANGED <<delivered, dropped, unserved>>
           /\ accepted' = Append(accepted, r.frame)
           /\ pc = "read" /\ pc' = "deliver"
<1>1. pc = "read" /\ Source!PushFrame(Main) /\ accepted' = Append(accepted, r.frame)
      /\ pc' = IF callback THEN "deliver" ELSE "read"
  BY DEF ReadRecord
<1>2. callback /\ frameQueue = <<>>
  BY <1>1 DEF Phase, Queue, InLoop, InCallback
<1>3. ~Source!Full
  BY <1>2, ProgramAssumption DEF Source!Full
<1>4. frameQueue' = Append(<<>>, pushed + 1)
  BY <1>1, <1>2, <1>3 DEF Source!PushFrame, Source!Enqueue
<1>5. frameQueue' = <<pushed + 1>>
  BY <1>4
<1> QED
  BY <1>1, <1>2, <1>3, <1>5 DEF Source!PushFrame, Source!EnterCallback

LEMMA NextQueue ==
    ASSUME TInv, Phase, Queue, MainNext
    PROVE  Queue'
<1>1. ASSUME NEW r \in Records, ReadRecord(r), Wanted(r)
      PROVE  Queue'
  <2>1. /\ frameQueue' = <<pushed + 1>> /\ mutex' = Main /\ pushed' = pushed + 1
        /\ UNCHANGED <<delivered, dropped, unserved>>
        /\ accepted' = Append(accepted, r.frame)
        /\ pc = "read" /\ pc' = "deliver"
    BY <1>1, PushEffect
  <2>2. reads' = reads + 1 /\ reads < MaxReads /\ r.frame \in Frames
    BY <1>1, ProgramAssumption DEF ReadRecord
  <2>3. /\ accepted \in Seq(Frames) /\ pushed = Len(accepted) /\ delivered \in Seq(Nat)
        /\ pushed = Len(delivered) /\ reads \in 0..MaxReads /\ pushed <= reads
    BY <2>1 DEF Queue, InCallback
  <2>4. accepted' \in Seq(Frames) /\ Len(accepted') = Len(accepted) + 1
    BY <2>1, <2>2, <2>3, Appended
  <2>5. InCallback'
    BY <2>1 DEF InCallback
  <2>6. reads' \in 0..MaxReads /\ pushed' <= reads' /\ pushed' = Len(accepted')
    BY <2>1, <2>2, <2>3, <2>4, ProgramAssumption
  <2> QED
    BY <2>1, <2>3, <2>4, <2>5, <2>6 DEF Queue
<1>2. ASSUME NEW r \in Records, ReadRecord(r), ~Wanted(r)
      PROVE  Queue'
  <2>1. /\ UNCHANGED <<frameQueue, mutex, pushed, delivered, dropped, unserved, accepted>>
        /\ reads' = reads + 1 /\ reads < MaxReads /\ pc' = pc
    BY <1>2 DEF ReadRecord, sourceVars
  <2>2. reads' \in 0..MaxReads /\ pushed <= reads'
    BY <2>1, ProgramAssumption DEF Queue
  <2> QED
    BY <2>1, <2>2 DEF Queue, InCallback
<1>3. CASE CallbackReturns
  <2>1. /\ pc = "sending" /\ pc' = "read" /\ Source!CallbackReturns(Main)
        /\ UNCHANGED <<reads, accepted>>
    BY <1>3 DEF CallbackReturns, Step, UnchangedFile
  <2>2. frameQueue = <<pushed>> /\ pushed = Len(delivered) + 1 /\ delivered \in Seq(Nat)
    BY <2>1 DEF Queue, InCallback
  <2>3. frameQueue' = Tail(<<pushed>>) /\ delivered' = Append(delivered, Head(<<pushed>>))
    BY <2>1, <2>2 DEF Source!CallbackReturns, Source!AfterDelivery
  <2>4. Tail(<<pushed>>) = <<>> /\ Head(<<pushed>>) = pushed
    OBVIOUS
  <2>5. frameQueue' = <<>> /\ delivered' = Append(delivered, pushed)
    BY <2>3, <2>4
  <2>6. mutex' = NoThread /\ UNCHANGED <<pushed, dropped, unserved>>
    BY <2>1 DEF Source!CallbackReturns
  <2>7. /\ delivered' \in Seq(Nat) /\ Len(delivered') = pushed
        /\ \A i \in 1..Len(delivered') : delivered'[i] = i
    <3>1. pushed \in Nat
      BY <2>2
    <3>2. /\ delivered' \in Seq(Nat) /\ Len(delivered') = Len(delivered) + 1
          /\ \A i \in 1..Len(delivered) : delivered'[i] = delivered[i]
          /\ delivered'[Len(delivered) + 1] = pushed
      BY <2>2, <2>5, <3>1, Appended
    <3>3. Len(delivered) \in Nat /\ \A i \in 1..Len(delivered) : delivered[i] = i
      BY <2>2 DEF Queue
    <3>4. ASSUME NEW i \in 1..Len(delivered')
          PROVE  delivered'[i] = i
      <4>1. i \in 1..Len(delivered) \/ i = Len(delivered) + 1
        BY <3>2, <3>3
      <4> QED
        BY <2>2, <3>2, <3>3, <4>1
    <3> QED
      BY <2>2, <3>2, <3>4
  <2>8. ~InCallback'
    BY <2>1 DEF InCallback
  <2> QED
    BY <2>1, <2>5, <2>6, <2>7, <2>8 DEF Queue
<1>4. CASE ~CallbackReturns /\ \A r \in Records : ~ReadRecord(r)
  BY <1>4, QueueStill DEF Queue
<1> QED
  BY <1>1, <1>2, <1>3, <1>4
-----------------------------------------------------------------------------
(* An item of the frame it is numbered with.                               *)
FromFile(p) ==
    /\ p.fid \in 1..Len(accepted)
    /\ p.pts = accepted[p.fid].pts
    /\ p.kind = "RTP" => /\ p.unit \in 1..Len(accepted[p.fid].nalus)
                         /\ p.size = accepted[p.fid].nalus[p.unit]

LEMMA WireFromFile ==
    WireIsFile <=> \A s \in Socks : \A i \in 1..Len(wire[s]) : FromFile(wire[s][i])
BY DEF WireIsFile, FromFile

(* What sendFrame hands to send() is of the frame it was called with.      *)
LEMMA ItemFromFile ==
    ASSUME TInv, File, Working(Main), wire' # wire
    PROVE  \E q \in Item : Transmit(q) /\ FromFile(q)
<1>0. TypeOK /\ OneActivity /\ Main \in Threads
  BY OneThread DEF TInv
<1>1. CASE SendWhole(Main) \/ SendFragment(Main)
  <2>1. UnitLeft(Main)
    BY <1>1 DEF SendWhole, SendFragment
  <2>2. PICK fu \in FuKinds, from \in Nat, bytes \in Nat, payload \in Nat :
          SendRtpPacket(Main, fu, from, bytes, payload)
    BY <1>0, <1>1, SendsPacket
  <2> DEFINE q == Packet(Main, fu, from, bytes, payload)
  <2>3. q \in Item /\ Transmit(q)
    BY <1>0, <2>1, <2>2, PacketType DEF Item, SendRtpPacket
  <2>4. /\ q.fid = call[Main].fid /\ q.pts = call[Main].pts /\ q.unit = call[Main].unit
        /\ q.size = call[Main].nalus[call[Main].unit]
    BY DEF Packet
  <2> HIDE DEF q
  <2>5. InFile(call[Main]) /\ call[Main].unit \in 1..Len(call[Main].nalus)
    BY <1>0, <2>1, UnitLeftSound DEF File, UnitLeft
  <2>6. FromFile(q)
    BY <2>4, <2>5 DEF FromFile, InFile
  <2> QED
    BY <2>3, <2>6
<1>2. CASE FinishWithReport(Main)
  <2> DEFINE q == Report(Main)
  <2>1. q \in Item /\ Transmit(q)
    BY <1>0, <1>2, ReportType DEF Item, FinishWithReport
  <2>2. q.fid = call[Main].fid /\ q.pts = call[Main].pts /\ q.kind = "SR"
    BY DEF Report
  <2> HIDE DEF q
  <2>3. InFile(call[Main])
    BY <1>2 DEF FinishWithReport, FrameSent, File
  <2>4. FromFile(q)
    BY <2>2, <2>3 DEF FromFile, InFile
  <2> QED
    BY <2>1, <2>4
<1>3. CASE Finish(Main) \/ Sigpipe(Main)
  BY <1>3 DEF Finish, Sigpipe
<1> QED
  BY <1>1, <1>2, <1>3 DEF Working

(* A turn of sendFrame stays with its frame, or ends it.                   *)
LEMMA WorkingCall ==
    ASSUME TInv, Working(Main)
    PROVE  \/ call'[Main] = Idle
           \/ /\ call'[Main].fid = call[Main].fid
              /\ call'[Main].pts = call[Main].pts
              /\ call'[Main].nalus = call[Main].nalus
<1>0. TypeOK /\ Main \in Threads
  BY OneThread DEF TInv
<1>1. CASE SendWhole(Main) \/ SendFragment(Main)
  <2>1. PICK fu \in FuKinds, from \in Nat, bytes \in Nat, payload \in Nat,
             d \in Activation : PartSent(Main, fu, from, bytes, payload, d)
    BY <1>0, <1>1, WholePart, FragmentPart
  <2>2. /\ call' = [call EXCEPT ![Main] = d] /\ d.fid = call[Main].fid
        /\ d.pts = call[Main].pts /\ d.nalus = call[Main].nalus
    BY <2>1 DEF PartSent
  <2> QED
    BY <1>0, <2>2 DEF TypeOK
<1>2. CASE FinishWithReport(Main) \/ Finish(Main)
  BY <1>0, <1>2 DEF FinishWithReport, Finish, Unlock, TypeOK
<1>3. CASE Sigpipe(Main)
  BY <1>3 DEF Sigpipe
<1> QED
  BY <1>1, <1>2, <1>3 DEF Working

LEMMA PrimedFile ==
    ASSUME frames' = IF pc' = "deliver" THEN pushed' - 1 ELSE pushed',
           call'[Main] # Idle =>
               /\ call'[Main].fid \in 1..Len(accepted')
               /\ call'[Main].pts = accepted'[call'[Main].fid].pts
               /\ call'[Main].nalus = accepted'[call'[Main].fid].nalus,
           \A s \in Socks : \A i \in 1..Len(wire'[s]) : FromFile(wire[s][i])'
    PROVE  File'
<1>1. (Active(Main) => InFile(call[Main]))'
  BY DEF Active, Idle, InFile
<1>2. WireIsFile'
  BY DEF WireIsFile, FromFile
<1> QED
  BY <1>1, <1>2 DEF File

LEMMA NextFile ==
    ASSUME TInv, Phase, Queue, File, MainNext
    PROVE  File'
<1>0. /\ TypeOK /\ Main \in Threads /\ accepted \in Seq(Frames) /\ pushed = Len(accepted)
      /\ Len(accepted) \in Nat
  BY OneThread DEF TInv, Queue
<1>1. ASSUME NEW r \in Records, ReadRecord(r), Wanted(r)
      PROVE  File'
  <2>1. /\ pushed' = pushed + 1 /\ accepted' = Append(accepted, r.frame)
        /\ pc = "read" /\ pc' = "deliver" /\ r.frame \in Frames
        /\ UNCHANGED <<frames, call, wire>>
    BY <1>1, PushEffect, SessionStill, ProgramAssumption DEF ReadRecord
  <2>2. /\ Len(accepted') = Len(accepted) + 1
        /\ \A i \in 1..Len(accepted) : accepted'[i] = accepted[i] /\ i \in 1..Len(accepted')
    BY <1>0, <2>1, Appended
  <2>3. \A s \in Socks : \A i \in 1..Len(wire'[s]) : FromFile(wire[s][i])'
    <3> TAKE s \in Socks
    <3> TAKE i \in 1..Len(wire'[s])
    <3>1. FromFile(wire[s][i]) /\ wire' = wire
      BY <2>1, WireFromFile DEF File
    <3> QED
      BY <2>2, <3>1 DEF FromFile
  <2>4. ~Active(Main)
    BY <2>1, OneThread DEF Phase
  <2>5. frames' = pushed' - 1
    BY <1>0, <2>1 DEF File
  <2> QED
    BY <2>1, <2>3, <2>4, <2>5, PrimedFile DEF Active
<1>2. ASSUME UNCHANGED <<accepted, pushed, frames, wire>>, pc' = "deliver" <=> pc = "deliver",
             call'[Main] = call[Main] \/ call'[Main] = Idle
      PROVE  File'
  <2>1. \A s \in Socks : \A i \in 1..Len(wire'[s]) : FromFile(wire[s][i])'
    <3> TAKE s \in Socks
    <3> TAKE i \in 1..Len(wire'[s])
    <3>1. FromFile(wire[s][i])
      BY <1>2, WireFromFile DEF File
    <3> QED
      BY <1>2, <3>1 DEF FromFile
  <2> QED
    BY <1>2, <2>1, PrimedFile DEF File, Active, InFile
<1>3. CASE Deliver
  <2>1. /\ pc = "deliver" /\ pc' = "sending" /\ UNCHANGED <<accepted, pushed>>
        /\ EnterFrame(Main, accepted[Head(frameQueue)])
    BY <1>3 DEF Deliver, Step, UnchangedFile, sourceVars
  <2>2. Head(frameQueue) = pushed /\ pushed \in 1..Len(accepted)
    BY <2>1 DEF Queue, InCallback
  <2>3. frames = pushed - 1 /\ frames' = pushed
    BY <1>0, <2>1 DEF File, EnterFrame
  <2>4. /\ call'[Main].fid = pushed /\ call'[Main].pts = accepted[pushed].pts
        /\ call'[Main].nalus = accepted[pushed].nalus /\ wire' = wire
    BY <1>0, <2>1, <2>2, <2>3 DEF EnterFrame, TypeOK
  <2>5. \A s \in Socks : \A i \in 1..Len(wire'[s]) : FromFile(wire[s][i])'
    <3> TAKE s \in Socks
    <3> TAKE i \in 1..Len(wire'[s])
    <3>1. FromFile(wire[s][i])
      BY <2>4, WireFromFile DEF File
    <3> QED
      BY <2>1, <2>4, <3>1 DEF FromFile
  <2> QED
    BY <2>1, <2>2, <2>3, <2>4, <2>5, PrimedFile
<1>4. CASE Sending
  <2>1. /\ Working(Main) /\ pc = "sending" /\ pc' = "sending" /\ UNCHANGED <<accepted, pushed>>
        /\ frames' = frames /\ UNCHANGED <<tcpSock, conn>> /\ Active(Main)
    BY <1>4, WorkingKeeps DEF Sending, UnchangedFile, sourceVars
  <2>2. \A s \in Socks : \A i \in 1..Len(wire'[s]) : FromFile(wire'[s][i])
    <3>1. CASE wire' = wire
      BY <3>1, WireFromFile DEF File
    <3>2. CASE wire' # wire
      <4>1. PICK q \in Item : Transmit(q) /\ FromFile(q)
        BY <2>1, <3>2, ItemFromFile
      <4> TAKE s \in Socks
      <4> DEFINE w == wire[s]
      <4>2. w \in Seq(Item) /\ (wire'[s] = w \/ wire'[s] = Append(w, q))
        BY <1>0, <2>1, <4>1, AfterTransmit DEF TypeOK, Item
      <4>3. \A i \in 1..Len(w) : FromFile(w[i])
        BY WireFromFile DEF File
      <4> HIDE DEF w
      <4>4. \A i \in 1..Len(Append(w, q)) : FromFile(Append(w, q)[i])
        BY <4>1, <4>2, <4>3, Appended
      <4> QED
        BY <4>2, <4>3, <4>4
    <3> QED
      BY <3>1, <3>2
  <2>3. \A s \in Socks : \A i \in 1..Len(wire'[s]) : FromFile(wire[s][i])'
    BY <2>1, <2>2 DEF FromFile
  <2>4. call'[Main] # Idle => InFile(call'[Main])
    BY <2>1, WorkingCall DEF File, InFile
  <2> QED
    BY <2>1, <2>3, <2>4, PrimedFile DEF File, InFile
<1>5. ASSUME NEW r \in Records, ReadRecord(r), ~Wanted(r)
      PROVE  File'
  <2>1. UNCHANGED <<accepted, pushed, pc, frames, call, wire>>
    BY <1>5, SessionStill DEF ReadRecord, sourceVars
  <2> QED
    BY <1>2, <2>1
<1>6. CASE CallbackReturns
  <2>1. UNCHANGED <<accepted, pushed, frames, call, wire>>
    BY <1>6, SessionStill DEF CallbackReturns, Source!CallbackReturns, UnchangedFile
  <2> QED
    BY <1>2, <1>6, <2>1 DEF CallbackReturns, Step
<1>7. CASE ~CallbackReturns /\ ~Deliver /\ ~Sending /\ \A r \in Records : ~ReadRecord(r)
  <2>1. UNCHANGED <<accepted, pushed>>
    BY <1>7, QueueStill
  <2>2. UNCHANGED <<frames, wire, call>>
    <3>1. CASE SessionIdle
      BY <3>1, IdleStill, SessionStill
    <3>2. CASE StartSession
      BY <3>2 DEF StartSession, StartUp, history
    <3>3. CASE OpenSession
      BY <3>3 DEF OpenSession, CreateSocket, Connect, history
    <3>4. CASE StopSessions \/ Destructors
      BY <3>4, SessionStill DEF StopSessions, Destructors, StopSession, CloseSocket, history
    <3>5. CASE ServerCloses
      BY <3>5 DEF ServerCloses, PeerGone, history
    <3> QED
      BY <1>7, <3>1, <3>2, <3>3, <3>4, <3>5, MainSteps
  <2>3. pc' = "deliver" <=> pc = "deliver"
    <3>1. CASE OpenSession
      BY <3>1 DEF OpenSession
    <3>2. CASE CheckArguments \/ StartSession \/ InstallCallback \/ OpenFile \/ EndOfFile
               \/ StopSessions \/ Destructors
      BY <3>2 DEF CheckArguments, StartSession, InstallCallback, OpenFile, EndOfFile,
                  StopSessions, Destructors, Step
    <3>3. CASE ServerCloses \/ Ended
      BY <3>3 DEF ServerCloses, Ended, mainVars
    <3> QED
      BY <1>7, <3>1, <3>2, <3>3 DEF MainNext, MainStep
  <2> QED
    BY <1>2, <2>1, <2>2, <2>3
<1> QED
  BY <1>1, <1>3, <1>4, <1>5, <1>6, <1>7
-----------------------------------------------------------------------------
LEMMA NextSockets ==
    ASSUME TInv, Phase, Sockets, MainNext
    PROVE  Sockets'
<1>0. TypeOK /\ OneActivity
  BY DEF TInv
<1>1. ASSUME UNCHANGED <<tcpSock, conn, starting>>, peerLost' = peerLost,
             Running' => Running,
             pc' \in {"arguments", "start", "exit"} => pc \in {"arguments", "start", "exit"}
      PROVE  Sockets'
  BY <1>1 DEF Sockets, Connected
<1>2. CASE SessionIdle
  <2>1. UNCHANGED <<tcpSock, conn, starting>>
    BY <1>2, IdleStill, SessionStill
  <2>2. ASSUME NEW r \in Records, ReadRecord(r)
        PROVE  pc = "read" /\ pc' \in {"read", "deliver"} /\ peerLost' = peerLost
    BY <2>2 DEF ReadRecord
  <2>3. CASE CheckArguments \/ InstallCallback \/ OpenFile \/ CallbackReturns \/ EndOfFile
    BY <1>1, <2>1, <2>3 DEF CheckArguments, InstallCallback, OpenFile, CallbackReturns,
                            EndOfFile, Step, UnchangedFile, Running
  <2>4. CASE Ended
    BY <1>1, <2>1, <2>4 DEF Ended, mainVars, Running
  <2> QED
    BY <1>1, <1>2, <2>1, <2>2, <2>3, <2>4 DEF SessionIdle, Running
<1>3. CASE StartSession
  <2>1. /\ UNCHANGED <<tcpSock, conn, peerLost>> /\ pc = "start" /\ pc' = "socket"
    BY <1>3 DEF StartSession, StartUp, Step, UnchangedFile
  <2> QED
    BY <2>1 DEF Sockets, Running
<1>4. CASE OpenSession /\ CreateSocket
  <2>1. starting = "socket" /\ tcpSock = NoSock
    BY <1>4 DEF CreateSocket, Sockets
  <2>2. \A s \in Socks : conn[s] \in {"unused", "closed"}
    <3>1. \A s \in Socks : s # NoSock
      BY SessionAssumption DEF Socks, NoSock
    <3> QED
      BY <2>1, <3>1 DEF Sockets
  <2>3. ~Running' /\ pc' \in {"socket", "return"} /\ starting' # "socket"
    BY <1>4 DEF OpenSession, CreateSocket, Running
  <2>4. \A s \in Socks : conn'[s] \in {"unused", "closed"} \/ s = tcpSock'
    <3>1. CASE conn' = conn
      BY <2>2, <3>1
    <3>2. ASSUME NEW s \in Socks, tcpSock' = s, conn' = [conn EXCEPT ![s] = "opening"]
          PROVE  \A r \in Socks : conn'[r] \in {"unused", "closed"} \/ r = tcpSock'
      BY <1>0, <2>2, <3>2 DEF TypeOK
    <3> QED
      BY <1>4, <3>1, <3>2 DEF CreateSocket
  <2> QED
    BY <2>3, <2>4 DEF Sockets
<1>5. CASE OpenSession /\ Connect
  <2>1. tcpSock \in Socks /\ starting' = "no" /\ pc' \in {"callback", "return"}
    BY <1>0, <1>5 DEF OpenSession, Connect, OneActivity
  <2>2. CASE conn' = [conn EXCEPT ![tcpSock] = "up"] /\ tcpSock' = tcpSock
    <3>1. Connected'
      BY <1>0, <2>1, <2>2, SessionAssumption DEF Connected, TypeOK, Socks, NoSock
    <3>2. \A s \in Socks : conn'[s] \in {"unused", "closed"} \/ s = tcpSock'
      BY <1>0, <2>2 DEF Sockets, TypeOK
    <3> QED
      BY <2>1, <3>1, <3>2 DEF Sockets
  <2>3. CASE conn' = [conn EXCEPT ![tcpSock] = "closed"] /\ tcpSock' = NoSock
    <3>1. pc' = "return"
      BY <1>5, <2>1, <2>3 DEF OpenSession
    <3>2. \A s \in Socks : conn'[s] \in {"unused", "closed"}
      BY <1>0, <2>3 DEF Sockets, TypeOK
    <3> QED
      BY <2>1, <3>1, <3>2 DEF Sockets, Running
  <2> QED
    BY <1>5, <2>2, <2>3 DEF Connect
<1>6. CASE Deliver
  BY <1>1, <1>6 DEF Deliver, Step, EnterFrame, UnchangedFile, Running
<1>7. CASE Sending
  BY <1>1, <1>7, WorkingKeeps DEF Sending, UnchangedFile, Running
<1>8. CASE StopSessions \/ Destructors
  <2>1. /\ StopSession /\ pc \in {"stop", "return"} /\ pc' \in {"return", "exit"}
        /\ starting' = starting
    BY <1>8, SessionStill
    DEF StopSessions, Destructors, Step, StopSession, CloseSocket
  <2>2. starting = "no"
    BY <2>1 DEF Phase
  <2>3. \A s \in Socks : conn'[s] \in {"unused", "closed"} \/ s = tcpSock'
    BY <1>0, <2>1, SessionStill DEF StopSession, CloseSocket, Sockets, TypeOK
  <2>4. tcpSock' = NoSock
    BY <2>1, SessionStill DEF StopSession, CloseSocket
  <2> QED
    BY <2>1, <2>2, <2>3, <2>4 DEF Sockets, Running
<1>9. CASE ServerCloses
  <2>1. PICK s \in Socks : conn[s] = "up" /\ conn' = [conn EXCEPT ![s] = "gone"]
    BY <1>9 DEF ServerCloses, PeerGone
  <2>2. UNCHANGED <<tcpSock, starting, pc>> /\ peerLost'
    BY <1>9 DEF ServerCloses, PeerGone, object
  <2> QED
    BY <1>0, <2>1, <2>2 DEF Sockets, TypeOK, Running
<1> QED
  BY <1>2, <1>3, <1>4, <1>5, <1>6, <1>7, <1>8, <1>9, MainSteps DEF OpenSession
-----------------------------------------------------------------------------
(* Completed, of any state of the wires.                                   *)
CompletedOn(w, f, u) ==
    \E s \in Socks : \E i \in 1..Len(w[s]) :
        /\ w[s][i].kind = "RTP" /\ w[s][i].fid = f /\ w[s][i].unit = u
        /\ w[s][i].marker

LEMMA PrimedWired ==
    ASSUME ~peerLost' =>
             /\ \A f \in 1..Len(delivered') :
                    \A u \in 1..Len(accepted'[f].nalus) : CompletedOn(wire', f, u)
             /\ call'[Main] # Idle =>
                    \A u \in 1..(call'[Main].unit - 1) : CompletedOn(wire', frames', u)
             /\ pc' = "sending" /\ call'[Main] = Idle =>
                    \A u \in 1..Len(accepted'[frames'].nalus) : CompletedOn(wire', frames', u)
    PROVE  Wired'
BY DEF Wired, Completed, CompletedOn, Active, Idle

LEMMA WiredOn ==
    ASSUME Wired, ~peerLost
    PROVE  /\ \A f \in 1..Len(delivered) :
                  \A u \in 1..Len(accepted[f].nalus) : CompletedOn(wire, f, u)
           /\ Active(Main) => \A u \in 1..(call[Main].unit - 1) : CompletedOn(wire, frames, u)
           /\ pc = "sending" /\ ~Active(Main) =>
                  \A u \in 1..Len(accepted[frames].nalus) : CompletedOn(wire, frames, u)
BY DEF Wired, Completed, CompletedOn

(* What is on a wire stays there.                                          *)
LEMMA CompletedKept ==
    ASSUME TypeOK, NEW q \in Item, Transmit(q), UNCHANGED <<tcpSock, conn>>,
           NEW f, NEW u, CompletedOn(wire, f, u)
    PROVE  CompletedOn(wire', f, u)
<1>1. PICK s \in Socks : \E i \in 1..Len(wire[s]) :
          /\ wire[s][i].kind = "RTP" /\ wire[s][i].fid = f /\ wire[s][i].unit = u
          /\ wire[s][i].marker
  BY DEF CompletedOn
<1> DEFINE w == wire[s]
<1>2. w \in Seq(Item) /\ (wire'[s] = w \/ wire'[s] = Append(w, q))
  BY AfterTransmit DEF TypeOK, Item
<1>3. PICK i \in 1..Len(w) : w[i].kind = "RTP" /\ w[i].fid = f /\ w[i].unit = u /\ w[i].marker
  BY <1>1
<1> HIDE DEF w
<1>4. Append(w, q)[i] = w[i] /\ i \in 1..Len(Append(w, q))
  BY <1>2, <1>3, Appended
<1>5. i \in 1..Len(wire'[s]) /\ wire'[s][i] = w[i]
  BY <1>2, <1>3, <1>4
<1> QED
  BY <1>3, <1>5 DEF CompletedOn

(* The last packet of a unit completes it.                                 *)
LEMMA CompletedNow ==
    ASSUME TypeOK, NEW q \in Item, Transmit(q), UNCHANGED <<tcpSock, conn>>, Connected,
           q.kind = "RTP", q.marker
    PROVE  CompletedOn(wire', q.fid, q.unit)
<1> DEFINE w == wire[tcpSock]
<1>1. tcpSock \in Socks /\ wire'[tcpSock] = Append(w, q) /\ w \in Seq(Item)
  BY AfterTransmit DEF TypeOK, Item
<1> HIDE DEF w
<1>2. Append(w, q)[Len(w) + 1] = q /\ Len(Append(w, q)) = Len(w) + 1 /\ Len(w) \in Nat
  BY <1>1, Appended
<1>3. Len(w) + 1 \in 1..Len(wire'[tcpSock]) /\ wire'[tcpSock][Len(w) + 1] = q
  BY <1>1, <1>2
<1> QED
  BY <1>1, <1>3 DEF CompletedOn

LEMMA PartWired ==
    ASSUME TInv, File, Sockets, Wired, Sending, ~peerLost,
           SendWhole(Main) \/ SendFragment(Main)
    PROVE  Wired'
<1> DEFINE c == call[Main]
<1>0. /\ TypeOK /\ OneActivity /\ Main \in Threads /\ UnitLeft(Main)
      /\ UNCHANGED <<delivered, accepted, frames, tcpSock, conn, pc>>
      /\ pc = "sending" /\ Active(Main) /\ c.fid = frames
  BY WorkingKeeps, OneThread
  DEF TInv, Sending, Working, sourceVars, UnchangedFile, SendWhole, SendFragment
<1>1. PICK fu \in FuKinds, from \in Nat, bytes \in Nat, payload \in Nat, d \in Activation :
        PartSent(Main, fu, from, bytes, payload, d)
  BY <1>0, WholePart, FragmentPart
<1> DEFINE q == Packet(Main, fu, from, bytes, payload)
<1>2. /\ Transmit(q) /\ q \in Item /\ q.kind = "RTP" /\ q.fid = frames /\ q.unit = c.unit
      /\ q.marker = Marker(fu)
  BY <1>0, <1>1, PacketType DEF PartSent, SendRtpPacket, Packet, Item
<1>3. /\ call'[Main] = d /\ d.fid = c.fid
      /\ fu \in {"start", "middle"} => d.unit = c.unit
      /\ fu \in {"whole", "end"} => d.unit = c.unit + 1
  BY <1>0, <1>1 DEF PartSent, TypeOK
<1> HIDE DEF q
<1>4. c.unit \in Nat
  BY <1>0, UnitLeftSound
<1>5. Connected
  BY <1>0 DEF Sockets, Running
<1>6. d # Idle
  <2>1. c.fid >= 1
    BY <1>0 DEF File, InFile
  <2> QED
    BY <1>3, <2>1 DEF Idle
<1>7. \A f \in 1..Len(delivered) :
          \A u \in 1..Len(accepted[f].nalus) : CompletedOn(wire', f, u)
  <2> TAKE f \in 1..Len(delivered)
  <2> TAKE u \in 1..Len(accepted[f].nalus)
  <2>1. CompletedOn(wire, f, u)
    BY WiredOn
  <2> QED
    BY <1>0, <1>2, <2>1, CompletedKept
<1>8. \A u \in 1..(c.unit - 1) : CompletedOn(wire', frames, u)
  <2> TAKE u \in 1..(c.unit - 1)
  <2>1. CompletedOn(wire, frames, u)
    BY <1>0, WiredOn
  <2> QED
    BY <1>0, <1>2, <2>1, CompletedKept
<1>9. fu \in {"whole", "end"} => CompletedOn(wire', frames, c.unit)
  <2> SUFFICES ASSUME fu \in {"whole", "end"}
               PROVE  CompletedOn(wire', frames, c.unit)
    OBVIOUS
  <2>1. q.marker
    BY <1>2 DEF Marker
  <2>2. CompletedOn(wire', q.fid, q.unit)
    BY <1>0, <1>2, <1>5, <2>1, CompletedNow
  <2> QED
    BY <1>2, <2>2
<1>10. \A u \in 1..(d.unit - 1) : CompletedOn(wire', frames, u)
  <2>1. CASE fu \in {"start", "middle"}
    BY <1>3, <1>8, <2>1
  <2>2. CASE fu \in {"whole", "end"}
    <3> TAKE u \in 1..(d.unit - 1)
    <3>1. u \in 1..(c.unit - 1) \/ u = c.unit
      BY <1>3, <1>4, <2>2
    <3> QED
      BY <1>8, <1>9, <2>2, <3>1
  <2> QED
    BY <2>1, <2>2 DEF FuKinds
<1> QED
  BY <1>0, <1>3, <1>6, <1>7, <1>10, PrimedWired

LEMMA EndWired ==
    ASSUME TInv, File, Wired, Sending, ~peerLost,
           FinishWithReport(Main) \/ Finish(Main)
    PROVE  Wired'
<1> DEFINE c == call[Main]
<1>0. /\ TypeOK /\ Main \in Threads
      /\ UNCHANGED <<delivered, accepted, frames, tcpSock, conn, pc>>
      /\ pc = "sending" /\ Active(Main) /\ c.fid = frames
  BY WorkingKeeps, OneThread DEF TInv, Sending, sourceVars, UnchangedFile
<1>1. /\ call'[Main] = Idle /\ FrameSent(Main)
      /\ wire' = wire \/ Transmit(Report(Main))
  BY <1>0 DEF FinishWithReport, Finish, Unlock, TypeOK
<1>2. \A f, u : CompletedOn(wire, f, u) => CompletedOn(wire', f, u)
  <2>1. CASE wire' = wire
    BY <2>1
  <2>2. CASE Transmit(Report(Main))
    <3>1. Report(Main) \in Item
      BY <1>0, ReportType DEF Item
    <3> TAKE f, u
    <3> QED
      BY <1>0, <2>2, <3>1, CompletedKept
  <2> QED
    BY <1>1, <2>1, <2>2
<1>3. \A u \in 1..Len(accepted[frames].nalus) : CompletedOn(wire, frames, u)
  <2>1. /\ c.nalus = accepted[frames].nalus /\ c.unit > Len(c.nalus)
        /\ c.unit \in Nat /\ c.nalus \in Seq(Nat)
    BY <1>0, <1>1, OneThread, ActivationFields DEF File, InFile, FrameSent
  <2>2. \A u \in 1..Len(c.nalus) : u \in 1..(c.unit - 1)
    BY <2>1
  <2> QED
    BY <1>0, <2>1, <2>2, WiredOn
<1>4. \A f \in 1..Len(delivered) :
          \A u \in 1..Len(accepted[f].nalus) : CompletedOn(wire', f, u)
  BY <1>2, WiredOn
<1>5. \A u \in 1..Len(accepted[frames].nalus) : CompletedOn(wire', frames, u)
  BY <1>2, <1>3
<1> QED
  BY <1>0, <1>1, <1>4, <1>5, PrimedWired

LEMMA NextWired ==
    ASSUME TInv, Phase, Queue, File, Sockets, Wired, MainNext
    PROVE  Wired'
<1>0. TypeOK /\ OneActivity /\ Main \in Threads
  BY OneThread DEF TInv
<1>1. CASE peerLost'
  BY <1>1, PrimedWired
<1>2. CASE ~peerLost' /\ Sending
  <2>1. ~peerLost /\ Working(Main)
    BY <1>2 DEF Sending, UnchangedFile
  <2>2. CASE Sigpipe(Main)
    <3>1. UNCHANGED <<delivered, accepted, frames, call, wire, pc>>
      BY <1>2, <2>2 DEF Sigpipe, Sending, sourceVars, UnchangedFile, history
    <3> QED
      BY <2>1, <3>1, WiredOn, PrimedWired DEF Active
  <2> QED
    BY <1>2, <2>1, <2>2, PartWired, EndWired DEF Working
<1>3. ASSUME ~peerLost, UNCHANGED <<delivered, accepted, frames, call, wire>>,
             pc' = "sending" => pc = "sending"
      PROVE  Wired'
  BY <1>3, WiredOn, PrimedWired DEF Active
<1>4. CASE ~peerLost' /\ Deliver
  <2>1. /\ ~peerLost /\ pc = "deliver" /\ UNCHANGED <<delivered, accepted>>
        /\ EnterFrame(Main, accepted[Head(frameQueue)])
    BY <1>4 DEF Deliver, Step, UnchangedFile, sourceVars
  <2>2. wire' = wire /\ call'[Main].unit = 1 /\ call'[Main].fid = frames + 1
    BY <1>0, <2>1 DEF EnterFrame, TypeOK
  <2>3. call'[Main] # Idle
    BY <1>0, <2>2 DEF Idle, TypeOK
  <2> QED
    BY <2>1, <2>2, <2>3, WiredOn, PrimedWired
<1>5. ASSUME NEW r \in Records, ReadRecord(r), Wanted(r), ~peerLost'
      PROVE  Wired'
  <2>1. /\ accepted' = Append(accepted, r.frame) /\ pc = "read" /\ pc' = "deliver"
        /\ UNCHANGED <<delivered, call, wire>> /\ r.frame \in Frames /\ ~peerLost
    BY <1>5, PushEffect, SessionStill, ProgramAssumption DEF ReadRecord
  <2>2. accepted \in Seq(Frames) /\ Len(delivered) = Len(accepted)
    BY <2>1 DEF Queue, InCallback
  <2>3. \A f \in 1..Len(delivered) : accepted'[f] = accepted[f]
    BY <2>1, <2>2, Appended
  <2>4. call[Main] = Idle
    BY <2>1, OneThread DEF Phase, Active
  <2> QED
    BY <2>1, <2>3, <2>4, WiredOn, PrimedWired
<1>6. CASE ~peerLost' /\ CallbackReturns
  <2>1. /\ ~peerLost /\ pc = "sending" /\ pc' = "read" /\ accepted' = accepted
        /\ Source!CallbackReturns(Main) /\ UNCHANGED <<call, wire>> /\ ~Active(Main)
    BY <1>6, SessionStill DEF CallbackReturns, Step, UnchangedFile, Sent
  <2>2. /\ frameQueue = <<pushed>> /\ pushed = Len(delivered) + 1 /\ delivered \in Seq(Nat)
        /\ frames = pushed
    BY <2>1 DEF Queue, InCallback, File
  <2>3. Len(delivered') = pushed
    <3>1. delivered' = Append(delivered, Head(frameQueue))
      BY <2>1 DEF Source!CallbackReturns
    <3>2. Head(frameQueue) = pushed /\ pushed \in Nat
      BY <2>2
    <3> QED
      BY <2>2, <3>1, <3>2, Appended
  <2>4. \A f \in 1..pushed : f \in 1..Len(delivered) \/ f = frames
    BY <2>2
  <2>5. \A f \in 1..Len(delivered') :
            \A u \in 1..Len(accepted[f].nalus) : CompletedOn(wire, f, u)
    BY <2>1, <2>3, <2>4, WiredOn
  <2> QED
    BY <2>1, <2>5, PrimedWired DEF Active
<1>7. ASSUME NEW r \in Records, ReadRecord(r), ~Wanted(r), ~peerLost'
      PROVE  Wired'
  <2>1. ~peerLost /\ UNCHANGED <<delivered, accepted, frames, call, wire, pc>>
    BY <1>7, SessionStill DEF ReadRecord, sourceVars
  <2> QED
    BY <1>3, <2>1
<1>8. CASE /\ ~peerLost' /\ ~CallbackReturns /\ ~Deliver /\ ~Sending
           /\ \A r \in Records : ~ReadRecord(r)
  <2>1. UNCHANGED <<delivered, accepted>>
    BY <1>8, QueueStill
  <2>2. UNCHANGED <<frames, wire, call>>
    <3>1. CASE SessionIdle
      BY <3>1, IdleStill, SessionStill
    <3>2. CASE StartSession
      BY <3>2 DEF StartSession, StartUp, history
    <3>3. CASE OpenSession
      BY <3>3 DEF OpenSession, CreateSocket, Connect, history
    <3>4. CASE StopSessions \/ Destructors
      BY <3>4, SessionStill DEF StopSessions, Destructors, StopSession, CloseSocket, history
    <3>5. CASE ServerCloses
      BY <3>5 DEF ServerCloses, PeerGone, history
    <3> QED
      BY <1>8, <3>1, <3>2, <3>3, <3>4, <3>5, MainSteps
  <2>3. ~peerLost /\ (pc' = "sending" => pc = "sending")
    <3>1. CASE OpenSession
      BY <1>8, <3>1 DEF OpenSession, UnchangedFile
    <3>2. CASE CheckArguments \/ StartSession \/ InstallCallback \/ OpenFile \/ EndOfFile
               \/ StopSessions \/ Destructors
      <4>1. peerLost' = peerLost
        BY <3>2 DEF CheckArguments, StartSession, InstallCallback, OpenFile, EndOfFile,
                    StopSessions, Destructors, UnchangedFile
      <4>2. pc' # "sending"
        BY <3>2 DEF CheckArguments, StartSession, InstallCallback, OpenFile, EndOfFile,
                    StopSessions, Destructors, Step
      <4> QED
        BY <1>8, <4>1, <4>2
    <3>3. CASE ServerCloses \/ Ended
      BY <1>8, <3>3 DEF ServerCloses, Ended, mainVars
    <3> QED
      BY <1>8, <3>1, <3>2, <3>3 DEF MainNext, MainStep
  <2> QED
    BY <1>3, <2>1, <2>2, <2>3
<1> QED
  BY <1>1, <1>2, <1>4, <1>5, <1>6, <1>7, <1>8
-----------------------------------------------------------------------------
MInv == TInv /\ Typed /\ Phase /\ Queue /\ File /\ Sockets /\ Wired

LEMMA NextMInv == MInv /\ [MainNext]_mainVars => MInv' /\ [Next]_vars
<1>1. ASSUME MInv, MainNext
      PROVE  MInv' /\ [Next]_vars
  <2>1. [Next]_vars
    BY <1>1, SessionStep DEF MInv
  <2>2. TInv'
    BY <1>1, <2>1, NextTInv DEF MInv
  <2>3. Typed' /\ Phase' /\ Queue' /\ File' /\ Sockets' /\ Wired'
    BY <1>1, NextTyped, NextPhase, NextQueue, NextFile, NextSockets, NextWired DEF MInv
  <2> QED
    BY <2>1, <2>2, <2>3 DEF MInv
<1>2. ASSUME MInv, UNCHANGED mainVars
      PROVE  MInv' /\ [Next]_vars
  <2>1. UNCHANGED <<vars, frameQueue, callback, mutex, pushed, delivered, dropped, unserved,
                    pc, reader, reads, accepted, peerLost>>
    BY <1>2 DEF mainVars, sourceVars
  <2>2. TInv'
    BY <1>2, <2>1, NextTInv DEF MInv
  <2>3. Typed' /\ Phase' /\ Queue'
    BY <1>2, <2>1, SessionStill DEF MInv, Typed, Phase, Queue, InLoop, InCallback
  <2>4. File'
    BY <1>2, <2>1, SessionStill DEF MInv, File, InFile, WireIsFile
  <2>5. Sockets'
    BY <1>2, <2>1, SessionStill DEF MInv, Sockets, Running
  <2>6. Wired'
    BY <1>2, <2>1, SessionStill DEF MInv, Wired, Completed
  <2> QED
    BY <2>1, <2>2, <2>3, <2>4, <2>5, <2>6 DEF MInv
<1> QED
  BY <1>1, <1>2

LEMMA InitMInv == MainInit => MInv /\ Init
<1> SUFFICES ASSUME MainInit
             PROVE  MInv
  BY DEF MainInit
<1>0. Init /\ Source!Init
  BY DEF MainInit
<1>1. TInv
  BY <1>0, InitTInv
<1>2. /\ frameQueue = <<>> /\ callback = FALSE /\ mutex = NoThread /\ pushed = 0
      /\ delivered = <<>> /\ dropped = {} /\ unserved = 0
  BY <1>0 DEF Source!Init
<1>3. /\ pc = "arguments" /\ reader = "none" /\ reads = 0 /\ accepted = <<>>
      /\ starting = "no" /\ sendMutex = NoThread /\ frames = 0 /\ tcpSock = NoSock
      /\ ~Active(Main) /\ \A s \in Socks : wire[s] = <<>> /\ conn[s] = "unused"
  BY <1>0, <1>1, OneThread DEF MainInit, Init
<1>4. Phase
  BY <1>3 DEF Phase, InLoop
<1>5. Queue
  <2>1. accepted \in Seq(Frames) /\ delivered \in Seq(Nat) /\ Len(<<>>) = 0
    BY <1>2, <1>3
  <2> QED
    BY <1>2, <1>3, <2>1, ProgramAssumption DEF Queue, InCallback
<1>6. File
  BY <1>2, <1>3 DEF File, WireIsFile
<1>7. Sockets
  BY <1>3 DEF Sockets, Running
<1>8. Wired
  BY <1>2, <1>3 DEF Wired
<1>9. Typed
  BY <1>2, <1>3 DEF MainInit, Typed
<1> QED
  BY <1>1, <1>4, <1>5, <1>6, <1>7, <1>8, <1>9 DEF MInv

THEOREM MainInvariance == MainSpec => []MInv
BY InitMInv, NextMInv, PTL DEF MainSpec
-----------------------------------------------------------------------------
(* main keeps the order its session needs: wherever it calls start, stop   *)
(* or sendFrame, which do not look, no other of them is in progress that   *)
(* RtpSession forbids; so its every step is a step of RtpSession, or none. *)
THEOREM Discipline == MainSpec => SessionDiscipline
BY InitMInv, NextMInv, PTL DEF MainSpec, SessionDiscipline, Spec

(* So what the program puts on its connection has all the properties of a  *)
(* session's streams (sendFrame called from the callback of main.cpp).     *)
THEOREM ProgramStreams ==
    MainSpec => [](/\ FragmentsReassemble /\ PacketsSound /\ FramesContiguous
                   /\ CountersMatchWire /\ OneSsrcPerConnection /\ ReportsSpaced
                   /\ TimestampsFollowPts)
BY Discipline, Reassembly, Packets, Contiguity, Counts, OneSsrc, Cadence, Timeline, PTL
DEF SessionDiscipline

THEOREM MainTypes == MainSpec => []MainTypeOK
<1>1. MInv => MainTypeOK
  <2> SUFFICES ASSUME MInv
               PROVE  MainTypeOK
    OBVIOUS
  <2>1. /\ accepted \in Seq(Frames) /\ pushed = Len(accepted) /\ pushed \in Nat
        /\ delivered \in Seq(Nat) /\ dropped = {} /\ unserved = 0 /\ reads \in 0..MaxReads
    BY DEF MInv, Queue
  <2>2. frameQueue \in {<<>>, <<pushed>>} /\ mutex \in {Main, NoThread}
    BY DEF MInv, Queue
  <2>3. /\ <<>> \in Seq(Nat) /\ <<pushed>> \in Seq(Nat)
        /\ Len(<<>>) = 0 /\ Len(<<pushed>>) = 1
    BY <2>1
  <2>4. frameQueue \in Seq(Nat) /\ Len(frameQueue) <= MAX_QUEUE_SIZE
    <3>1. 0 <= MAX_QUEUE_SIZE /\ 1 <= MAX_QUEUE_SIZE
      BY ProgramAssumption
    <3> QED
      BY <2>2, <2>3, <3>1
  <2>5. Source!TypeOK
    BY <2>1, <2>2, <2>4, OneThread DEF MInv, Typed, Source!TypeOK
  <2> QED
    BY <2>1, <2>5 DEF MInv, TInv, Typed, MainTypeOK
<1> QED
  BY MainInvariance, <1>1, PTL

(* Whatever is on a connection is of the frame the file had at that place  *)
(* (the read loop, pushFrame, deliverNext and sendFrame together).         *)
THEOREM FileOrder == MainSpec => []WireIsFile
<1>1. MInv => WireIsFile
  BY DEF MInv, File
<1> QED
  BY MainInvariance, <1>1, PTL

(* Every unit of a delivered frame was sent to its last byte, unless the   *)
(* server left first.                                                      *)
THEOREM Delivery == MainSpec => []DeliveredIsOnWire
<1>1. MInv => DeliveredIsOnWire
  <2> SUFFICES ASSUME MInv, ~peerLost, NEW f \in Source!DeliveredFrames,
                      NEW u \in 1..Len(accepted[f].nalus)
               PROVE  Completed(f, u)
    BY DEF DeliveredIsOnWire
  <2>1. f \in 1..Len(delivered)
    BY DEF Source!DeliveredFrames, MInv, Queue
  <2> QED
    BY <2>1 DEF MInv, Wired
<1> QED
  BY MainInvariance, <1>1, PTL

(* With main's callback in place before the first push, the queue never    *)
(* holds a frame back and never drops one, whatever its capacity.          *)
THEOREM Prompt == MainSpec => []NothingQueued
<1>1. MInv => NothingQueued
  BY DEF MInv, Queue, InCallback, NothingQueued
<1> QED
  BY MainInvariance, <1>1, PTL

(* Every way out of main leaves no socket and no file open and no lock     *)
(* held.                                                                   *)
THEOREM Exit == MainSpec => []CleanExit
<1>1. MInv => CleanExit
  <2> SUFFICES ASSUME MInv, pc = "exit"
               PROVE  /\ \A s \in Socks : conn[s] \in {"unused", "closed"}
                      /\ reader # "open"
                      /\ mutex = NoThread /\ sendMutex = NoThread
    BY DEF CleanExit
  <2>1. \A s \in Socks : s # NoSock
    BY SessionAssumption DEF Socks, NoSock
  <2>2. \A s \in Socks : conn[s] \in {"unused", "closed"}
    BY <2>1 DEF MInv, Sockets
  <2> QED
    BY <2>2 DEF MInv, Phase, Queue, InLoop, InCallback
<1> QED
  BY MainInvariance, <1>1, PTL
-----------------------------------------------------------------------------
(* The stages of the program, in their order.                              *)
LEMMA StageNames ==
    /\ Len(Stages) = 9
    /\ Stages[1] = "arguments" /\ Stages[2] = "start" /\ Stages[3] = "socket"
    /\ Stages[4] = "callback" /\ Stages[5] = "open" /\ Stages[6] = "read"
    /\ Stages[7] = "stop" /\ Stages[8] = "return" /\ Stages[9] = "exit"
BY DEF Stages

LEMMA StageUp ==
    ASSUME NEW m \in 1..9, NEW n \in 1..9, m < n, pc = Stages[m], pc' = Stages[n]
    PROVE  LaterStage
BY StageNames DEF LaterStage

(* Every step of main brings it nearer to its end, for any file, frames    *)
(* and MTU: what is left to a proof that it ends is that its blocking      *)
(* calls do (main, with every call it makes).                              *)
THEOREM Advance == MainSpec => MainAdvances
<1> DEFINE Nears ==
      \/ ~alive'
      \/ LaterStage /\ reads' = reads
      \/ /\ starting = "socket" /\ starting' = "connect"
         /\ pc = "socket" /\ pc' = pc /\ reads' = reads
      \/ /\ reads < MaxReads /\ reads' = reads + 1
         /\ pc = "read" /\ pc' \in {"read", "deliver"}
      \/ /\ <<pc, pc'>> \in {<<"deliver", "sending">>, <<"sending", "read">>}
         /\ reads' = reads
      \/ /\ pc = "sending" /\ pc' = pc /\ reads' = reads
         /\ Nearer(call[Main], call'[Main])
<1>1. MInv /\ [MainNext]_mainVars => [MainStep => Nears]_mainVars
  <2> SUFFICES ASSUME MInv, MainStep
               PROVE  Nears
    OBVIOUS
  <2>1. CASE CheckArguments
    <3>1. pc = "arguments" /\ pc' \in {"start", "exit"} /\ reads' = reads
      BY <2>1 DEF CheckArguments, Step, UnchangedFile
    <3> QED
      BY <3>1, StageNames, StageUp
  <2>2. CASE StartSession
    <3>1. pc = "start" /\ pc' = "socket" /\ reads' = reads
      BY <2>2 DEF StartSession, Step, UnchangedFile
    <3> QED
      BY <3>1, StageNames, StageUp
  <2>3. CASE OpenSession
    <3>1. pc = "socket" /\ reads' = reads
      BY <2>3 DEF OpenSession, UnchangedFile
    <3>2. CASE starting' = "no"
      <4>1. pc' \in {"callback", "return"}
        BY <2>3, <3>2 DEF OpenSession
      <4> QED
        BY <3>1, <4>1, StageNames, StageUp
    <3>3. CASE starting' # "no"
      BY <2>3, <3>1, <3>3 DEF OpenSession, CreateSocket, Connect
    <3> QED
      BY <3>2, <3>3
  <2>4. CASE InstallCallback
    <3>1. pc = "callback" /\ pc' = "open" /\ reads' = reads
      BY <2>4 DEF InstallCallback, Step, UnchangedFile
    <3> QED
      BY <3>1, StageNames, StageUp
  <2>5. CASE OpenFile
    <3>1. pc = "open" /\ pc' \in {"read", "return"} /\ reads' = reads
      BY <2>5 DEF OpenFile, Step
    <3> QED
      BY <3>1, StageNames, StageUp
  <2>6. ASSUME NEW r \in Records, ReadRecord(r)
        PROVE  Nears
    BY <2>6 DEF ReadRecord
  <2>7. CASE Deliver
    BY <2>7 DEF Deliver, Step, UnchangedFile
  <2>8. CASE Sending
    <3>1. Main \in Threads /\ TInv
      BY OneThread DEF MInv
    <3>2. ~alive' \/ Nearer(call[Main], call'[Main])
      BY <2>8, <3>1, WorkingNearer DEF Sending
    <3> QED
      BY <2>8, <3>2 DEF Sending, UnchangedFile
  <2>9. CASE CallbackReturns
    BY <2>9 DEF CallbackReturns, Step, UnchangedFile
  <2>10. CASE EndOfFile
    <3>1. pc = "read" /\ pc' = "stop" /\ reads' = reads
      BY <2>10 DEF EndOfFile, Step
    <3> QED
      BY <3>1, StageNames, StageUp
  <2>11. CASE StopSessions \/ Destructors
    <3>1. <<pc, pc'>> \in {<<"stop", "return">>, <<"return", "exit">>} /\ reads' = reads
      BY <2>11 DEF StopSessions, Destructors, Step, UnchangedFile
    <3> QED
      BY <3>1, StageNames, StageUp
  <2> QED
    BY <2>1, <2>2, <2>3, <2>4, <2>5, <2>6, <2>7, <2>8, <2>9, <2>10, <2>11 DEF MainStep
<1> QED
  BY MainInvariance, <1>1, PTL DEF MainSpec, MainAdvances
-----------------------------------------------------------------------------
(* EndToEnd's Leads, IsUnitOfFile and ReceivedIsFile, of any file a and    *)
(* any units got.                                                          *)
LeadsIn(a, f, u, g, v) ==
    \/ g = f /\ v = u
    \/ /\ g > f /\ v = 1
       /\ u = Len(a[f].nalus) + 1
       /\ \A k \in (f + 1)..(g - 1) : a[k].nalus = <<>>

UnitIn(a, x) ==
    /\ x.fid \in 1..Len(a)
    /\ x.unit \in 1..Len(a[x.fid].nalus)
    /\ x.size = a[x.fid].nalus[x.unit]

Story(a, got) ==
    /\ \A i \in 1..Len(got) : UnitIn(a, got[i])
    /\ got # <<>> => LeadsIn(a, 1, 1, got[1].fid, got[1].unit)
    /\ \A i \in 1..(Len(got) - 1) :
           LeadsIn(a, got[i].fid, got[i].unit + 1, got[i + 1].fid, got[i + 1].unit)

(* After the units got, the file goes on at unit v of frame g.             *)
Reaches(a, got, g, v) ==
    IF got = <<>> THEN LeadsIn(a, 1, 1, g, v)
    ELSE LeadsIn(a, got[Len(got)].fid, got[Len(got)].unit + 1, g, v)

LEMMA LeadsNext ==
    ASSUME NEW a, NEW f \in Nat, NEW u, NEW g \in 1..Len(a), Len(a) \in Nat,
           a[g].nalus \in Seq(Nat), LeadsIn(a, f, u, g, Len(a[g].nalus) + 1)
    PROVE  LeadsIn(a, f, u, g + 1, 1)
<1> DEFINE n == a[g].nalus
<1>1. CASE g = f /\ Len(n) + 1 = u
  <2>1. g + 1 > f /\ \A k \in (f + 1)..(g + 1 - 1) : FALSE
    BY <1>1
  <2> QED
    BY <1>1, <2>1 DEF LeadsIn
<1>2. CASE /\ g > f /\ Len(n) + 1 = 1 /\ u = Len(a[f].nalus) + 1
           /\ \A k \in (f + 1)..(g - 1) : a[k].nalus = <<>>
  <2>1. n = <<>>
    <3>1. n \in Seq(Nat) /\ Len(n) + 1 = 1
      BY <1>2
    <3> HIDE DEF n
    <3> QED
      BY <3>1
  <2>2. \A k \in (f + 1)..(g + 1 - 1) : k \in (f + 1)..(g - 1) \/ k = g
    OBVIOUS
  <2>3. g + 1 > f
    BY <1>2
  <2> QED
    BY <1>2, <2>1, <2>2, <2>3 DEF LeadsIn
<1> QED
  BY <1>1, <1>2 DEF LeadsIn

LEMMA LeadsGrows ==
    ASSUME NEW S, NEW a \in Seq(S), NEW e \in S, NEW f \in Nat \ {0}, NEW u,
           NEW g \in Nat, g <= Len(a) + 1, NEW v, LeadsIn(a, f, u, g, v)
    PROVE  LeadsIn(Append(a, e), f, u, g, v)
<1>1. CASE g = f /\ v = u
  BY <1>1 DEF LeadsIn
<1>2. CASE /\ g > f /\ v = 1 /\ u = Len(a[f].nalus) + 1
           /\ \A k \in (f + 1)..(g - 1) : a[k].nalus = <<>>
  <2>1. \A i \in 1..Len(a) : Append(a, e)[i] = a[i]
    BY Appended
  <2>2. Len(a) \in Nat
    OBVIOUS
  <2>3. f \in 1..Len(a) /\ \A k \in (f + 1)..(g - 1) : k \in 1..Len(a)
    BY <1>2, <2>2
  <2> DEFINE b == Append(a, e)
  <2>4. b[f] = a[f] /\ \A k \in (f + 1)..(g - 1) : b[k] = a[k]
    BY <2>1, <2>3
  <2> HIDE DEF b
  <2>5. LeadsIn(b, f, u, g, v)
    BY <1>2, <2>4 DEF LeadsIn
  <2> QED
    BY <2>5 DEF b
<1> QED
  BY <1>1, <1>2 DEF LeadsIn

LEMMA StoryFields ==
    ASSUME NEW a \in Seq(Frames), NEW got \in Seq(Unit), Story(a, got),
           NEW i \in 1..Len(got)
    PROVE  /\ got[i] \in Unit /\ got[i].fid \in 1..Len(a) /\ got[i].fid \in Nat \ {0}
           /\ got[i].unit \in Nat
<1>1. got[i] \in Unit
  OBVIOUS
<1>2. UnitIn(a, got[i]) /\ Len(a) \in Nat
  BY DEF Story
<1> QED
  BY <1>1, <1>2 DEF UnitIn, Unit

(* The file grows, what has been received of it stays as it is.            *)
LEMMA StoryGrows ==
    ASSUME NEW a \in Seq(Frames), NEW e \in Frames, NEW got \in Seq(Unit), Story(a, got)
    PROVE  Story(Append(a, e), got)
<1> DEFINE b == Append(a, e)
<1>1. /\ Len(b) = Len(a) + 1 /\ Len(a) \in Nat
      /\ \A i \in 1..Len(a) : b[i] = a[i]
  BY Appended
<1>2. \A f \in Nat \ {0}, u \in Nat, g \in 1..Len(a), v \in Nat :
          LeadsIn(a, f, u, g, v) => LeadsIn(b, f, u, g, v)
  BY <1>1, LeadsGrows
<1> HIDE DEF b
<1>3. Len(got) \in Nat /\ (got # <<>> => 1 \in 1..Len(got))
  OBVIOUS
<1>4. \A i \in 1..Len(got) : UnitIn(b, got[i])
  <2> TAKE i \in 1..Len(got)
  <2>1. UnitIn(a, got[i])
    BY DEF Story
  <2> QED
    BY <1>1, <2>1 DEF UnitIn
<1>5. got # <<>> => LeadsIn(b, 1, 1, got[1].fid, got[1].unit)
  <2> SUFFICES ASSUME got # <<>>
               PROVE  LeadsIn(b, 1, 1, got[1].fid, got[1].unit)
    OBVIOUS
  <2>1. LeadsIn(a, 1, 1, got[1].fid, got[1].unit)
    BY DEF Story
  <2> QED
    BY <1>2, <1>3, <2>1, StoryFields
<1>6. ASSUME NEW i \in 1..(Len(got) - 1)
      PROVE  LeadsIn(b, got[i].fid, got[i].unit + 1, got[i + 1].fid, got[i + 1].unit)
  <2>1. LeadsIn(a, got[i].fid, got[i].unit + 1, got[i + 1].fid, got[i + 1].unit)
    BY DEF Story
  <2>2. i \in 1..Len(got) /\ i + 1 \in 1..Len(got)
    BY <1>3
  <2>3. /\ got[i].fid \in Nat \ {0} /\ got[i].unit + 1 \in Nat
        /\ got[i + 1].fid \in 1..Len(a) /\ got[i + 1].unit \in Nat
    BY <2>2, StoryFields
  <2> QED
    BY <1>2, <2>1, <2>3
<1> QED
  BY <1>4, <1>5, <1>6 DEF Story, b

LEMMA ReachesGrows ==
    ASSUME NEW a \in Seq(Frames), NEW e \in Frames, NEW got \in Seq(Unit), Story(a, got),
           NEW g \in Nat, g <= Len(a) + 1, NEW v, Reaches(a, got, g, v)
    PROVE  Reaches(Append(a, e), got, g, v)
<1>1. CASE got = <<>>
  BY <1>1, LeadsGrows DEF Reaches
<1>2. CASE got # <<>>
  <2> DEFINE i == Len(got)
  <2>1. i \in 1..Len(got)
    BY <1>2
  <2>2. got[i].fid \in Nat \ {0}
    BY <2>1, StoryFields
  <2>3. LeadsIn(a, got[i].fid, got[i].unit + 1, g, v)
    BY <1>2 DEF Reaches
  <2>4. LeadsIn(Append(a, e), got[i].fid, got[i].unit + 1, g, v)
    BY <2>2, <2>3, LeadsGrows
  <2> QED
    BY <1>2, <2>4 DEF Reaches
<1> QED
  BY <1>1, <1>2

(* After the last unit of frame g the file goes on with the next frame.    *)
LEMMA ReachesNext ==
    ASSUME NEW a \in Seq(Frames), NEW got \in Seq(Unit), Story(a, got),
           NEW g \in 1..Len(a), Reaches(a, got, g, Len(a[g].nalus) + 1)
    PROVE  Reaches(a, got, g + 1, 1)
<1>1. a[g].nalus \in Seq(Nat) /\ Len(a) \in Nat
  <2>1. a[g] \in Frames /\ Len(a) \in Nat
    OBVIOUS
  <2> QED
    BY <2>1, SessionAssumption
<1>2. CASE got = <<>>
  BY <1>1, <1>2, LeadsNext DEF Reaches
<1>3. CASE got # <<>>
  <2> DEFINE i == Len(got)
  <2>1. i \in 1..Len(got)
    BY <1>3
  <2>2. got[i].fid \in Nat
    BY <2>1, StoryFields
  <2>3. LeadsIn(a, got[i].fid, got[i].unit + 1, g, Len(a[g].nalus) + 1)
    BY <1>3 DEF Reaches
  <2> HIDE DEF i
  <2>4. LeadsIn(a, got[i].fid, got[i].unit + 1, g + 1, 1)
    BY <1>1, <2>2, <2>3, LeadsNext
  <2> QED
    BY <1>3, <2>4 DEF Reaches, i
<1> QED
  BY <1>2, <1>3

(* The next unit of the file is received.                                  *)
LEMMA StoryExtends ==
    ASSUME NEW a \in Seq(Frames), NEW got \in Seq(Unit), Story(a, got),
           NEW x \in Unit, UnitIn(a, x), Reaches(a, got, x.fid, x.unit)
    PROVE  /\ Story(a, Append(got, x))
           /\ Reaches(a, Append(got, x), x.fid, x.unit + 1)
<1> DEFINE more == Append(got, x)
           n == Len(got)
<1>1. /\ n \in Nat /\ Len(more) = n + 1 /\ more[n + 1] = x /\ more # <<>>
      /\ \A i \in 1..n : more[i] = got[i]
  BY Appended
<1>2. got = <<>> <=> n = 0
  OBVIOUS
<1> HIDE DEF more
<1>3. \A i \in 1..Len(more) : UnitIn(a, more[i])
  <2>1. \A i \in 1..n : UnitIn(a, more[i])
    BY <1>1 DEF Story
  <2>2. \A i \in 1..Len(more) : i \in 1..n \/ i = n + 1
    BY <1>1
  <2> QED
    BY <1>1, <2>1, <2>2
<1>4. LeadsIn(a, 1, 1, more[1].fid, more[1].unit)
  <2>1. CASE n = 0
    BY <1>1, <1>2, <2>1 DEF Reaches
  <2>2. CASE n # 0
    <3>1. 1 \in 1..n
      BY <1>1, <2>2
    <3> QED
      BY <1>1, <1>2, <2>2, <3>1 DEF Story
  <2> QED
    BY <2>1, <2>2
<1>5. ASSUME NEW i \in 1..(Len(more) - 1)
      PROVE  LeadsIn(a, more[i].fid, more[i].unit + 1, more[i + 1].fid, more[i + 1].unit)
  <2>1. i \in 1..n
    BY <1>1
  <2>2. CASE i = n
    <3>1. got # <<>> /\ more[n] = got[n] /\ more[n + 1] = x
      BY <1>1, <1>2, <2>1, <2>2
    <3> QED
      BY <2>2, <3>1 DEF Reaches
  <2>3. CASE i # n
    <3>1. i \in 1..(n - 1) /\ i + 1 \in 1..n
      BY <1>1, <2>1, <2>3
    <3>2. LeadsIn(a, got[i].fid, got[i].unit + 1, got[i + 1].fid, got[i + 1].unit)
      BY <3>1 DEF Story
    <3> QED
      BY <1>1, <2>1, <3>1, <3>2
  <2> QED
    BY <2>2, <2>3
<1>6. Story(a, more)
  BY <1>3, <1>4, <1>5 DEF Story
<1>7. Reaches(a, more, x.fid, x.unit + 1)
  BY <1>1 DEF Reaches, LeadsIn
<1> QED
  BY <1>6, <1>7 DEF more
-----------------------------------------------------------------------------
(* The program and its server: the receiver has no state of its own that   *)
(* main could see, so both invariants hold together.                       *)
LEMMA InitNet == NetInit => MInv /\ LInv
<1> SUFFICES ASSUME NetInit
             PROVE  MInv /\ LInv
  OBVIOUS
<1>1. MInv /\ Init
  BY InitMInv DEF NetInit
<1>2. LinkInit
  BY <1>1 DEF NetInit, LinkInit
<1> QED
  BY <1>1, <1>2, InitLInv

LEMMA NextNet ==
    MInv /\ LInv /\ [NetNext]_netVars
        => MInv' /\ LInv' /\ [LinkNext]_linkVars /\ [MainNext]_mainVars
<1> SUFFICES ASSUME MInv, LInv, [NetNext]_netVars
             PROVE  MInv' /\ LInv' /\ [LinkNext]_linkVars /\ [MainNext]_mainVars
  OBVIOUS
<1>1. [MainNext]_mainVars
  BY DEF NetNext, netVars
<1>2. MInv' /\ [Next]_vars
  BY <1>1, NextMInv
<1>3. [LinkNext]_linkVars
  <2>1. CASE Received /\ Next
    BY <2>1 DEF LinkNext
  <2>2. CASE Received /\ UNCHANGED vars
    <3>1. wire' = wire
      BY <2>2, SessionStill
    <3>2. rx' = rx
      BY <2>2, <3>1 DEF Received, LInv, RxInv
    <3> QED
      BY <2>2, <3>2 DEF linkVars
  <2>3. CASE UNCHANGED netVars
    <3>1. vars' = vars /\ rx' = rx
      BY <2>3 DEF netVars, mainVars
    <3> QED
      BY <3>1 DEF linkVars
  <2> QED
    BY <1>2, <2>1, <2>2, <2>3 DEF NetNext
<1> QED
  BY <1>1, <1>2, <1>3, NextLInv

(* A server that takes what it is sent does not disturb the program, so    *)
(* all that is proved of the program holds of the two together (main).     *)
THEOREM Program == NetSpec => MainSpec
<1>1. NetInit => MainInit
  BY DEF NetInit
<1>2. [NetNext]_netVars => [MainNext]_mainVars
  BY DEF NetNext, netVars
<1> QED
  BY <1>1, <1>2, PTL DEF NetSpec, MainSpec

(* The program on its connection implements the stream of whole units, as  *)
(* RtpSession does for any callers (main's calls of start, sendFrame and   *)
(* stop).                                                                  *)
THEOREM ProgramStream == NetSpec => ImplementsUnitStream
<1>1. NetSpec => LinkSpec
  <2>1. NetInit => LinkInit
    BY DEF NetInit, MainInit, LinkInit
  <2> QED
    BY <2>1, InitNet, NextNet, PTL DEF NetSpec, LinkSpec
<1> QED
  BY <1>1, Link, PTL
-----------------------------------------------------------------------------
(* Where the frame in progress, or the next one after n, goes on.          *)
Following(a, got, c, n) ==
    IF c = Idle THEN Reaches(a, got, n + 1, 1) ELSE Reaches(a, got, c.fid, c.unit)

(* What is received is the file up to where the connection's sender is.    *)
Cursor ==
    /\ pc \in {"arguments", "start", "socket"} => accepted = <<>>
    /\ \A s \in Socks : Story(accepted, rx[s].units)
    /\ Connected => Following(accepted, rx[tcpSock].units, call[Main], frames)

LEMMA PrimedCursor ==
    ASSUME pc' \in {"arguments", "start", "socket"} => accepted' = <<>>,
           \A s \in Socks : Story(accepted', rx'[s].units),
           Connected' => Following(accepted', rx'[tcpSock'].units, call'[Main], frames')
    PROVE  Cursor'
BY DEF Cursor, Story, UnitIn, LeadsIn, Following, Reaches, Idle

LEMMA StoryReceived ==
    ASSUME \A s \in Socks : Story(accepted, rx[s].units)
    PROVE  ReceivedIsFile
BY DEF Story, UnitIn, LeadsIn, ReceivedIsFile, IsUnitOfFile, Leads

(* Steps that neither send nor accept anything.                            *)
LEMMA CursorSame ==
    ASSUME Cursor, UNCHANGED <<accepted, rx, call, frames>>,
           Connected' => Connected /\ tcpSock' = tcpSock,
           pc' \in {"arguments", "start", "socket"}
               => pc \in {"arguments", "start", "socket"}
    PROVE  Cursor'
BY PrimedCursor DEF Cursor

(* No wire changes but in a turn of sendFrame.                             *)
LEMMA RxSame ==
    ASSUME LInv, Received, wire' = wire
    PROVE  rx' = rx
BY DEF Received, LInv, RxInv

LEMMA PushCursor ==
    ASSUME MInv, LInv, Received, Cursor, NEW r \in Records, ReadRecord(r), Wanted(r)
    PROVE  Cursor'
<1> DEFINE a == accepted
           more == Append(a, r.frame)
<1>1. /\ accepted' = more /\ pc = "read" /\ pc' = "deliver" /\ r.frame \in Frames
      /\ UNCHANGED <<frames, call, wire, tcpSock>> /\ Connected' = Connected
  BY PushEffect, SessionStill, ProgramAssumption DEF ReadRecord, MInv
<1>2. a \in Seq(Frames) /\ pushed = Len(a)
  BY DEF MInv, Queue
<1>3. frames = Len(a) /\ call[Main] = Idle
  BY <1>1, <1>2, OneThread DEF MInv, Phase, File, Active
<1>4. rx' = rx /\ \A s \in Socks : rx[s].units \in Seq(Unit)
  BY <1>1, RxSame DEF LInv, RxInv, Receiver
<1> HIDE DEF more
<1>5. \A s \in Socks : Story(more, rx[s].units)
  BY <1>1, <1>2, <1>4, StoryGrows DEF Cursor, more
<1>6. ASSUME Connected
      PROVE  Following(more, rx[tcpSock].units, call[Main], frames)
  <2>1. tcpSock \in Socks
    BY <1>6 DEF Connected, MInv, TInv, TypeOK
  <2>2. Reaches(a, rx[tcpSock].units, frames + 1, 1)
    BY <1>3, <1>6 DEF Cursor, Following
  <2>3. frames + 1 \in Nat /\ frames + 1 <= Len(a) + 1
    BY <1>2, <1>3
  <2>4. Reaches(more, rx[tcpSock].units, frames + 1, 1)
    BY <1>1, <1>2, <1>4, <2>1, <2>2, <2>3, ReachesGrows DEF Cursor, more
  <2> QED
    BY <1>3, <2>4 DEF Following
<1> QED
  BY <1>1, <1>4, <1>5, <1>6, PrimedCursor

LEMMA PartCursor ==
    ASSUME MInv, LInv, Received, Cursor, Sending, SendWhole(Main) \/ SendFragment(Main)
    PROVE  Cursor'
<1> DEFINE c == call[Main]
           a == accepted
<1>0. /\ TInv /\ TypeOK /\ Main \in Threads /\ UnitLeft(Main) /\ c # Idle
      /\ UNCHANGED <<accepted, frames, tcpSock, conn, pc>> /\ InFile(c)
      /\ pc = "sending" /\ a \in Seq(Frames)
  BY WorkingKeeps, OneThread
  DEF MInv, TInv, File, Queue, Sending, Working, Active, UnchangedFile, SendWhole, SendFragment
<1>1. PICK fu \in FuKinds, from \in Nat, bytes \in Nat, payload \in Nat, d \in Activation :
        PartSent(Main, fu, from, bytes, payload, d)
  BY <1>0, WholePart, FragmentPart
<1> DEFINE q == Packet(Main, fu, from, bytes, payload)
<1>2. /\ call'[Main] = d /\ d.fid = c.fid /\ SoundPacket(q)
      /\ fu \in {"start", "middle"} => d.unit = c.unit
      /\ fu \in {"whole", "end"} => d.unit = c.unit + 1
  BY <1>0, <1>1 DEF PartSent, TypeOK
<1>3. /\ q.fu = fu /\ q.fid = c.fid /\ q.unit = c.unit /\ q.from = from
      /\ q.bytes = bytes /\ q.size = c.nalus[c.unit] /\ q.marker = Marker(fu)
  BY DEF Packet
<1>4. rx' = RxAfter(q)
  BY <1>0, <1>1, PartRx
<1> HIDE DEF q
<1>5. Connected' = Connected /\ d # Idle
  <2>1. c.fid >= 1
    BY <1>0 DEF InFile
  <2> QED
    BY <1>0, <1>2, <2>1 DEF Connected, Idle
<1>6. /\ \A s \in Socks : rx[s].units \in Seq(Unit) /\ Story(a, rx[s].units)
      /\ Connected => tcpSock \in Socks /\ Reaches(a, rx[tcpSock].units, c.fid, c.unit)
  BY <1>0 DEF LInv, RxInv, Receiver, Cursor, Following, Connected, TypeOK
<1>7. CASE fu \in {"start", "middle"}
  <2>1. \A s \in Socks : rx'[s].units = rx[s].units
    BY <1>3, <1>4, <1>7 DEF RxAfter
  <2>2. Connected => Reaches(a, rx'[tcpSock].units, d.fid, d.unit)
    BY <1>2, <1>6, <1>7, <2>1
  <2>3. Connected' => Following(accepted', rx'[tcpSock'].units, call'[Main], frames')
    BY <1>0, <1>2, <1>5, <2>2 DEF Following
  <2>4. \A s \in Socks : Story(accepted', rx'[s].units)
    BY <1>0, <1>6, <2>1
  <2> QED
    BY <1>0, <2>3, <2>4, PrimedCursor
<1>8. CASE fu \in {"whole", "end"}
  <2> DEFINE x == UpTo(q)
  <2>1. x = [fid |-> c.fid, unit |-> c.unit, size |-> c.nalus[c.unit]]
    <3>1. q.from + q.bytes = q.size
      BY <1>2, <1>3, <1>8 DEF SoundPacket, Marker
    <3> QED
      BY <1>3, <3>1 DEF UpTo
  <2>2. /\ c.fid \in Nat /\ c.unit \in Nat /\ c.nalus[c.unit] \in Nat
        /\ c.unit \in 1..Len(c.nalus)
    BY <1>0, UnitLeftSound, ActivationFields
  <2>3. x \in Unit /\ x.fid = c.fid /\ x.unit = c.unit
    BY <2>1, <2>2 DEF Unit
  <2>4. UnitIn(a, x)
    BY <1>0, <2>1, <2>2 DEF UnitIn, InFile
  <2> HIDE DEF x
  <2>5. \A s \in Socks : rx'[s].units = IF Connected /\ s = tcpSock
                                       THEN Append(rx[s].units, x) ELSE rx[s].units
    BY <1>3, <1>4, <1>8 DEF RxAfter, x
  <2>6. ASSUME Connected
        PROVE  /\ Story(a, Append(rx[tcpSock].units, x))
               /\ Reaches(a, Append(rx[tcpSock].units, x), d.fid, d.unit)
    BY <1>0, <1>2, <1>6, <1>8, <2>3, <2>4, <2>6, StoryExtends
  <2>7. \A s \in Socks : Story(accepted', rx'[s].units)
    BY <1>0, <1>6, <2>5, <2>6
  <2>8. Connected' => Following(accepted', rx'[tcpSock'].units, call'[Main], frames')
    BY <1>0, <1>2, <1>5, <1>6, <2>5, <2>6 DEF Following
  <2> QED
    BY <1>0, <2>7, <2>8, PrimedCursor
<1> QED
  BY <1>7, <1>8 DEF FuKinds

LEMMA EndCursor ==
    ASSUME MInv, LInv, Received, Cursor, Sending, FinishWithReport(Main) \/ Finish(Main)
    PROVE  Cursor'
<1> DEFINE c == call[Main]
           a == accepted
<1>0. /\ TInv /\ TypeOK /\ Main \in Threads /\ c # Idle /\ InFile(c) /\ c.fid = frames
      /\ UNCHANGED <<accepted, frames, tcpSock, conn, pc>>
      /\ pc = "sending" /\ a \in Seq(Frames)
  BY WorkingKeeps, OneThread
  DEF MInv, TInv, File, Queue, Sending, Working, Active, UnchangedFile
<1>1. call'[Main] = Idle /\ c.unit > Len(c.nalus)
  BY <1>0 DEF FinishWithReport, Finish, Unlock, FrameSent, TypeOK
<1>2. rx' = rx /\ Connected' = Connected
  BY <1>0, EndRx DEF Connected
<1>3. c.unit = Len(a[frames].nalus) + 1
  <2>1. c \in Activation /\ CallSound(c)
    BY <1>0, OneThread
  <2>2. c.nalus \in Seq(Nat) /\ c.unit \in 1..(Len(c.nalus) + 1)
    BY <2>1, ActivationFields DEF CallSound
  <2>3. c.unit = Len(c.nalus) + 1
    BY <1>1, <2>2
  <2> QED
    BY <1>0, <2>3 DEF InFile
<1>4. ASSUME Connected
      PROVE  Reaches(a, rx[tcpSock].units, frames + 1, 1)
  <2>1. tcpSock \in Socks /\ rx[tcpSock].units \in Seq(Unit)
    BY <1>0, <1>4 DEF Connected, TypeOK, LInv, RxInv, Receiver
  <2>2. Reaches(a, rx[tcpSock].units, frames, Len(a[frames].nalus) + 1)
    BY <1>0, <1>3, <1>4 DEF Cursor, Following
  <2>3. frames \in 1..Len(a) /\ Story(a, rx[tcpSock].units)
    BY <1>0, <2>1 DEF InFile, Cursor
  <2> QED
    BY <1>0, <2>1, <2>2, <2>3, ReachesNext
<1>5. Connected' => Following(accepted', rx'[tcpSock'].units, call'[Main], frames')
  BY <1>0, <1>1, <1>2, <1>4 DEF Following
<1> QED
  BY <1>0, <1>2, <1>5, PrimedCursor DEF Cursor

LEMMA OpenCursor ==
    ASSUME MInv, LInv, Received, Cursor, OpenSession
    PROVE  Cursor'
<1>0. TypeOK /\ OneActivity
  BY DEF MInv, TInv
<1>1. /\ UNCHANGED <<accepted, call, frames, wire>> /\ pc = "socket"
      /\ accepted = <<>>
  BY DEF OpenSession, CreateSocket, Connect, UnchangedFile, history, Cursor
<1>2. rx' = rx
  BY <1>1, RxSame
<1>3. CASE ~Connected'
  BY <1>1, <1>2, <1>3, PrimedCursor DEF Cursor
<1>4. CASE Connected'
  <2>1. ~CreateSocket
    BY <1>0, <1>4 DEF CreateSocket, Connected, TypeOK
  <2>2. Connect
    BY <2>1 DEF OpenSession
  <2>3. /\ tcpSock' = tcpSock /\ tcpSock \in Socks /\ wire[tcpSock] = <<>>
        /\ sendMutex = NoThread
    BY <1>0, <1>4, <2>2 DEF Connect, Connected, OneActivity
  <2>4. rx[tcpSock].units = <<>>
    BY <2>3 DEF LInv, RxInv
  <2>5. call[Main] = Idle
    BY <2>3, OneThread DEF MInv, Active
  <2>6. frames = 0
    BY <1>1 DEF MInv, Queue, File
  <2>7. Following(accepted, rx[tcpSock].units, call[Main], frames)
    BY <2>4, <2>5, <2>6 DEF Following, Reaches, LeadsIn
  <2> QED
    BY <1>1, <1>2, <2>3, <2>7, PrimedCursor DEF Cursor
<1> QED
  BY <1>3, <1>4

LEMMA NextCursor ==
    ASSUME MInv, LInv, Cursor, NetNext
    PROVE  Cursor'
<1>0. MainNext /\ Received /\ TypeOK /\ Main \in Threads
  BY OneThread DEF NetNext, MInv, TInv
<1>1. ASSUME NEW r \in Records, ReadRecord(r), Wanted(r)
      PROVE  Cursor'
  BY <1>0, <1>1, PushCursor
<1>2. CASE SessionIdle /\ \A r \in Records : ReadRecord(r) => ~Wanted(r)
  <2>1. UNCHANGED <<wire, tcpSock, call, frames>> /\ Connected' = Connected
    BY <1>2, IdleStill, SessionStill
  <2>2. accepted' = accepted
    BY <1>2 DEF SessionIdle, CheckArguments, InstallCallback, OpenFile, ReadRecord,
                CallbackReturns, EndOfFile, Ended, UnchangedFile, mainVars
  <2>3. pc' \in {"arguments", "start", "socket"} => pc \in {"arguments", "start", "socket"}
    BY <1>2 DEF SessionIdle, CheckArguments, InstallCallback, OpenFile, ReadRecord,
                CallbackReturns, EndOfFile, Ended, Step, mainVars
  <2> QED
    BY <1>0, <2>1, <2>2, <2>3, RxSame, CursorSame
<1>3. CASE StartSession
  <2>1. /\ UNCHANGED <<wire, tcpSock, conn, call, frames, accepted>>
        /\ pc = "start"
    BY <1>3 DEF StartSession, StartUp, Step, UnchangedFile, history
  <2> QED
    BY <1>0, <2>1, RxSame, CursorSame DEF Connected
<1>4. CASE OpenSession
  BY <1>0, <1>4, OpenCursor
<1>5. CASE Deliver
  <2>1. /\ UNCHANGED <<wire, tcpSock, conn, accepted>> /\ pc' = "sending" /\ pc = "deliver"
        /\ EnterFrame(Main, accepted[Head(frameQueue)])
    BY <1>5 DEF Deliver, Step, EnterFrame, UnchangedFile
  <2>2. /\ call'[Main].unit = 1 /\ call'[Main].fid = frames + 1 /\ call[Main] = Idle
        /\ frames \in Nat
    BY <1>0, <2>1 DEF EnterFrame, TypeOK, Active
  <2>3. call'[Main] # Idle
    BY <2>2 DEF Idle
  <2>4. rx' = rx /\ Connected' = Connected
    BY <1>0, <2>1, RxSame DEF Connected
  <2>5. Connected => Reaches(accepted, rx[tcpSock].units, frames + 1, 1)
    BY <2>2 DEF Cursor, Following
  <2>6. Connected' => Following(accepted', rx'[tcpSock'].units, call'[Main], frames')
    BY <2>1, <2>2, <2>3, <2>4, <2>5 DEF Following
  <2> QED
    BY <2>1, <2>4, <2>6, PrimedCursor DEF Cursor
<1>6. CASE Sending
  <2>1. CASE Sigpipe(Main)
    <3>1. UNCHANGED <<wire, tcpSock, conn, call, frames, accepted, pc>>
      BY <1>6, <2>1 DEF Sigpipe, Sending, object, history, UnchangedFile
    <3> QED
      BY <1>0, <3>1, RxSame, CursorSame DEF Connected
  <2> QED
    BY <1>0, <1>6, <2>1, PartCursor, EndCursor DEF Sending, Working
<1>7. CASE StopSessions \/ Destructors
  <2>1. /\ UNCHANGED <<wire, call, frames, accepted>> /\ pc' \in {"return", "exit"}
        /\ StopSession
    BY <1>7, SessionStill
    DEF StopSessions, Destructors, StopSession, CloseSocket, Step, UnchangedFile, history
  <2>2. Connected' => Connected /\ tcpSock' = tcpSock
    BY <2>1, SessionStill DEF StopSession, CloseSocket, Connected
  <2> QED
    BY <1>0, <2>1, <2>2, RxSame, CursorSame
<1>8. CASE ServerCloses
  <2>1. PICK s \in Socks : PeerGone(s)
    BY <1>8 DEF ServerCloses
  <2>2. UNCHANGED <<wire, tcpSock, call, frames, accepted, pc>>
    BY <1>8, <2>1 DEF ServerCloses, PeerGone, object, history
  <2>3. Connected' => Connected
    BY <1>0, <2>1, <2>2 DEF PeerGone, Connected, TypeOK
  <2> QED
    BY <1>0, <2>2, <2>3, RxSame, CursorSame
<1> QED
  BY <1>0, <1>1, <1>2, <1>3, <1>4, <1>5, <1>6, <1>7, <1>8, MainSteps

THEOREM NetInvariance == NetSpec => [](MInv /\ LInv /\ Cursor)
<1>1. NetInit => MInv /\ LInv /\ Cursor
  <2> SUFFICES ASSUME NetInit
               PROVE  Cursor
    BY InitNet
  <2>1. /\ accepted = <<>> /\ tcpSock = NoSock
        /\ \A s \in Socks : rx[s].units = <<>>
    BY DEF NetInit, MainInit, Init
  <2>2. \A s \in Socks : Story(accepted, rx[s].units)
    BY <2>1 DEF Story
  <2> QED
    BY <2>1, <2>2 DEF Cursor, Connected
<1>2. MInv /\ LInv /\ Cursor /\ [NetNext]_netVars => MInv' /\ LInv' /\ Cursor'
  <2>1. ASSUME MInv, LInv, Cursor, UNCHANGED netVars
        PROVE  Cursor'
    <3>1. UNCHANGED <<vars, accepted, pc, rx>>
      BY <2>1 DEF netVars, mainVars
    <3> QED
      BY <2>1, <3>1, SessionStill, CursorSame DEF vars, object, history
  <2> QED
    BY <2>1, NextNet, NextCursor
<1> QED
  BY <1>1, <1>2, PTL DEF NetSpec

(* Whatever the server has put together, on any connection and wherever    *)
(* it ended, is the beginning of the file, unit by unit (the read loop,    *)
(* pushFrame, deliverNext, sendFrame and packetizeAndSendNalu together).   *)
THEOREM ReceivedFile == NetSpec => []ReceivedIsFile
<1>1. Cursor => ReceivedIsFile
  BY StoryReceived DEF Cursor
<1> QED
  BY NetInvariance, <1>1, PTL
-----------------------------------------------------------------------------
(* Every packet that ends a unit has given the receiver that unit.         *)
EndsUnit(p) == p.kind = "RTP" /\ p.marker
UnitOf(p) == [fid |-> p.fid, unit |-> p.unit, size |-> p.size]

Arrived(w, got) ==
    \A i \in 1..Len(w) : EndsUnit(w[i]) => \E j \in 1..Len(got) : got[j] = UnitOf(w[i])

EndsArrive == \A s \in Socks : Arrived(wire[s], rx[s].units)

LEMMA ArrivedMore ==
    ASSUME NEW w \in Seq(Item), NEW got \in Seq(Unit), Arrived(w, got), NEW p \in Item,
           NEW more, IF EndsUnit(p) THEN UnitOf(p) \in Unit /\ more = Append(got, UnitOf(p))
                     ELSE more = got
    PROVE  Arrived(Append(w, p), more)
<1> DEFINE v == Append(w, p)
<1>1. /\ Len(v) = Len(w) + 1 /\ Len(w) \in Nat /\ v[Len(w) + 1] = p
      /\ \A i \in 1..Len(w) : v[i] = w[i]
  BY Appended
<1> HIDE DEF v
<1>2. \A j \in 1..Len(got) : j \in 1..Len(more) /\ more[j] = got[j]
  <2>1. CASE EndsUnit(p)
    <3> DEFINE x == UnitOf(p)
    <3>1. x \in Unit /\ more = Append(got, x)
      BY <2>1
    <3> HIDE DEF x
    <3>2. /\ Len(more) = Len(got) + 1 /\ Len(got) \in Nat
          /\ \A j \in 1..Len(got) : more[j] = got[j]
      BY <3>1, Appended
    <3> QED
      BY <3>2
  <2>2. CASE ~EndsUnit(p)
    BY <2>2
  <2> QED
    BY <2>1, <2>2
<1>3. EndsUnit(p) => \E j \in 1..Len(more) : more[j] = UnitOf(p)
  <2> SUFFICES ASSUME EndsUnit(p)
               PROVE  \E j \in 1..Len(more) : more[j] = UnitOf(p)
    OBVIOUS
  <2> DEFINE x == UnitOf(p)
  <2>1. x \in Unit /\ more = Append(got, x)
    OBVIOUS
  <2> HIDE DEF x
  <2>2. Len(got) + 1 \in 1..Len(more) /\ more[Len(got) + 1] = x
    BY <2>1, Appended
  <2> QED
    BY <2>2 DEF x
<1>4. ASSUME NEW i \in 1..Len(v), EndsUnit(v[i])
      PROVE  \E j \in 1..Len(more) : more[j] = UnitOf(v[i])
  <2>1. CASE i \in 1..Len(w)
    <3>1. PICK j \in 1..Len(got) : got[j] = UnitOf(w[i])
      BY <1>1, <1>4, <2>1 DEF Arrived
    <3> QED
      BY <1>1, <1>2, <2>1, <3>1
  <2>2. CASE i = Len(w) + 1
    BY <1>1, <1>3, <1>4, <2>2
  <2> QED
    BY <1>1, <2>1, <2>2
<1> QED
  BY <1>4 DEF Arrived, v

LEMMA PartArrives ==
    ASSUME LInv, Received, EndsArrive, NEW t \in Threads, UnitLeft(t),
           NEW fu \in FuKinds, NEW from \in Nat, NEW bytes \in Nat, NEW payload \in Nat,
           NEW d \in Activation, PartSent(t, fu, from, bytes, payload, d)
    PROVE  EndsArrive'
<1> DEFINE q == Packet(t, fu, from, bytes, payload)
<1>0. TInv /\ TypeOK /\ OneActivity /\ RxInv
  BY DEF LInv, SInv, TInv
<1>1. /\ Transmit(q) /\ UNCHANGED <<tcpSock, conn>> /\ q \in RtpItem /\ SoundPacket(q)
  <2>1. q \in RtpItem
    BY <1>0, PacketType
  <2>2. /\ SendRtpPacket(t, fu, from, bytes, payload) /\ UNCHANGED <<tcpSock, conn>>
        /\ SoundPacket(q)
    BY DEF PartSent
  <2> QED
    BY <2>1, <2>2 DEF SendRtpPacket
<1>2. q.fu = fu /\ q.kind = "RTP" /\ q.marker = Marker(fu)
  BY DEF Packet
<1>3. rx' = RxAfter(q)
  BY PartRx
<1> HIDE DEF q
<1>4. EndsUnit(q) <=> fu \in {"whole", "end"}
  BY <1>2 DEF EndsUnit, Marker, FuKinds
<1>5. EndsUnit(q) => UpTo(q) = UnitOf(q) /\ UnitOf(q) \in Unit
  BY <1>1 DEF EndsUnit, SoundPacket, UpTo, UnitOf, RtpItem, Unit
<1>6. ASSUME NEW s \in Socks
      PROVE  Arrived(wire'[s], rx'[s].units)
  <2> DEFINE w == wire[s]
             got == rx[s].units
  <2>1. w \in Seq(Item) /\ got \in Seq(Unit) /\ Arrived(w, got) /\ q \in Item
    BY <1>0, <1>1 DEF TypeOK, RxInv, Receiver, EndsArrive, Item
  <2>2. CASE Connected /\ s = tcpSock
    <3>1. wire'[s] = Append(w, q)
      BY <1>0, <1>1, <2>2, AfterTransmit
    <3>2. rx'[s].units = IF EndsUnit(q) THEN Append(got, UnitOf(q)) ELSE got
      BY <1>2, <1>3, <1>4, <1>5, <2>2 DEF RxAfter
    <3> HIDE DEF w, got
    <3> QED
      BY <1>5, <2>1, <3>1, <3>2, ArrivedMore
  <2>3. CASE ~(Connected /\ s = tcpSock)
    <3>1. wire'[s] = w /\ rx'[s].units = got
      BY <1>0, <1>1, <1>3, <2>3, AfterTransmit DEF RxAfter
    <3> QED
      BY <2>1, <3>1
  <2> QED
    BY <2>2, <2>3
<1> QED
  BY <1>6 DEF EndsArrive, Arrived, EndsUnit, UnitOf

LEMMA NextArrive ==
    ASSUME LInv, EndsArrive, [LinkNext]_linkVars
    PROVE  EndsArrive'
<1>0. TInv /\ TypeOK
  BY DEF LInv, SInv, TInv
<1>1. ASSUME wire' = wire, rx' = rx
      PROVE  EndsArrive'
  BY <1>1 DEF EndsArrive, Arrived, EndsUnit, UnitOf
<1>2. CASE UNCHANGED linkVars
  BY <1>1, <1>2 DEF linkVars, vars
<1>3. ASSUME LinkNext, NEW t \in Threads, Working(t)
      PROVE  EndsArrive'
  <2>0. Received
    BY <1>3 DEF LinkNext
  <2>1. CASE SendWhole(t) \/ SendFragment(t)
    <3>1. UnitLeft(t)
      BY <2>1 DEF SendWhole, SendFragment
    <3>2. PICK fu \in FuKinds, from \in Nat, bytes \in Nat, payload \in Nat,
               d \in Activation : PartSent(t, fu, from, bytes, payload, d)
      BY <1>0, <2>1, WholePart, FragmentPart
    <3> QED
      BY <2>0, <3>1, <3>2, PartArrives
  <2>2. CASE FinishWithReport(t)
    <3> DEFINE q == Report(t)
    <3>1. Transmit(q) /\ UNCHANGED <<tcpSock, conn>> /\ q \in Item /\ q.kind = "SR"
      BY <1>0, <2>2, ReportType DEF FinishWithReport, Unlock, Item, Report
    <3>2. rx' = rx /\ ~EndsUnit(q)
      BY <2>0, <2>2, <3>1, EndRx DEF EndsUnit
    <3> HIDE DEF q
    <3>3. ASSUME NEW s \in Socks
          PROVE  Arrived(wire'[s], rx'[s].units)
      <4> DEFINE w == wire[s]
                 got == rx[s].units
      <4>1. w \in Seq(Item) /\ got \in Seq(Unit) /\ Arrived(w, got)
        BY <1>0 DEF TypeOK, LInv, RxInv, Receiver, EndsArrive, Item
      <4>2. wire'[s] = w \/ wire'[s] = Append(w, q)
        BY <1>0, <3>1, AfterTransmit
      <4> HIDE DEF w
      <4>3. Arrived(Append(w, q), got)
        BY <3>1, <3>2, <4>1, ArrivedMore
      <4> QED
        BY <3>2, <4>1, <4>2, <4>3
    <3> QED
      BY <3>3 DEF EndsArrive, Arrived, EndsUnit, UnitOf
  <2>3. CASE Finish(t) \/ Sigpipe(t)
    BY <1>1, <2>0, <2>3, RxSame DEF Finish, Sigpipe
  <2> QED
    BY <1>3, <2>1, <2>2, <2>3 DEF Working
<1>4. CASE LinkNext /\ \A t \in Threads : ~Working(t)
  <2>1. wire' = wire
    BY <1>4 DEF LinkNext, Next, Start, StartUp, CreateSocket, Connect, Stop, CloseSocket,
                PeerGone, SendFrame, EnterFrame, Rest, vars
  <2> QED
    BY <1>1, <1>4, <2>1, RxSame DEF LinkNext
<1> QED
  BY <1>2, <1>3, <1>4

(* Unless it left, the server has every unit of every frame the callback   *)
(* has returned from, to its last byte.                                    *)
THEOREM EverythingArrives == NetSpec => []NothingLost
<1>1. NetInit => EndsArrive
  BY DEF NetInit, MainInit, Init, EndsArrive, Arrived
<1>2. MInv /\ LInv /\ EndsArrive /\ [NetNext]_netVars => EndsArrive'
  BY NextNet, NextArrive
<1>3. NetSpec => []EndsArrive
  BY NetInvariance, <1>1, <1>2, PTL DEF NetSpec
<1>4. MInv /\ EndsArrive => NothingLost
  <2> SUFFICES ASSUME MInv, EndsArrive, ~peerLost, NEW f \in Source!DeliveredFrames,
                      NEW u \in 1..Len(accepted[f].nalus)
               PROVE  \E s \in Socks : \E i \in 1..Len(rx[s].units) :
                        rx[s].units[i]
                            = [fid |-> f, unit |-> u, size |-> accepted[f].nalus[u]]
    BY DEF NothingLost
  <2>1. f \in 1..Len(delivered)
    BY DEF Source!DeliveredFrames, MInv, Queue
  <2>2. CompletedOn(wire, f, u)
    BY <2>1, WiredOn DEF MInv
  <2>3. PICK s \in Socks : \E i \in 1..Len(wire[s]) :
            /\ wire[s][i].kind = "RTP" /\ wire[s][i].fid = f /\ wire[s][i].unit = u
            /\ wire[s][i].marker
    BY <2>2 DEF CompletedOn
  <2>4. PICK i \in 1..Len(wire[s]) :
            /\ wire[s][i].kind = "RTP" /\ wire[s][i].fid = f /\ wire[s][i].unit = u
            /\ wire[s][i].marker
    BY <2>3
  <2>5. UnitOf(wire[s][i]) = [fid |-> f, unit |-> u, size |-> accepted[f].nalus[u]]
    <3>1. FromFile(wire[s][i])
      BY WireFromFile DEF MInv, File
    <3> QED
      BY <2>4, <3>1 DEF FromFile, UnitOf
  <2>6. \E j \in 1..Len(rx[s].units) : rx[s].units[j] = UnitOf(wire[s][i])
    BY <2>4 DEF EndsArrive, Arrived, EndsUnit
  <2> QED
    BY <2>5, <2>6
<1> QED
  BY NetInvariance, <1>3, <1>4, PTL
=============================================================================
