------------------------------- MODULE Sender -------------------------------
(***************************************************************************)
(* The program: main of src/main.cpp, upstream half of its merge markers   *)
(* (the other half uses names that do not exist), with MAX_CHANNELS = 1 as *)
(* it defines it, composed of one RTPSendingSession (this module extends   *)
(* RtpSession), one CustomFramedSource (Source), the record file and the   *)
(* server.                                                                 *)
(*                                                                         *)
(* One thread does everything: it starts the session, installs the         *)
(* callback, opens the file, and reads records; a record it accepts is     *)
(* pushed to the source, which calls back, under its lock, into the        *)
(* session's sendFrame.  `pc' says which call of main is next; each step   *)
(* conjoins it with the action of the component main calls.  start, stop   *)
(* and sendFrame are called here without what RtpSession requires of       *)
(* callers (StartUp, CloseSocket, EnterFrame): that main keeps the order   *)
(* the session needs is a property, SessionDiscipline.                     *)
(***************************************************************************)
EXTENDS RtpSession

CONSTANTS Main,            \* the one thread
          MAX_QUEUE_SIZE,  \* capacity of the source's queue
          Records,         \* the records a file may hold
          MaxReads         \* bound on the records of the file

MAX_CHANNELS == 1

ASSUME ProgramAssumption ==
    /\ Threads = {Main}
    /\ MAX_QUEUE_SIZE \in Nat \ {0}
    /\ Records \subseteq [chn : Int, len : Int, type : {"I", "P", "other"},
                          frame : Frames]
    /\ MaxReads \in Nat /\ MaxReads <= MaxFrames

VARIABLES frameQueue, callback, mutex,              \* the source
          pushed, delivered, dropped, unserved,     \* its history
          pc, reader, reads,
          accepted,    \* history: the frames pushed, in file order
          peerLost     \* history: the server closed the connection

Source == INSTANCE FramedSource
            WITH Producers <- Threads, MaxPush <- MaxReads, NoOne <- NoThread

sourceVars == <<frameQueue, callback, mutex, pushed, delivered, dropped, unserved>>
mainVars == <<vars, sourceVars, pc, reader, reads, accepted, peerLost>>

MainInit ==
    /\ Init
    /\ Source!Init
    /\ pc = "arguments"
    /\ reader = "none"
    /\ reads = 0
    /\ accepted = <<>>
    /\ peerLost = FALSE

Step(from, to) == alive /\ pc = from /\ pc' = to

UnchangedFile == UNCHANGED <<reader, reads, accepted, peerLost>>
-----------------------------------------------------------------------------
(* Fewer than three arguments, or a port stoi rejects, end the program.    *)
CheckArguments ==
    /\ Step("arguments", "start") \/ Step("arguments", "exit")
    /\ UNCHANGED <<vars, sourceVars>> /\ UnchangedFile

StartAgain ==          \* mutant: a watchdog restarts it when the server leaves
    /\ Step("start", "socket") \/ (peerLost /\ Step("sending", "socket"))
    /\ StartUp
    /\ UNCHANGED sourceVars /\ UnchangedFile
StartSession ==
    /\ Step("start", "socket")
    /\ StartUp
    /\ UNCHANGED sourceVars /\ UnchangedFile

(* The rest of start; when it fails main returns.                          *)
OpenSession ==
    /\ pc = "socket"
    /\ CreateSocket \/ Connect
    /\ pc' = IF starting' # "no" THEN "socket"
             ELSE IF tcpSock' # NoSock THEN "callback" ELSE "return"
    /\ UNCHANGED sourceVars /\ UnchangedFile

NoCallback == Step("callback", "open") /\ UNCHANGED <<vars, sourceVars>>
              /\ UnchangedFile              \* mutant: setCallback is not called
InstallCallback ==
    /\ Step("callback", "open")
    /\ Source!SetCallback(TRUE)
    /\ UNCHANGED vars /\ UnchangedFile

OpenFileAgain ==                     \* mutant: retries a file that is not there
    /\ \/ Step("open", "read") /\ reader' = "open"
       \/ Step("open", "callback") /\ UNCHANGED reader
    /\ UNCHANGED <<vars, sourceVars, reads, accepted, peerLost>>

OpenFile ==
    /\ \/ Step("open", "read") /\ reader' = "open"
       \/ Step("open", "return") /\ UNCHANGED reader
    /\ UNCHANGED <<vars, sourceVars, reads, accepted, peerLost>>
-----------------------------------------------------------------------------
(* The read loop.                                                          *)

Wanted(r) == /\ r.chn >= 0 /\ r.chn < MAX_CHANNELS
             /\ r.len > 0
             /\ r.type \in {"I", "P"}

(* A record main does not want is skipped; pushFrame takes the lock of the *)
(* source and enters the callback, if there is one.                        *)
ReadRecord(r) ==
    /\ alive
    /\ pc = "read"
    /\ reads < MaxReads
    /\ reads' = reads + 1
    /\ IF Wanted(r)
       THEN /\ Source!PushFrame(Main)
            /\ accepted' = Append(accepted, r.frame)
            /\ pc' = IF callback THEN "deliver" ELSE "read"
       ELSE UNCHANGED <<sourceVars, accepted, pc>>
    /\ UNCHANGED <<vars, reader, peerLost>>

(* The callback calls sendFrame with the frame at the head of the queue.   *)
Deliver ==
    /\ Step("deliver", "sending")
    /\ EnterFrame(Main, accepted[Head(frameQueue)])
    /\ UNCHANGED sourceVars /\ UnchangedFile

Sending ==
    /\ pc = "sending"
    /\ Working(Main)
    /\ UNCHANGED <<sourceVars, pc>> /\ UnchangedFile

SentAtOnce == TRUE                      \* mutant: the callback does not wait
Sent == ~Active(Main)

CallbackReturns ==
    /\ Step("sending", "read")
    /\ Sent
    /\ Source!CallbackReturns(Main)
    /\ UNCHANGED vars /\ UnchangedFile

(* The end of the file, or a record that cannot be read: any prefix of the *)
(* file may be all that is read.                                           *)
RetryRead == pc = "read" /\ UNCHANGED mainVars      \* mutant: errors ignored
EndOfFile ==
    /\ Step("read", "stop")
    /\ reader' = "closed"
    /\ UNCHANGED <<vars, sourceVars, reads, accepted, peerLost>>
-----------------------------------------------------------------------------
(* The way out.                                                            *)

(* session.stop(), in the loop at the end of main and in the destructor.   *)
StopSession == IF tcpSock = NoSock THEN UNCHANGED vars ELSE CloseSocket

StopSessions ==
    /\ Step("stop", "return")
    /\ StopSession
    /\ UNCHANGED sourceVars /\ UnchangedFile

NoDestructor == Step("return", "exit") /\ UNCHANGED <<vars, sourceVars>>
                /\ UnchangedFile                     \* mutant: sessions leaked
Destructors ==
    /\ Step("return", "exit")
    /\ StopSession
    /\ UNCHANGED sourceVars /\ UnchangedFile

(* The server.                                                             *)
ServerCloses ==
    /\ pc # "exit"
    /\ \E s \in Socks : PeerGone(s)
    /\ peerLost' = TRUE
    /\ UNCHANGED <<sourceVars, pc, reader, reads, accepted>>

Ended == (pc = "exit" \/ ~alive) /\ UNCHANGED mainVars

MainStep ==
    \/ CheckArguments \/ StartSession \/ OpenSession \/ InstallCallback \/ OpenFile
    \/ \E r \in Records : ReadRecord(r)
    \/ Deliver \/ Sending \/ CallbackReturns
    \/ EndOfFile \/ StopSessions \/ Destructors

MainNext == MainStep \/ ServerCloses \/ Ended

MainSpec == MainInit /\ [][MainNext]_mainVars
-----------------------------------------------------------------------------
MainTypeOK ==
    /\ TypeOK
    /\ Source!TypeOK
    /\ pc \in {"arguments", "start", "socket", "callback", "open", "read",
               "deliver", "sending", "stop", "return", "exit"}
    /\ reader \in {"none", "open", "closed"}
    /\ reads \in 0..MaxReads
    /\ accepted \in Seq(Frames)
    /\ peerLost \in BOOLEAN

(* main keeps the order the unlocked calls of the session need: no start   *)
(* and no stop, from the loop or a destructor, runs while a sendFrame is   *)
(* in progress, and no sendFrame while a start is, so whatever RtpSession  *)
(* promises holds of the program.                                          *)
SessionDiscipline == Spec

(* The frame a packet or report stands for is the one the file had at that *)
(* place: the n-th accepted record leaves as the n-th sendFrame, with its  *)
(* pts and the units it was read with (the frame the callback is handed is *)
(* the head of the queue, not the one just pushed).                        *)
WireIsFile ==
    \A s \in Socks : \A i \in 1..Len(wire[s]) :
        LET p == wire[s][i]
        IN  /\ p.fid \in 1..Len(accepted)
            /\ p.pts = accepted[p.fid].pts
            /\ p.kind = "RTP" => /\ p.unit \in 1..Len(accepted[p.fid].nalus)
                                 /\ p.size = accepted[p.fid].nalus[p.unit]

(* As long as the server has not left, every unit of every frame whose     *)
(* callback returned is on the wire to its last byte.                      *)
Completed(f, u) ==
    \E s \in Socks : \E i \in 1..Len(wire[s]) :
        LET p == wire[s][i]
        IN  p.kind = "RTP" /\ p.fid = f /\ p.unit = u /\ p.marker

DeliveredIsOnWire ==
    ~peerLost => \A f \in Source!DeliveredFrames :
                     \A u \in 1..Len(accepted[f].nalus) : Completed(f, u)

(* The queue never holds more than the frame being delivered, between      *)
(* records it is empty, and no frame is ever dropped, whatever its         *)
(* capacity: every accepted record has been delivered before the next is   *)
(* read, and when the file is closed.                                      *)
NothingQueued ==
    /\ dropped = {}
    /\ pc \notin {"deliver", "sending"} =>
           frameQueue = <<>> /\ Len(delivered) = Len(accepted)

(* Whichever way main is left, unless killed, no socket and no file stays  *)
(* open, and no lock is held.                                              *)
CleanExit ==
    pc = "exit" => /\ \A s \in Socks : conn[s] \in {"unused", "closed"}
                   /\ reader # "open"
                   /\ mutex = NoThread /\ sendMutex = NoThread

(* Every step of main brings it nearer to its end, or SIGPIPE kills it: to *)
(* a later stage of the program, and, in the read loop, to a later record  *)
(* of the file, to the callback of the frame it has pushed, to a later     *)
(* part of that frame (Nearer), or back from the callback.  No step of the *)
(* loop, and no record main skips, comes back to where it was.             *)
Stages == <<"arguments", "start", "socket", "callback", "open", "read",
            "stop", "return", "exit">>

LaterStage == \E m, n \in 1..Len(Stages) :
                  m < n /\ pc = Stages[m] /\ pc' = Stages[n]

MainAdvances ==
    [][MainStep =>
         \/ ~alive'
         \/ LaterStage /\ reads' = reads
         \/ /\ starting = "socket" /\ starting' = "connect"
            /\ pc = "socket" /\ pc' = pc /\ reads' = reads
         \/ /\ reads < MaxReads /\ reads' = reads + 1
            /\ pc = "read" /\ pc' \in {"read", "deliver"}
         \/ /\ <<pc, pc'>> \in {<<"deliver", "sending">>, <<"sending", "read">>}
            /\ reads' = reads
         \/ /\ pc = "sending" /\ pc' = pc /\ reads' = reads
            /\ Nearer(call[Main], call'[Main])]_mainVars

(* The program ends, or SIGPIPE kills it: its two locks, taken one inside  *)
(* the other, never block its one thread.                                  *)
ProgramEnds == <>(pc = "exit" \/ ~alive)
=============================================================================
