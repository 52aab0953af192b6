---------------------------- MODULE FramedSource ----------------------------
(***************************************************************************)
(* The class CustomFramedSource (include/CustomFramedSource.hh and         *)
(* src/CustomFramedSource.cpp): a bounded queue of frames behind one       *)
(* mutex, drained by a user callback that runs inside pushFrame.           *)
(*                                                                         *)
(* A frame is the number of its push: buffer, pts, channel, stream type    *)
(* and frame type are copied into the queue and handed over untouched.     *)
(* pushFrame holds mutex_ across the callback, so a push is two steps: the *)
(* one that locks, queues the frame and enters the callback, and the one   *)
(* in which the callback returns (or throws) and the lock is released.  A  *)
(* push that finds no callback is one step.                                *)
(***************************************************************************)
EXTENDS Integers, Sequences, FiniteSets

CONSTANTS Producers,       \* the threads that call pushFrame
          MAX_QUEUE_SIZE,  \* capacity of frameQueue_
          MaxPush,         \* bound on the pushes of one behaviour
          NoOne            \* mutex_ is free

ASSUME QueueAssumption == MAX_QUEUE_SIZE \in Nat \ {0}
ASSUME PushAssumption  == MaxPush \in Nat
ASSUME NoOneAssumption == NoOne \notin Producers

VARIABLES frameQueue,  \* frameQueue_, oldest first
          callback,    \* whether callback_ is set
          mutex,       \* the producer inside callback_ holding mutex_, or NoOne
          pushed,      \* history: number of pushes so far
          delivered,   \* history: frames whose callback returned, in order
          dropped,     \* history: frames removed to make room
          unserved     \* history: pushes that delivered nothing

vars == <<frameQueue, callback, mutex, pushed, delivered, dropped, unserved>>

Queued == {frameQueue[i] : i \in 1..Len(frameQueue)}
Unlocked == mutex = NoOne

Init == /\ frameQueue = <<>>
        /\ callback = FALSE
        /\ mutex = NoOne
        /\ pushed = 0
        /\ delivered = <<>>
        /\ dropped = {}
        /\ unserved = 0
-----------------------------------------------------------------------------
(* setCallback: a client may install a callback or an empty std::function. *)
SetCallback(cb) ==
    /\ Unlocked
    /\ callback' = cb
    /\ UNCHANGED <<frameQueue, mutex, pushed, delivered, dropped, unserved>>

FullTooLate == Len(frameQueue) > MAX_QUEUE_SIZE          \* mutant: > for >=
Full == Len(frameQueue) >= MAX_QUEUE_SIZE

(* The queue pushFrame builds: the oldest frame leaves a full queue.       *)
EnqueueOverNewest(f) ==                  \* mutant: drops the newest frame
    Append(IF Full THEN SubSeq(frameQueue, 1, Len(frameQueue) - 1)
                   ELSE frameQueue, f)
Enqueue(f) == Append(IF Full THEN Tail(frameQueue) ELSE frameQueue, f)

(* deliverNext found a callback: it is called with the front of the queue, *)
(* which stays in the queue until the callback returns.                    *)
EnterCallback(t) == IF callback THEN mutex' = t /\ unserved' = unserved
                                ELSE mutex' = mutex /\ unserved' = unserved + 1

PushFrame(t) ==
    /\ Unlocked
    /\ pushed < MaxPush
    /\ frameQueue' = Enqueue(pushed + 1)
    /\ dropped' = IF Full THEN dropped \cup {Head(frameQueue)} ELSE dropped
    /\ pushed' = pushed + 1
    /\ EnterCallback(t)
    /\ UNCHANGED <<callback, delivered>>

AfterDeliveryAll == <<>>                           \* mutant: clears the queue
AfterDeliveryKept == frameQueue                    \* mutant: no pop
AfterDelivery == Tail(frameQueue)

CallbackReturns(t) ==
    /\ mutex = t
    /\ delivered' = Append(delivered, Head(frameQueue))
    /\ frameQueue' = AfterDelivery
    /\ mutex' = NoOne
    /\ UNCHANGED <<callback, pushed, dropped, unserved>>

(* An exception leaves deliverNext before its pop; the lock_guard unlocks. *)
CallbackThrows(t) ==
    /\ mutex = t
    /\ mutex' = NoOne
    /\ unserved' = unserved + 1
    /\ UNCHANGED <<frameQueue, callback, pushed, delivered, dropped>>

Next == \/ \E cb \in BOOLEAN : SetCallback(cb)
        \/ \E t \in Producers : \/ PushFrame(t)
                                \/ CallbackReturns(t)
                                \/ CallbackThrows(t)

Spec == Init /\ [][Next]_vars

(* A client that installs its callback once, at some point of the run, and *)
(* whose callback always returns: producers finish their pushes, the       *)
(* callback is eventually installed, every delivery ends.                  *)
ClientNext == \/ SetCallback(TRUE)
              \/ \E t \in Producers : PushFrame(t) \/ CallbackReturns(t)

FairClientSpec == /\ Init
                  /\ [][ClientNext]_vars
                  /\ WF_vars(SetCallback(TRUE))
                  /\ \A t \in Producers : /\ WF_vars(PushFrame(t))
                                          /\ WF_vars(CallbackReturns(t))
-----------------------------------------------------------------------------
(* Types, and the capacity: the queue never exceeds MAX_QUEUE_SIZE.        *)
TypeOK ==
    /\ frameQueue \in Seq(Nat)
    /\ Len(frameQueue) <= MAX_QUEUE_SIZE
    /\ callback \in BOOLEAN
    /\ mutex \in Producers \cup {NoOne}
    /\ pushed \in Nat
    /\ delivered \in Seq(Nat)
    /\ dropped \in SUBSET Nat
    /\ unserved \in Nat

(* Frames leave in the order they came, whatever threads push them and     *)
(* whatever the callback does: a frame that was delivered or dropped is    *)
(* older than every frame still queued, deliveries are in push order, and  *)
(* no frame is both delivered and dropped, or delivered twice.             *)
DeliveredFrames == {delivered[i] : i \in 1..Len(delivered)}

LeavesInOrder ==
    /\ \A i, j \in 1..Len(delivered) : i < j => delivered[i] < delivered[j]
    /\ DeliveredFrames \cap dropped = {}
    /\ \A f \in DeliveredFrames \cup dropped, q \in Queued : f < q

(* pushFrame delivers one frame per push, so the backlog is never worked   *)
(* off: the frames waiting in the queue or already dropped number exactly  *)
(* the pushes that delivered nothing (no callback installed, or it threw). *)
(* With a callback installed before the first push that never throws, the  *)
(* queue is empty between pushes and nothing is ever dropped.              *)
BacklogAccount ==
    Len(frameQueue) + Cardinality(dropped)
        = unserved + (IF Unlocked THEN 0 ELSE 1)

(* The queue never makes a receiver late by more than its capacity, and    *)
(* never drops early: a frame still queued is one of the MAX_QUEUE_SIZE    *)
(* latest pushes, and a frame that was dropped is none of them, whatever   *)
(* was delivered or thrown in between (pushFrame).                         *)
BoundedLag ==
    /\ \A q \in Queued : pushed - q < MAX_QUEUE_SIZE
    /\ \A f \in dropped : pushed - f >= MAX_QUEUE_SIZE

(* The class implements the drop-oldest buffer its header describes: one   *)
(* push is one accepted frame, a returning callback is one delivery, and   *)
(* everything else (locking, a throwing callback) is invisible.            *)
Buffer == INSTANCE DropOldestBuffer
            WITH Capacity <- MAX_QUEUE_SIZE, accepted <- pushed,
                 pending <- Queued, output <- delivered, lost <- dropped

ImplementsDropOldest == Buffer!Spec

(* CustomFramedSource.hh:12-13 says of the class that it "accepts H264     *)
(* frames via pushFrame, and delivers them to a user-defined callback.     *)
(* When full, it drops the oldest frame": a queued frame leaves the queue. *)
EveryFrameLeaves ==
    \A f \in 1..MaxPush : (f \in Queued) ~> (f \notin Queued)
=============================================================================
