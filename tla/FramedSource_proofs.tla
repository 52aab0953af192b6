------------------------- MODULE FramedSource_proofs -------------------------
(***************************************************************************)
(* Proofs about FramedSource, for every set of producers, every capacity   *)
(* and every number of pushes.  The argument: the queue always holds the   *)
(* last Len(frameQueue) pushes, in order, and whatever was delivered or    *)
(* dropped is older than all of them.                                      *)
(***************************************************************************)
EXTENDS FramedSource, FiniteSetTheorems, TLAPS

(* The number of frames that have left the queue: it holds the ones after. *)
Gone == pushed - Len(frameQueue)

(* The queue holds the frames Gone + 1 .. pushed, oldest first, and is not *)
(* empty while a callback is running on its front.                         *)
QueueIsLatest ==
    /\ Gone >= 0
    /\ \A i \in 1..Len(frameQueue) : frameQueue[i] = Gone + i
    /\ mutex # NoOne => Len(frameQueue) > 0

(* What left the queue left it once, and is among the Gone first frames.   *)
OlderLeft ==
    /\ \A i \in 1..Len(delivered) : delivered[i] \in 1..Gone
    /\ \A i, j \in 1..Len(delivered) : i < j => delivered[i] < delivered[j]
    /\ dropped \subseteq 1..Gone
    /\ \A i \in 1..Len(delivered) : delivered[i] \notin dropped

IInv == TypeOK /\ QueueIsLatest /\ OlderLeft

(* What a push does to the queue: it holds the latest frames, one more of  *)
(* them, or the same number when the oldest one makes room.                *)
LEMMA EnqueueLatest ==
    ASSUME TypeOK, QueueIsLatest
    PROVE  LET q == Enqueue(pushed + 1)
               n == IF Full THEN Len(frameQueue) ELSE Len(frameQueue) + 1
           IN  /\ q \in Seq(Nat)
               /\ Len(q) = n
               /\ Len(q) > 0
               /\ Len(q) <= MAX_QUEUE_SIZE
               /\ \A i \in 1..n : q[i] = pushed + 1 - n + i
               /\ Full => Head(frameQueue) = Gone + 1
<1> USE QueueAssumption DEF TypeOK, QueueIsLatest, Gone
<1>1. CASE Full
  <2>1. Len(frameQueue) = MAX_QUEUE_SIZE /\ frameQueue # <<>>
    BY <1>1 DEF Full
  <2>2. /\ Tail(frameQueue) \in Seq(Nat)
        /\ Len(Tail(frameQueue)) = Len(frameQueue) - 1
        /\ \A i \in 1..(Len(frameQueue) - 1) : Tail(frameQueue)[i] = frameQueue[i + 1]
    BY <2>1
  <2>3. Head(frameQueue) = frameQueue[1]
    BY <2>1
  <2> QED
    BY <1>1, <2>1, <2>2, <2>3 DEF Enqueue
<1>2. CASE ~Full
  BY <1>2 DEF Enqueue, Full
<1> QED
  BY <1>1, <1>2

(* The two outcomes of a push: the oldest frame is dropped from a full     *)
(* queue, or the queue grows by one.                                       *)
LEMMA PushOutcome ==
    ASSUME IInv, NEW t \in Producers, PushFrame(t)
    PROVE  \/ /\ Len(frameQueue) = MAX_QUEUE_SIZE
              /\ Len(frameQueue') = Len(frameQueue)
              /\ Gone' = Gone + 1
              /\ dropped' = dropped \cup {Gone + 1}
           \/ /\ Len(frameQueue) < MAX_QUEUE_SIZE
              /\ Len(frameQueue') = Len(frameQueue) + 1
              /\ Gone' = Gone
              /\ dropped' = dropped
<1>1. frameQueue' = Enqueue(pushed + 1) /\ pushed' = pushed + 1
  BY DEF PushFrame
<1>0. Len(frameQueue) \in Nat /\ pushed \in Nat
  BY DEF IInv, TypeOK
<1>2. CASE Full
  <2>1. Len(frameQueue') = Len(frameQueue) /\ Head(frameQueue) = Gone + 1
    BY <1>1, <1>2, EnqueueLatest DEF IInv
  <2>2. dropped' = dropped \cup {Gone + 1}
    BY <1>2, <2>1 DEF PushFrame
  <2>3. Gone' = Gone + 1
    BY <1>0, <1>1, <2>1 DEF Gone
  <2>4. Len(frameQueue) = MAX_QUEUE_SIZE
    BY <1>2, QueueAssumption DEF Full, IInv, TypeOK
  <2> QED
    BY <2>1, <2>2, <2>3, <2>4
<1>3. CASE ~Full
  <2>1. Len(frameQueue') = Len(frameQueue) + 1
    BY <1>1, <1>3, EnqueueLatest DEF IInv
  <2>2. dropped' = dropped
    BY <1>3 DEF PushFrame
  <2>3. Gone' = Gone
    BY <1>0, <1>1, <2>1 DEF Gone
  <2>4. Len(frameQueue) < MAX_QUEUE_SIZE
    BY <1>3, QueueAssumption DEF Full, IInv, TypeOK
  <2> QED
    BY <2>1, <2>2, <2>3, <2>4
<1> QED
  BY <1>2, <1>3

LEMMA InitIInv == Init => IInv
<1> SUFFICES ASSUME Init
             PROVE  IInv
  OBVIOUS
<1>1. callback \in BOOLEAN /\ mutex \in Producers \cup {NoOne}
  BY DEF Init
<1>2. /\ frameQueue \in Seq(Nat) /\ Len(frameQueue) = 0
      /\ delivered \in Seq(Nat) /\ Len(delivered) = 0
  BY DEF Init
<1> QED
  BY <1>1, <1>2, QueueAssumption
  DEF Init, IInv, TypeOK, QueueIsLatest, OlderLeft, Gone

(* Every action preserves the invariant. *)
LEMMA NextIInv == IInv /\ [Next]_vars => IInv'
<1> SUFFICES ASSUME IInv, [Next]_vars
             PROVE  IInv'
  OBVIOUS
<1> USE QueueAssumption, NoOneAssumption DEF IInv
<1>1. ASSUME NEW cb \in BOOLEAN, SetCallback(cb)
      PROVE  IInv'
  BY <1>1 DEF SetCallback, TypeOK, QueueIsLatest, OlderLeft, Gone
<1>2. ASSUME NEW t \in Producers, PushFrame(t)
      PROVE  IInv'
  <2> DEFINE n == IF Full THEN Len(frameQueue) ELSE Len(frameQueue) + 1
  <2>1. /\ frameQueue' \in Seq(Nat)
        /\ Len(frameQueue') = n
        /\ Len(frameQueue') > 0
        /\ Len(frameQueue') <= MAX_QUEUE_SIZE
        /\ \A i \in 1..n : frameQueue'[i] = pushed + 1 - n + i
        /\ Full => Head(frameQueue) = Gone + 1
    BY <1>2, EnqueueLatest DEF PushFrame
  <2>2. /\ pushed' = pushed + 1
        /\ delivered' = delivered
        /\ callback' = callback
        /\ mutex' \in {mutex, t}
        /\ unserved' \in {unserved, unserved + 1}
    BY <1>2 DEF PushFrame, EnterCallback
  <2>3. Gone \in Nat
    BY DEF QueueIsLatest, Gone, TypeOK
  <2>4. \/ Gone' = Gone + 1 /\ dropped' = dropped \cup {Gone + 1}
        \/ Gone' = Gone /\ dropped' = dropped
    BY <1>2, PushOutcome
  <2>5. TypeOK'
    <3>1. dropped' \in SUBSET Nat
      <4>1. Gone + 1 \in Nat /\ dropped \in SUBSET Nat
        BY <2>3 DEF TypeOK
      <4> QED
        BY <2>4, <4>1
    <3>2. mutex' \in Producers \cup {NoOne}
      BY <2>2 DEF TypeOK
    <3>3. pushed' \in Nat /\ unserved' \in Nat /\ delivered' \in Seq(Nat)
      BY <2>2 DEF TypeOK
    <3>4. callback' \in BOOLEAN
      BY <2>2 DEF TypeOK
    <3> QED
      BY <2>1, <3>1, <3>2, <3>3, <3>4 DEF TypeOK
  <2>6. QueueIsLatest'
    <3>1. Gone' = pushed + 1 - n /\ n \in Nat
      BY <2>1, <2>2 DEF Gone, TypeOK
    <3>2. Gone' >= 0
      BY <2>3, <2>4
    <3> QED
      BY <2>1, <3>1, <3>2 DEF QueueIsLatest
  <2>7. OlderLeft'
    <3>1. CASE Gone' = Gone + 1 /\ dropped' = dropped \cup {Gone + 1}
      BY <2>2, <2>3, <3>1 DEF OlderLeft, TypeOK
    <3>2. CASE Gone' = Gone /\ dropped' = dropped
      BY <2>2, <2>3, <3>2 DEF OlderLeft, TypeOK
    <3> QED
      BY <2>4, <3>1, <3>2
  <2> QED
    BY <2>5, <2>6, <2>7
<1>3. ASSUME NEW t \in Producers, CallbackReturns(t)
      PROVE  IInv'
  <2>1. /\ frameQueue # <<>>
        /\ frameQueue' = Tail(frameQueue)
        /\ delivered' = Append(delivered, Head(frameQueue))
        /\ mutex' = NoOne
        /\ UNCHANGED <<callback, pushed, dropped, unserved>>
    BY <1>3 DEF CallbackReturns, AfterDelivery, QueueIsLatest
  <2>2. /\ frameQueue' \in Seq(Nat)
        /\ Len(frameQueue') = Len(frameQueue) - 1
        /\ \A i \in 1..Len(frameQueue') : frameQueue'[i] = frameQueue[i + 1]
    BY <2>1 DEF TypeOK
  <2>3. Head(frameQueue) = Gone + 1 /\ Gone \in Nat /\ Gone' = Gone + 1
    BY <2>1, <2>2 DEF QueueIsLatest, Gone, TypeOK
  <2>4. TypeOK'
    BY <2>1, <2>2, <2>3 DEF TypeOK
  <2>5. QueueIsLatest'
    BY <2>1, <2>2, <2>3 DEF QueueIsLatest, Gone, TypeOK
  <2>6. OlderLeft'
    <3>1. /\ Len(delivered') = Len(delivered) + 1
          /\ \A i \in 1..Len(delivered) : delivered'[i] = delivered[i]
          /\ delivered'[Len(delivered) + 1] = Gone + 1
      BY <2>1, <2>3 DEF TypeOK
    <3>2. \A i \in 1..Len(delivered) : delivered[i] \in 1..Gone
      BY DEF OlderLeft
    <3>3. \A i \in 1..Len(delivered') : delivered'[i] \in 1..Gone'
      BY <2>3, <3>1, <3>2, SMTT(30) DEF TypeOK
    <3>4. \A i, j \in 1..Len(delivered') : i < j => delivered'[i] < delivered'[j]
      <4> SUFFICES ASSUME NEW i \in 1..Len(delivered'),
                          NEW j \in 1..Len(delivered'), i < j
                   PROVE  delivered'[i] < delivered'[j]
        OBVIOUS
      <4>1. Len(delivered) \in Nat
        BY DEF TypeOK
      <4>2. i \in 1..Len(delivered) /\ delivered'[i] = delivered[i]
        BY <3>1, <4>1
      <4>3. CASE j = Len(delivered) + 1
        BY <2>3, <3>1, <3>2, <4>2, <4>3
      <4>4. CASE j \in 1..Len(delivered)
        BY <3>1, <4>2, <4>4 DEF OlderLeft
      <4> QED
        BY <3>1, <4>1, <4>3, <4>4
    <3>5. dropped' \subseteq 1..Gone'
      BY <2>1, <2>3 DEF OlderLeft
    <3>6. Gone + 1 \notin dropped
      BY <2>3 DEF OlderLeft
    <3>7. \A i \in 1..Len(delivered') : delivered'[i] \notin dropped'
      BY <2>1, <3>1, <3>6 DEF OlderLeft, TypeOK
    <3> QED
      BY <3>3, <3>4, <3>5, <3>7 DEF OlderLeft
  <2> QED
    BY <2>4, <2>5, <2>6
<1>4. ASSUME NEW t \in Producers, CallbackThrows(t)
      PROVE  IInv'
  BY <1>4 DEF CallbackThrows, TypeOK, QueueIsLatest, OlderLeft, Gone
<1>5. CASE UNCHANGED vars
  BY <1>5 DEF vars, TypeOK, QueueIsLatest, OlderLeft, Gone
<1> QED
  BY <1>1, <1>2, <1>3, <1>4, <1>5 DEF Next

THEOREM Invariance == Spec => []IInv
<1>1. IInv /\ [Next]_vars => IInv'
  BY NextIInv
<1> QED
  BY InitIInv, <1>1, PTL DEF Spec
-----------------------------------------------------------------------------
(* Type correctness, with the capacity of the queue (pushFrame).           *)
THEOREM TypeCorrect == Spec => []TypeOK
<1>1. IInv => TypeOK
  BY DEF IInv
<1> QED
  BY Invariance, <1>1, PTL

(* Frames leave once, in push order, before every frame still queued.      *)
THEOREM Order == Spec => []LeavesInOrder
<1>1. IInv => LeavesInOrder
  <2> SUFFICES ASSUME IInv
               PROVE  LeavesInOrder
    OBVIOUS
  <2>1. Gone \in Nat
    BY DEF IInv, TypeOK, QueueIsLatest, Gone
  <2>2. \A f \in DeliveredFrames \cup dropped : f \in 1..Gone
    BY DEF IInv, OlderLeft, DeliveredFrames
  <2>3. \A q \in Queued : q \in Int /\ q > Gone
    BY <2>1 DEF IInv, TypeOK, QueueIsLatest, Queued
  <2> QED
    BY <2>1, <2>2, <2>3 DEF IInv, OlderLeft, LeavesInOrder, DeliveredFrames
<1> QED
  BY Invariance, <1>1, PTL
-----------------------------------------------------------------------------
(* The account of the backlog, which needs the finiteness of dropped and   *)
(* that a frame is dropped only once.                                      *)
AccountInv == IsFiniteSet(dropped) /\ BacklogAccount

LEMMA NextAccount == IInv /\ AccountInv /\ [Next]_vars => AccountInv'
<1> SUFFICES ASSUME IInv, AccountInv, [Next]_vars
             PROVE  AccountInv'
  OBVIOUS
<1>0. /\ Len(frameQueue) \in Nat /\ unserved \in Nat /\ Cardinality(dropped) \in Nat
      /\ Gone \in Nat
  BY FS_CardinalityType DEF IInv, TypeOK, AccountInv, QueueIsLatest, Gone
<1>1. ASSUME NEW cb \in BOOLEAN, SetCallback(cb)
      PROVE  AccountInv'
  BY <1>1 DEF SetCallback, AccountInv, BacklogAccount, Unlocked
<1>2. ASSUME NEW t \in Producers, PushFrame(t)
      PROVE  AccountInv'
  <2>1. unserved' + (IF mutex' = NoOne THEN 0 ELSE 1) = unserved + 1
    BY <1>0, <1>2, NoOneAssumption DEF PushFrame, EnterCallback, Unlocked
  <2>2. Len(frameQueue) + Cardinality(dropped) = unserved
    BY <1>0, <1>2 DEF PushFrame, AccountInv, BacklogAccount
  <2>3. CASE /\ Len(frameQueue') = Len(frameQueue)
             /\ dropped' = dropped \cup {Gone + 1}
    <3>1. Gone + 1 \notin dropped
      BY <1>0 DEF IInv, OlderLeft
    <3>2. IsFiniteSet(dropped') /\ Cardinality(dropped') = Cardinality(dropped) + 1
      BY <2>3, <3>1, FS_AddElement DEF AccountInv
    <3> QED
      BY <1>0, <2>1, <2>2, <2>3, <3>2 DEF AccountInv, BacklogAccount, Unlocked
  <2>4. CASE /\ Len(frameQueue') = Len(frameQueue) + 1
             /\ dropped' = dropped
    BY <1>0, <2>1, <2>2, <2>4 DEF AccountInv, BacklogAccount, Unlocked
  <2> QED
    BY <1>2, <2>3, <2>4, PushOutcome
<1>3. ASSUME NEW t \in Producers, CallbackReturns(t)
      PROVE  AccountInv'
  <2>1. Len(frameQueue') = Len(frameQueue) - 1
    BY <1>3, NoOneAssumption
    DEF CallbackReturns, AfterDelivery, IInv, TypeOK, QueueIsLatest
  <2>2. mutex = t /\ mutex' = NoOne /\ UNCHANGED <<dropped, unserved>>
    BY <1>3 DEF CallbackReturns
  <2> QED
    BY <1>0, <2>1, <2>2, NoOneAssumption DEF AccountInv, BacklogAccount, Unlocked
<1>4. ASSUME NEW t \in Producers, CallbackThrows(t)
      PROVE  AccountInv'
  BY <1>0, <1>4, NoOneAssumption
  DEF CallbackThrows, AccountInv, BacklogAccount, Unlocked
<1>5. CASE UNCHANGED vars
  BY <1>5 DEF vars, AccountInv, BacklogAccount, Unlocked
<1> QED
  BY <1>1, <1>2, <1>3, <1>4, <1>5 DEF Next

(* The backlog is exactly the pushes that delivered nothing.               *)
THEOREM Backlog == Spec => []BacklogAccount
<1>1. Init => AccountInv
  BY FS_EmptySet DEF Init, AccountInv, BacklogAccount, Unlocked
<1>2. AccountInv => BacklogAccount
  BY DEF AccountInv
<1> QED
  BY Invariance, NextAccount, <1>1, <1>2, PTL DEF Spec
-----------------------------------------------------------------------------
(* What was dropped is not among the latest MAX_QUEUE_SIZE pushes: it left *)
(* when a full queue of later frames and the one pushed then came after.   *)
LateOnly == \A f \in dropped : pushed - f >= MAX_QUEUE_SIZE

LEMMA NextLateOnly == IInv /\ LateOnly /\ [Next]_vars => LateOnly'
<1> SUFFICES ASSUME IInv, LateOnly, [Next]_vars
             PROVE  LateOnly'
  OBVIOUS
<1>0. /\ pushed \in Nat /\ MAX_QUEUE_SIZE \in Nat /\ Len(frameQueue) \in Nat
      /\ dropped \subseteq Nat
  BY QueueAssumption DEF IInv, TypeOK
<1>1. ASSUME NEW t \in Producers, PushFrame(t)
      PROVE  LateOnly'
  <2>1. pushed' = pushed + 1
    BY <1>1 DEF PushFrame
  <2>2. ASSUME NEW f \in dropped
        PROVE  pushed' - f >= MAX_QUEUE_SIZE
    <3>1. f \in Nat /\ pushed - f >= MAX_QUEUE_SIZE
      BY <1>0, <2>2 DEF LateOnly
    <3> QED
      BY <1>0, <2>1, <3>1
  <2>3. Len(frameQueue) = MAX_QUEUE_SIZE => pushed' - (Gone + 1) >= MAX_QUEUE_SIZE
    BY <1>0, <2>1 DEF Gone
  <2>4. \/ /\ Len(frameQueue) = MAX_QUEUE_SIZE
           /\ dropped' = dropped \cup {Gone + 1}
        \/ dropped' = dropped
    BY <1>1, PushOutcome
  <2> QED
    BY <1>0, <2>2, <2>3, <2>4 DEF LateOnly
<1>2. ASSUME pushed' = pushed, dropped' = dropped
      PROVE  LateOnly'
  BY <1>2 DEF LateOnly
<1>3. ASSUME NEW cb \in BOOLEAN, SetCallback(cb)
      PROVE  LateOnly'
  BY <1>2, <1>3 DEF SetCallback
<1>4. ASSUME NEW t \in Producers, CallbackReturns(t) \/ CallbackThrows(t)
      PROVE  LateOnly'
  BY <1>2, <1>4 DEF CallbackReturns, CallbackThrows
<1>5. CASE UNCHANGED vars
  BY <1>2, <1>5 DEF vars
<1> QED
  BY <1>1, <1>3, <1>4, <1>5 DEF Next

(* A frame still queued is one of the MAX_QUEUE_SIZE latest pushes and a   *)
(* dropped one is not: the queue is an interval that ends with the last    *)
(* push and is never longer than its capacity (pushFrame).                 *)
THEOREM Lag == Spec => []BoundedLag
<1>1. Init => LateOnly
  BY DEF Init, LateOnly
<1>2. IInv /\ LateOnly => BoundedLag
  <2> SUFFICES ASSUME IInv, NEW i \in 1..Len(frameQueue)
               PROVE  pushed - frameQueue[i] < MAX_QUEUE_SIZE
    BY DEF BoundedLag, LateOnly, Queued
  <2>1. frameQueue[i] = pushed - Len(frameQueue) + i
    BY DEF IInv, QueueIsLatest, Gone
  <2>2. /\ pushed \in Nat /\ Len(frameQueue) \in Nat /\ MAX_QUEUE_SIZE \in Nat
        /\ Len(frameQueue) <= MAX_QUEUE_SIZE
    BY QueueAssumption DEF IInv, TypeOK
  <2> QED
    BY <2>1, <2>2
<1> QED
  BY Invariance, NextLateOnly, <1>1, <1>2, PTL DEF Spec
-----------------------------------------------------------------------------
(* Refinement.  The frames in the queue are an interval, so their number   *)
(* is the length of the queue and the oldest of them is its front.         *)
LEMMA QueuedInterval ==
    ASSUME TypeOK, QueueIsLatest
    PROVE  /\ Gone \in Nat
           /\ Queued = (Gone + 1)..pushed
           /\ Cardinality(Queued) = Len(frameQueue)
<1>1. Gone \in Nat /\ Len(frameQueue) \in Nat /\ pushed = Gone + Len(frameQueue)
  BY DEF TypeOK, QueueIsLatest, Gone
<1>2. Queued = (Gone + 1)..pushed
  <2>1. ASSUME NEW f \in Queued
        PROVE  f \in (Gone + 1)..pushed
    BY <1>1 DEF Queued, QueueIsLatest
  <2>2. ASSUME NEW f \in (Gone + 1)..pushed
        PROVE  f \in Queued
    <3>1. f - Gone \in 1..Len(frameQueue)
      BY <1>1
    <3>2. frameQueue[f - Gone] = f
      BY <1>1, <3>1 DEF QueueIsLatest
    <3> QED
      BY <3>1, <3>2 DEF Queued
  <2> QED
    BY <2>1, <2>2
<1>3. Cardinality((Gone + 1)..pushed) = Len(frameQueue)
  <2>1. Gone + 1 \in Int /\ pushed \in Int
    BY <1>1
  <2>2. Cardinality((Gone + 1)..pushed)
          = IF Gone + 1 > pushed THEN 0 ELSE pushed - (Gone + 1) + 1
    BY <2>1, FS_Interval
  <2> QED
    BY <1>1, <2>2
<1> QED
  BY <1>1, <1>2, <1>3

(* The instance brings its own copy of Cardinality. *)
LEMMA SameCardinality == \A S : Buffer!Cardinality(S) = Cardinality(S)
BY DEF Buffer!Cardinality, Cardinality

LEMMA StepRefines == IInv /\ IInv' /\ [Next]_vars => [Buffer!Next]_(Buffer!vars)
<1> SUFFICES ASSUME IInv, IInv', [Next]_vars
             PROVE  [Buffer!Next]_(Buffer!vars)
  OBVIOUS
<1>0. /\ Gone \in Nat
      /\ Queued = (Gone + 1)..pushed
      /\ Cardinality(Queued) = Len(frameQueue)
  BY QueuedInterval DEF IInv
<1>1. Queued' = (Gone' + 1)..pushed'
  <2>1. (TypeOK /\ QueueIsLatest => Queued = (Gone + 1)..pushed)'
    BY QueuedInterval, PTL
  <2> QED
    BY <2>1 DEF IInv
<1>2. ASSUME NEW t \in Producers, PushFrame(t)
      PROVE  Buffer!Next
  <2>1. pushed < MaxPush /\ pushed' = pushed + 1 /\ delivered' = delivered
    BY <1>2 DEF PushFrame
  <2>2. CASE /\ Len(frameQueue) = MAX_QUEUE_SIZE
             /\ Gone' = Gone + 1
             /\ dropped' = dropped \cup {Gone + 1}
    <3>1. Gone + 1 \in Queued /\ \A g \in Queued : Gone + 1 <= g
      BY <1>0, <2>2, QueueAssumption DEF Gone, IInv, TypeOK
    <3>2. Queued' = (Queued \ {Gone + 1}) \cup {pushed + 1}
      <4>1. Gone + 1 <= pushed /\ pushed \in Nat
        BY <1>0, <3>1 DEF IInv, TypeOK
      <4>2. Queued' = (Gone + 2)..(pushed + 1)
        BY <1>0, <1>1, <2>1, <2>2
      <4> QED
        BY <1>0, <4>1, <4>2
    <3>3. Cardinality(Queued) >= MAX_QUEUE_SIZE
      BY <1>0, <2>2, QueueAssumption
    <3>4. Buffer!Oldest(Gone + 1)
      BY <3>1 DEF Buffer!Oldest
    <3>5. Buffer!PushDroppingOldest
      BY <2>1, <2>2, <3>1, <3>2, <3>3, <3>4, SameCardinality
      DEF Buffer!PushDroppingOldest
    <3> QED
      BY <3>5 DEF Buffer!Next
  <2>3. CASE /\ Len(frameQueue) < MAX_QUEUE_SIZE
             /\ Gone' = Gone
             /\ dropped' = dropped
    <3>1. Queued' = Queued \cup {pushed + 1}
      <4>1. Gone <= pushed /\ pushed \in Nat
        BY DEF Gone, IInv, TypeOK
      <4> QED
        BY <1>0, <1>1, <2>1, <2>3, <4>1
    <3>2. Cardinality(Queued) < MAX_QUEUE_SIZE
      BY <1>0, <2>3
    <3>3. Buffer!PushWithRoom
      BY <2>1, <2>3, <3>1, <3>2, SameCardinality DEF Buffer!PushWithRoom
    <3> QED
      BY <3>3 DEF Buffer!Next
  <2> QED
    BY <1>2, <2>2, <2>3, PushOutcome
<1>3. ASSUME NEW t \in Producers, CallbackReturns(t)
      PROVE  Buffer!Next
  <2>1. /\ frameQueue \in Seq(Nat) /\ Len(frameQueue) > 0
        /\ frameQueue' = Tail(frameQueue)
        /\ delivered' = Append(delivered, Head(frameQueue))
        /\ pushed' = pushed /\ dropped' = dropped
    BY <1>3, NoOneAssumption
    DEF CallbackReturns, AfterDelivery, IInv, TypeOK, QueueIsLatest
  <2>2. Head(frameQueue) = Gone + 1 /\ Gone' = Gone + 1
    BY <1>0, <2>1 DEF IInv, TypeOK, QueueIsLatest, Gone
  <2>3. Gone + 1 \in Queued /\ \A g \in Queued : Gone + 1 <= g
    BY <1>0, <2>1 DEF Gone, IInv, TypeOK
  <2>4. Queued' = Queued \ {Gone + 1}
    BY <1>0, <1>1, <2>1, <2>2 DEF IInv, TypeOK
  <2>5. Buffer!Deliver
    BY <2>1, <2>2, <2>3, <2>4 DEF Buffer!Deliver, Buffer!Oldest
  <2> QED
    BY <2>5 DEF Buffer!Next
<1>4. ASSUME UNCHANGED <<frameQueue, pushed, delivered, dropped>>
      PROVE  UNCHANGED Buffer!vars
  BY <1>4 DEF Buffer!vars, Queued
<1>5. CASE UNCHANGED vars
  BY <1>4, <1>5 DEF vars
<1>6. ASSUME NEW cb \in BOOLEAN, SetCallback(cb)
      PROVE  UNCHANGED Buffer!vars
  BY <1>4, <1>6 DEF SetCallback
<1>7. ASSUME NEW t \in Producers, CallbackThrows(t)
      PROVE  UNCHANGED Buffer!vars
  BY <1>4, <1>7 DEF CallbackThrows
<1> QED
  BY <1>2, <1>3, <1>5, <1>6, <1>7 DEF Next

(* The class implements the drop-oldest buffer: initial states map to      *)
(* initial states, and every step to a step of the buffer or a stutter.    *)
THEOREM Refinement == Spec => ImplementsDropOldest
<1>1. Init => Buffer!Init
  BY DEF Init, Buffer!Init, Queued
<1> QED
  BY Invariance, StepRefines, <1>1, PTL DEF Spec, ImplementsDropOldest, Buffer!Spec
=============================================================================
