------------------------- MODULE ControlQueueProofs -------------------------
(***************************************************************************)
(* For every capacity, id width, set of callers and set of channels: no    *)
(* lost wake-up, no lost or repeated request, distinct outstanding ids,    *)
(* and the queue and its worker implement RequestPipe.                     *)
(***************************************************************************)
EXTENDS ControlQueue, RingTheorems

\* The inductive invariant.
IInv ==
  /\ TypeOK
  /\ NoLostWakeup
  /\ NothingLost
  /\ OutstandingIdsConsecutive

USE DEF queueVars

-----------------------------------------------------------------------------
\* The wrap of the id counter, without the division.
LEMMA NextIdValue ==
  ASSUME NEW id \in Id
  PROVE  /\ NextId(id) = IF id + 1 = IdLimit THEN 1 ELSE id + 1
         /\ NextId(id) \in Id
<1>1. IdLimit \in Nat /\ IdLimit > 0 /\ IdLimit > 2 /\ id + 1 \in Nat /\ id + 1 <= IdLimit
  BY ControlAssumption DEF Id
<1>2. CASE id + 1 = IdLimit
  <2>1. (id + 1) % IdLimit = 0
    BY <1>1, <1>2, ModLarge
  <2>2. QED
    BY <1>1, <1>2, <2>1 DEF NextId, Id
<1>3. CASE id + 1 < IdLimit
  <2>1. (id + 1) % IdLimit = id + 1
    BY <1>1, <1>3, ModSmall
  <2>2. QED
    BY <1>1, <1>3, <2>1 DEF NextId, Id
<1>4. QED
  BY <1>1, <1>2, <1>3

\* Handing out one more id: what was handed out d ids ago now is d + 1 ids old.
LEMMA IdBeforeNext ==
  ASSUME NEW id \in Id, NEW d \in Nat, d <= Capacity
  PROVE  IdBefore(NextId(id), d + 1) = IdBefore(id, d)
BY NextIdValue, ControlAssumption DEF IdBefore, Id

\* The id handed out last.
LEMMA IdBeforeOne ==
  ASSUME NEW id \in Id
  PROVE  IdBefore(NextId(id), 1) = id
BY NextIdValue, ControlAssumption DEF IdBefore, Id

\* The ids of the last Capacity + 1 requests are all different.
LEMMA IdBeforeInjective ==
  ASSUME NEW id \in Id, NEW d \in 1..(Capacity + 1), NEW e \in 1..(Capacity + 1),
         IdBefore(id, d) = IdBefore(id, e)
  PROVE  d = e
BY ControlAssumption DEF IdBefore, Id

-----------------------------------------------------------------------------
LEMMA InitIInv == Init => IInv
<1> SUFFICES ASSUME Init PROVE IInv
  OBVIOUS
<1>1. 0..(0 - 1) = {}
  OBVIOUS
<1>2. TypeOK
  <2>1. 0 \in Index /\ 1 \in Id /\ 0 \in 0..Capacity
    BY ControlAssumption DEF Index, Id
  <2>2. queue \in [Index -> Request \cup {NoRequest}]
    BY DEF Init
  <2>3. QED
    BY <2>1, <2>2 DEF Init, TypeOK
<1>3. NoLostWakeup /\ NothingLost
  BY DEF Init, NoLostWakeup, NothingLost, Executing
<1>4. OutstandingIdsConsecutive
  BY <1>1 DEF Init, OutstandingIdsConsecutive, Executing
<1>5. QED
  BY <1>2, <1>3, <1>4 DEF IInv

\* A request enters the queue.
LEMMA SubmitIInv ==
  ASSUME IInv, NEW kind \in Kind, vp_control_submit(kind)
  PROVE  IInv'
<1> DEFINE slot == RingSlot(queue_head, queue_count, Capacity)
           new  == [id |-> next_request_id, kind |-> kind]
<1> USE DEF IInv
<1>1. /\ Capacity \in Nat /\ Capacity > 0
      /\ queue_head \in 0..(Capacity - 1)
      /\ queue_count \in 0..(Capacity - 1)
      /\ next_request_id \in Id
      /\ queue \in [0..(Capacity - 1) -> Request \cup {NoRequest}]
  BY ControlAssumption DEF TypeOK, Index, vp_control_submit
<1>2. new \in Request
  BY <1>1 DEF Request
<1>3. slot \in 0..(Capacity - 1)
  <2>1. queue_count \in 0..Capacity
    BY <1>1
  <2>2. QED
    BY <1>1, <2>1, RingSlotValue
<1>4. /\ queue' = [queue EXCEPT ![slot] = new]
      /\ queue_count' = queue_count + 1
      /\ next_request_id' = NextId(next_request_id)
      /\ accepted' = accepted + 1
      /\ WakeWorker
      /\ ~stop_requested
      /\ UNCHANGED <<queue_head, stop_requested, request, unreported, lock,
                     completed, last, freed>>
  BY DEF vp_control_submit
<1> HIDE DEF slot, new
<1>5. TypeOK'
  <2>1. queue' \in [Index -> Request \cup {NoRequest}]
    BY <1>1, <1>2, <1>3, <1>4 DEF Index
  <2>2. NextId(next_request_id) \in Id
    BY <1>1, NextIdValue
  <2>3. QED
    BY <1>1, <1>4, <2>1, <2>2 DEF TypeOK, WakeWorker
<1>6. NoLostWakeup'
  BY <1>4 DEF NoLostWakeup, WakeWorker, TypeOK
<1>7. Executing' = Executing
  BY <1>4 DEF Executing, WakeWorker
<1>8. NothingLost'
  BY <1>1, <1>4, <1>7 DEF NothingLost, WakeWorker, TypeOK
<1>9. OutstandingIdsConsecutive'
  <2>1. ASSUME NEW i \in 0..(queue_count' - 1)
        PROVE  LET r == queue'[RingSlot(queue_head', i, Capacity)]
               IN r \in Request /\ r.id = IdBefore(next_request_id', queue_count' - i)
    <3>1. CASE i = queue_count
      <4>1. queue'[RingSlot(queue_head', i, Capacity)] = new
        BY <3>1, <1>1, <1>3, <1>4 DEF slot
      <4>2. IdBefore(next_request_id', queue_count' - i) = next_request_id
        <5>1. queue_count' - i = 1
          BY <3>1, <1>1, <1>4
        <5>2. QED
          BY <5>1, <1>1, <1>4, IdBeforeOne
      <4>3. QED
        BY <4>1, <4>2, <1>2 DEF new
    <3>2. CASE i \in 0..(queue_count - 1)
      <4>1. i \in 0..(Capacity - 1) /\ i # queue_count
        BY <3>2, <1>1
      <4>2. RingSlot(queue_head, i, Capacity) # slot
        BY <4>1, <1>1, RingSlotInjective DEF slot
      <4>3. RingSlot(queue_head, i, Capacity) \in 0..(Capacity - 1)
        <5>1. i \in 0..Capacity
          BY <4>1, <1>1
        <5>2. QED
          BY <5>1, <1>1, RingSlotValue
      <4>4. queue'[RingSlot(queue_head', i, Capacity)] =
              queue[RingSlot(queue_head, i, Capacity)]
        BY <4>2, <4>3, <1>1, <1>4
      <4>5. IdBefore(next_request_id', queue_count' - i) =
              IdBefore(next_request_id, queue_count - i)
        <5>1. /\ queue_count - i \in Nat /\ queue_count - i <= Capacity
              /\ queue_count' - i = (queue_count - i) + 1
          BY <3>2, <1>1, <1>4
        <5>2. QED
          BY <5>1, <1>1, <1>4, IdBeforeNext
      <4>6. QED
        BY <3>2, <4>4, <4>5 DEF OutstandingIdsConsecutive
    <3>3. QED
      BY <3>1, <3>2, <1>1, <1>4
  <2>2. IF Executing' THEN /\ request' \in Request
                           /\ request'.id = IdBefore(next_request_id', queue_count' + 1)
                      ELSE request' = NoRequest
    <3>1. /\ queue_count + 1 \in Nat /\ queue_count + 1 <= Capacity
          /\ queue_count' + 1 = (queue_count + 1) + 1
      BY <1>1, <1>4
    <3>2. IdBefore(next_request_id', queue_count' + 1) =
            IdBefore(next_request_id, queue_count + 1)
      BY <3>1, <1>1, <1>4, IdBeforeNext
    <3>3. QED
      BY <3>2, <1>4, <1>7 DEF OutstandingIdsConsecutive
  <2>3. QED
    BY <2>1, <2>2 DEF OutstandingIdsConsecutive
<1>10. QED
  BY <1>5, <1>6, <1>8, <1>9

\* The worker sleeps, leaves, or takes the oldest request from the queue.
LEMMA WorkerCheckIInv ==
  ASSUME IInv, WorkerCheck
  PROVE  IInv'
<1> USE DEF IInv
<1>1. /\ Capacity \in Nat /\ Capacity > 0
      /\ queue_head \in 0..(Capacity - 1)
      /\ queue_count \in 0..Capacity
      /\ ~Executing
      /\ request = NoRequest
  BY ControlAssumption DEF TypeOK, Index, WorkerCheck, Executing, OutstandingIdsConsecutive
<1>2. /\ worker = "check"
      /\ UNCHANGED <<queue, next_request_id, accepted, stop_requested,
                     unreported, lock, completed, last, freed>>
  BY DEF WorkerCheck
<1>3. CASE queue_count = 0
  <2>1. /\ worker' = IF stop_requested THEN "exited" ELSE "asleep"
        /\ UNCHANGED <<queue_head, queue_count, request>>
    BY <1>3 DEF WorkerCheck, TypeOK
  <2>2. ~Executing'
    BY <2>1 DEF Executing
  <2>3. TypeOK'
    BY <1>2, <2>1 DEF TypeOK
  <2>4. NoLostWakeup' /\ NothingLost'
    BY <1>1, <1>2, <1>3, <2>1, <2>2 DEF NoLostWakeup, NothingLost, TypeOK
  <2>5. OutstandingIdsConsecutive'
    BY <1>1, <1>2, <2>1, <2>2 DEF OutstandingIdsConsecutive
  <2>6. QED
    BY <2>3, <2>4, <2>5
<1>4. CASE queue_count > 0
  <2>1. /\ request' = queue[queue_head]
        /\ queue_head' = RingSlot(queue_head, 1, Capacity)
        /\ queue_count' = queue_count - 1
        /\ worker' = "execute"
    BY <1>4, <1>1 DEF WorkerCheck
  <2>2. Executing'
    BY <2>1 DEF Executing
  <2>3. queue_head' \in 0..(Capacity - 1)
    <3>1. 1 \in 0..Capacity
      BY <1>1
    <3>2. QED
      BY <3>1, <1>1, <2>1, RingSlotValue
  <2>4. /\ request' \in Request
        /\ request'.id = IdBefore(next_request_id, queue_count)
    <3>1. 0 \in 0..(queue_count - 1) /\ queue_count - 0 = queue_count
      BY <1>1, <1>4
    <3>2. RingSlot(queue_head, 0, Capacity) = queue_head
      BY <1>1, RingSlotZero
    <3>3. QED
      BY <2>1, <3>1, <3>2 DEF OutstandingIdsConsecutive
  <2>5. TypeOK'
    BY <1>1, <1>2, <1>4, <2>1, <2>3, <2>4 DEF TypeOK, Index
  <2>6. NoLostWakeup' /\ NothingLost'
    BY <1>1, <1>2, <1>4, <2>1, <2>2 DEF NoLostWakeup, NothingLost, TypeOK
  <2>7. ASSUME NEW i \in 0..(queue_count' - 1)
        PROVE  LET r == queue'[RingSlot(queue_head', i, Capacity)]
               IN r \in Request /\ r.id = IdBefore(next_request_id', queue_count' - i)
    <3>1. /\ i \in 0..(Capacity - 1)
          /\ i + 1 \in 0..(queue_count - 1)
          /\ queue_count' - i = queue_count - (i + 1)
      BY <1>1, <1>4, <2>1
    <3>2. RingSlot(queue_head', i, Capacity) = RingSlot(queue_head, i + 1, Capacity)
      BY <1>1, <2>1, <3>1, RingSlotNext
    <3>3. QED
      BY <1>2, <3>1, <3>2 DEF OutstandingIdsConsecutive
  <2>8. queue_count' + 1 = queue_count
    BY <1>1, <2>1
  <2>9. OutstandingIdsConsecutive'
    BY <1>2, <2>2, <2>4, <2>7, <2>8 DEF OutstandingIdsConsecutive
  <2>10. QED
    BY <2>5, <2>6, <2>9
<1>5. QED
  BY <1>1, <1>3, <1>4

\* The other steps leave the queue alone.
LEMMA OtherIInv ==
  ASSUME IInv,
         \/ WorkerLock \/ WorkerUnlock \/ WorkerNoMemory
         \/ \E c \in Channel : EmitChannel(c)
         \/ SpuriousWakeup
         \/ \E c \in Caller : SyncBegin(c) \/ SyncEnd(c)
         \/ vp_control_deinit
         \/ DeinitJoined
         \/ UNCHANGED vars
  PROVE  IInv'
<1> USE DEF IInv
<1>1. UNCHANGED <<queueVars, request, completed, last>>
  BY DEF WorkerLock, WorkerUnlock, WorkerNoMemory, EmitChannel, SpuriousWakeup,
         SyncBegin, SyncEnd, vp_control_deinit, DeinitJoined, vars
<1>2. /\ Executing' = Executing
      /\ worker' = "asleep" => worker = "asleep" /\ stop_requested' = stop_requested
      /\ worker' = "exited" => worker = "exited" /\ stop_requested' = stop_requested
  BY DEF WorkerLock, WorkerUnlock, WorkerNoMemory, EmitChannel, SpuriousWakeup,
         SyncBegin, SyncEnd, vp_control_deinit, DeinitJoined, vars, Executing,
         WakeWorker, NothingLost
<1>3. TypeOK'
  <2>1. worker' \in {"check", "asleep", "execute", "locked", "emit", "exited"}
    BY DEF WorkerLock, WorkerUnlock, WorkerNoMemory, EmitChannel, SpuriousWakeup,
           SyncBegin, SyncEnd, vp_control_deinit, DeinitJoined, vars,
           WakeWorker, TypeOK
  <2>2. /\ stop_requested' \in BOOLEAN
        /\ freed' \in BOOLEAN
    BY DEF WorkerLock, WorkerUnlock, WorkerNoMemory, EmitChannel, SpuriousWakeup,
           SyncBegin, SyncEnd, vp_control_deinit, DeinitJoined, vars, TypeOK
  <2>3. lock' \in Caller \cup {"worker", Free}
    BY DEF WorkerLock, WorkerUnlock, WorkerNoMemory, EmitChannel, SpuriousWakeup,
           SyncBegin, SyncEnd, vp_control_deinit, DeinitJoined, vars, TypeOK
  <2>4. unreported' \in SUBSET Channel
    BY DEF WorkerLock, WorkerUnlock, WorkerNoMemory, EmitChannel, SpuriousWakeup,
           SyncBegin, SyncEnd, vp_control_deinit, DeinitJoined, vars, TypeOK
  <2>5. QED
    BY <1>1, <2>1, <2>2, <2>3, <2>4 DEF TypeOK
<1>4. NoLostWakeup'
  BY <1>1, <1>2 DEF NoLostWakeup
<1>5. NothingLost'
  BY <1>1, <1>2 DEF NothingLost
<1>6. OutstandingIdsConsecutive'
  BY <1>1, <1>2 DEF OutstandingIdsConsecutive
<1>7. QED
  BY <1>3, <1>4, <1>5, <1>6

LEMMA EmitCompletionIInv ==
  ASSUME IInv, EmitCompletion
  PROVE  IInv'
<1> USE DEF IInv
<1>1. /\ Executing /\ ~Executing'
      /\ request' = NoRequest
      /\ completed' = completed + 1
      /\ worker' = "check"
      /\ last' = request
      /\ UNCHANGED <<queueVars, stop_requested, unreported, lock, freed>>
  BY DEF EmitCompletion, Executing
<1>2. TypeOK'
  BY <1>1 DEF TypeOK
<1>3. NoLostWakeup' /\ NothingLost'
  BY <1>1 DEF NoLostWakeup, NothingLost, TypeOK
<1>4. OutstandingIdsConsecutive'
  BY <1>1 DEF OutstandingIdsConsecutive
<1>5. QED
  BY <1>2, <1>3, <1>4

LEMMA NextIInv == IInv /\ [Next]_vars => IInv'
<1> SUFFICES ASSUME IInv, [Next]_vars PROVE IInv'
  OBVIOUS
<1>1. CASE \E k \in Kind : vp_control_submit(k)
  BY <1>1, SubmitIInv
<1>2. CASE WorkerCheck
  BY <1>2, WorkerCheckIInv
<1>3. CASE EmitCompletion
  BY <1>3, EmitCompletionIInv
<1>4. CASE \/ WorkerLock \/ WorkerUnlock \/ WorkerNoMemory
           \/ \E c \in Channel : EmitChannel(c)
           \/ SpuriousWakeup
           \/ \E c \in Caller : SyncBegin(c) \/ SyncEnd(c)
           \/ vp_control_deinit
           \/ DeinitJoined
           \/ UNCHANGED vars
  BY <1>4, OtherIInv
<1>5. QED
  BY <1>1, <1>2, <1>3, <1>4 DEF Next, WorkerStep, Terminated

LEMMA Invariant == Spec => []IInv
BY InitIInv, NextIInv, PTL DEF Spec

-----------------------------------------------------------------------------
\* Every variable keeps its type.
THEOREM TypeCorrect == Spec => []TypeOK
BY Invariant, PTL DEF IInv

\* The worker never sleeps while a request or a stop waits for it.
THEOREM NoWakeupIsLost == Spec => []NoLostWakeup
BY Invariant, PTL DEF IInv

\* Accepted requests are completed, in hand or queued; deinit joins an idle worker.
THEOREM NothingIsLost == Spec => []NothingLost
BY Invariant, PTL DEF IInv

-----------------------------------------------------------------------------
\* What the invariant says of the ring, in the terms of the ring lemmas.
LEMMA RingFacts ==
  ASSUME IInv
  PROVE  /\ Capacity \in Nat /\ Capacity > 0
         /\ queue_head \in 0..(Capacity - 1)
         /\ queue_count \in 0..Capacity
         /\ next_request_id \in Id
         /\ RingHolds(queue, queue_head, queue_count, Capacity, Request)
         /\ Pending \in Seq(Request)
         /\ Len(Pending) = queue_count
         /\ \A i \in 1..queue_count :
              /\ Pending[i] = queue[RingSlot(queue_head, i - 1, Capacity)]
              /\ Pending[i].id = IdBefore(next_request_id, queue_count + 1 - i)
<1>1. /\ Capacity \in Nat /\ Capacity > 0
      /\ queue_head \in 0..(Capacity - 1)
      /\ queue_count \in 0..Capacity
      /\ next_request_id \in Id
  BY ControlAssumption DEF IInv, TypeOK, Index
<1>2. RingHolds(queue, queue_head, queue_count, Capacity, Request)
  BY DEF IInv, OutstandingIdsConsecutive, RingHolds
<1>3. /\ Pending \in Seq(Request)
      /\ Len(Pending) = queue_count
      /\ \A i \in 1..queue_count :
           Pending[i] = queue[RingSlot(queue_head, i - 1, Capacity)]
  BY <1>1, <1>2, RingContentsType DEF Pending
<1>4. ASSUME NEW i \in 1..queue_count
      PROVE  Pending[i].id = IdBefore(next_request_id, queue_count + 1 - i)
  <2>1. /\ i - 1 \in 0..(queue_count - 1)
        /\ queue_count - (i - 1) = queue_count + 1 - i
    BY <1>1
  <2>2. QED
    BY <1>3, <2>1 DEF IInv, OutstandingIdsConsecutive
<1>5. QED
  BY <1>1, <1>2, <1>3, <1>4

LEMMA ConsecutiveIsDistinct == IInv => OutstandingIdsDistinct
<1> SUFFICES ASSUME IInv PROVE OutstandingIdsDistinct
  OBVIOUS
<1> DEFINE outstanding == (IF Executing THEN 0 ELSE 1)..queue_count
           id(k) == IF k = 0 THEN request.id ELSE Pending[k].id
<1>1. ASSUME NEW k \in outstanding
      PROVE  /\ id(k) = IdBefore(next_request_id, queue_count + 1 - k)
             /\ queue_count + 1 - k \in 1..(Capacity + 1)
             /\ k \in Int
  <2>1. k \in Int /\ queue_count + 1 - k \in 1..(Capacity + 1)
    BY RingFacts
  <2>2. CASE k = 0
    <3>1. Executing /\ queue_count + 1 - k = queue_count + 1
      BY <2>2, RingFacts
    <3>2. QED
      BY <2>1, <2>2, <3>1 DEF IInv, OutstandingIdsConsecutive
  <2>3. CASE k # 0
    <3>1. k \in 1..queue_count
      BY <2>3, RingFacts
    <3>2. QED
      BY <2>1, <2>3, <3>1, RingFacts
  <2>4. QED
    BY <2>2, <2>3
<1> HIDE DEF id, outstanding
<1>2. ASSUME NEW i \in outstanding, NEW j \in outstanding, id(i) = id(j)
      PROVE  i = j
  <2>1. queue_count + 1 - i = queue_count + 1 - j
    BY <1>1, <1>2, RingFacts, IdBeforeInjective
  <2>2. QED
    BY <1>1, <2>1, RingFacts
<1>3. QED
  BY <1>2 DEF OutstandingIdsDistinct, id, outstanding

\* No two outstanding requests share an id, across the wrap of the counter.
THEOREM IdsAreDistinct == Spec => []OutstandingIdsDistinct
BY Invariant, ConsecutiveIsDistinct, PTL

-----------------------------------------------------------------------------
LEMMA PipeInitHolds == Init => Pipe!PipeInit
<1> SUFFICES ASSUME Init PROVE Pipe!PipeInit
  OBVIOUS
<1>1. Pending = <<>>
  BY RingContentsEmpty DEF Init, Pending
<1>2. QED
  BY <1>1 DEF Init, Pipe!PipeInit

LEMMA SubmitIsAccept ==
  ASSUME IInv, NEW kind \in Kind, vp_control_submit(kind)
  PROVE  \E r \in Request : Pipe!Accept(r)
<1> DEFINE new == [id |-> next_request_id, kind |-> kind]
<1>1. new \in Request
  BY RingFacts DEF Request
<1>2. /\ queue_count \in 0..(Capacity - 1)
      /\ RingSlot(queue_head, queue_count, Capacity) \in 0..(Capacity - 1)
  <2>1. queue_count \in 0..(Capacity - 1) /\ queue_count \in 0..Capacity
    BY RingFacts DEF vp_control_submit
  <2>2. QED
    BY <2>1, RingFacts, RingSlotValue
<1>3. /\ queue'[RingSlot(queue_head, queue_count, Capacity)] = new
      /\ \A i \in 0..(Capacity - 1) :
           i # RingSlot(queue_head, queue_count, Capacity) => queue'[i] = queue[i]
  BY <1>2 DEF vp_control_submit, IInv, TypeOK, Index
<1>4. RingAgrees(queue', queue, queue_head, queue_count, Capacity)
  <2>1. ASSUME NEW i \in 0..(queue_count - 1)
        PROVE  queue'[RingSlot(queue_head, i, Capacity)] =
               queue[RingSlot(queue_head, i, Capacity)]
    <3>1. i \in 0..(Capacity - 1) /\ i \in 0..Capacity /\ i # queue_count
      BY <1>2, RingFacts
    <3>2. RingSlot(queue_head, i, Capacity) # RingSlot(queue_head, queue_count, Capacity)
      BY <1>2, <3>1, RingFacts, RingSlotInjective
    <3>3. RingSlot(queue_head, i, Capacity) \in 0..(Capacity - 1)
      BY <3>1, RingFacts, RingSlotValue
    <3>4. QED
      BY <1>3, <3>2, <3>3
  <2>2. QED
    BY <2>1 DEF RingAgrees
<1>5. RingContents(queue', queue_head, queue_count + 1, Capacity) = Append(Pending, new)
  <2> HIDE DEF new
  <2>1. /\ Capacity \in Nat /\ Capacity > 0 /\ queue_head \in 0..(Capacity - 1)
        /\ RingHolds(queue, queue_head, queue_count, Capacity, Request)
    BY RingFacts
  <2>2. queue_count \in 0..(Capacity - 1)
    BY <1>2
  <2>3. queue'[RingSlot(queue_head, queue_count, Capacity)] = new
    BY <1>3
  <2>4. RingContents(queue', queue_head, queue_count + 1, Capacity) =
          Append(RingContents(queue, queue_head, queue_count, Capacity), new)
    BY ONLY <1>1, <1>4, <2>1, <2>2, <2>3, RingPush
  <2>5. QED
    BY <2>4 DEF Pending
<1>6. Pending' = Append(Pending, new)
  BY <1>5 DEF Pending, vp_control_submit
<1>7. Pipe!Accept(new)
  BY <1>2, <1>6, RingFacts DEF Pipe!Accept, vp_control_submit
<1>8. QED
  BY <1>1, <1>7

LEMMA WorkerCheckIsBegin ==
  ASSUME IInv, WorkerCheck
  PROVE  Pipe!Begin \/ UNCHANGED Pipe!pipeVars
<1>1. request = NoRequest /\ UNCHANGED <<queue, completed, last, stop_requested>>
  BY DEF WorkerCheck, IInv, OutstandingIdsConsecutive, Executing
<1>2. CASE queue_count > 0
  <2>1. /\ request' = queue[queue_head]
        /\ queue_head' = RingSlot(queue_head, 1, Capacity)
        /\ queue_count' = queue_count - 1
    BY <1>2, RingFacts DEF WorkerCheck
  <2>2. queue_count \in 1..Capacity
    BY <1>2, RingFacts
  <2>3. /\ Pending # <<>>
        /\ Head(Pending) = queue[queue_head]
        /\ RingContents(queue, RingSlot(queue_head, 1, Capacity), queue_count - 1, Capacity) =
             Tail(Pending)
    <3>1. /\ Capacity \in Nat /\ Capacity > 0
          /\ queue_head \in 0..(Capacity - 1)
          /\ RingHolds(queue, queue_head, queue_count, Capacity, Request)
      BY RingFacts
    <3>2. QED
      BY <2>2, <3>1, RingPop DEF Pending
  <2>4. Pending' = Tail(Pending)
    BY <1>1, <2>1, <2>3 DEF Pending
  <2>5. QED
    BY <1>1, <2>1, <2>3, <2>4 DEF Pipe!Begin
<1>3. CASE queue_count = 0
  <2>1. UNCHANGED <<queue_head, queue_count, request>>
    BY <1>3, RingFacts DEF WorkerCheck
  <2>2. Pending' = Pending
    BY <1>1, <2>1 DEF Pending
  <2>3. QED
    BY <1>1, <2>1, <2>2 DEF Pipe!pipeVars
<1>4. QED
  BY <1>2, <1>3, RingFacts

LEMMA PipeStep ==
  ASSUME IInv, [Next]_vars
  PROVE  [Pipe!PipeNext]_(Pipe!pipeVars)
<1>1. CASE \E k \in Kind : vp_control_submit(k)
  BY <1>1, SubmitIsAccept DEF Pipe!PipeNext
<1>2. CASE WorkerCheck
  BY <1>2, WorkerCheckIsBegin DEF Pipe!PipeNext
<1>3. CASE EmitCompletion
  <2>1. request # NoRequest
    BY <1>3, NoRequestAssumption
       DEF EmitCompletion, IInv, OutstandingIdsConsecutive, Executing
  <2>2. Pending' = Pending
    BY <1>3 DEF EmitCompletion, Pending
  <2>3. Pipe!Complete
    BY <1>3, <2>1, <2>2 DEF EmitCompletion, Pipe!Complete
  <2>4. QED
    BY <2>3 DEF Pipe!PipeNext
<1>4. CASE vp_control_deinit
  <2>1. Pending' = Pending
    BY <1>4 DEF vp_control_deinit, Pending
  <2>2. Pipe!Close
    BY <1>4, <2>1 DEF vp_control_deinit, Pipe!Close
  <2>3. QED
    BY <2>2 DEF Pipe!PipeNext
<1>5. CASE \/ WorkerLock \/ WorkerUnlock \/ WorkerNoMemory
           \/ \E c \in Channel : EmitChannel(c)
           \/ SpuriousWakeup
           \/ \E c \in Caller : SyncBegin(c) \/ SyncEnd(c)
           \/ DeinitJoined
           \/ UNCHANGED vars
  <2>1. UNCHANGED <<queueVars, request, completed, last, stop_requested>>
    BY <1>5 DEF WorkerLock, WorkerUnlock, WorkerNoMemory, EmitChannel, SpuriousWakeup,
                SyncBegin, SyncEnd, DeinitJoined, vars
  <2>2. Pending' = Pending
    BY <2>1 DEF Pending
  <2>3. QED
    BY <2>1, <2>2 DEF Pipe!pipeVars
<1>6. QED
  BY <1>1, <1>2, <1>3, <1>4, <1>5 DEF Next, WorkerStep, Terminated

(***************************************************************************)
(* The ring, the condition variable and the worker implement the promise   *)
(* of the asynchronous API: in order, one at a time, each exactly once.    *)
(***************************************************************************)
THEOREM QueueImplementsPipe == Spec => ImplementsPipe
<1>1. IInv /\ [Next]_vars => [Pipe!PipeNext]_(Pipe!pipeVars)
  BY PipeStep
<1>2. QED
  BY <1>1, PipeInitHolds, Invariant, PTL DEF Spec, ImplementsPipe, Pipe!PipeSpec
=============================================================================
