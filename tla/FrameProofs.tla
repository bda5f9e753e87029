---------------------------- MODULE FrameProofs -----------------------------
(***************************************************************************)
(* Proofs about frames: the queue of captured frames, for every ring size  *)
(* and set of frames, and the frames in bytes, for any number of them and  *)
(* any losses: of the key board, of the UDP stream and of the gimbal, and  *)
(* the bytes of the gimbal's settings, for any settings. Each section has  *)
(* the inductive invariant of one component and shows that its steps keep  *)
(* it; LinksProofs puts all but the queue together.                        *)
(***************************************************************************)
EXTENDS Links, RingTheorems, FiniteSetTheorems, SequenceTheorems, TLAPS
-----------------------------------------------------------------------------
(***************************************************************************)
(* The frame queue references exactly the frames it holds, and the ring    *)
(* implements FrameFifo.                                                   *)
(***************************************************************************)
\* The inductive invariant.
IInv == TypeOK /\ PinsExactlyTheQueued

-----------------------------------------------------------------------------
LEMMA SizeFacts == Size \in Nat /\ Size > 0 /\ Index = 0..(Size - 1)
BY QueueAssumption DEF Index

\* The slot behind the newest frame, after the frame went in or was refused.
LEMMA PutFrameFacts ==
  ASSUME TypeOK, NEW fs \in [Index -> Slot], NEW h \in Index,
         NEW n \in 0..(Size - 1), NEW f \in Frame,
         Pins(fs, h, n), PutFrame(fs, h, n, f)
  PROVE  /\ frames' \in [Index -> Slot]
         /\ head' = h
         /\ count' \in 0..Size
         /\ max_count' \in 0..Size
         /\ Pins(frames', head', count')
         /\ Contents' \in {Append(RingContents(fs, h, n, Size), f),
                           RingContents(fs, h, n, Size)}
<1> DEFINE slot == RingSlot(h, n, Size)
<1>1. slot \in Index
  <2>1. n \in 0..Size
    BY SizeFacts
  <2>2. QED
    BY <2>1, SizeFacts, RingSlotValue
<1>2. slot \notin RingWindow(h, n, Size)
  BY SizeFacts, RingWindowTail
<1>3. \A k : k \in RingWindow(h, n + 1, Size) <=>
               k \in RingWindow(h, n, Size) \/ k = slot
  BY SizeFacts, RingWindowPush
<1>4. /\ head' = h
      /\ \/ /\ frames' = [fs EXCEPT ![slot] = f]
            /\ count' = n + 1
            /\ max_count' \in {max_count, n + 1}
         \/ /\ frames' = [fs EXCEPT ![slot] = NoFrame]
            /\ count' = n
            /\ max_count' = max_count
         \/ /\ frames' = fs
            /\ count' = n
            /\ max_count' = max_count
  BY DEF PutFrame
<1>5. RingHolds(fs, h, n, Size, Frame)
  <2>1. ASSUME NEW k \in RingWindow(h, n, Size)
        PROVE  fs[k] \in Frame
    <3>1. n \in 0..Size
      BY SizeFacts
    <3>2. k \in Index
      BY <3>1, SizeFacts, RingWindowInRange
    <3>3. QED
      BY <3>2 DEF Pins
  <2>2. QED
    BY <2>1, RingWindowHolds
<1> HIDE DEF slot
<1>6. frames' \in [Index -> Slot]
  BY <1>4 DEF Slot, Content
<1>7. count' \in 0..Size /\ max_count' \in 0..Size
  BY <1>4, SizeFacts DEF TypeOK
<1>8. RingAgrees(frames', fs, h, n, Size)
  <2>1. ASSUME NEW k \in RingWindow(h, n, Size)
        PROVE  frames'[k] = fs[k]
    <3>1. n \in 0..Size
      BY SizeFacts
    <3>2. k \in Index /\ k # slot
      BY <1>2, <3>1, SizeFacts, RingWindowInRange
    <3>3. QED
      BY <1>4, <3>2
  <2>2. QED
    BY <2>1, RingWindowAgrees
<1>9. CASE frames' = [fs EXCEPT ![slot] = f] /\ count' = n + 1
  <2>1. frames'[slot] = f
    BY <1>1, <1>9
  <2>2. RingContents(frames', h, n + 1, Size) = Append(RingContents(fs, h, n, Size), f)
    BY <1>5, <1>8, <2>1, SizeFacts, RingPush DEF slot
  <2>3. Contents' = Append(RingContents(fs, h, n, Size), f)
    BY <1>4, <1>9, <2>2 DEF Contents
  <2>4. ASSUME NEW i \in Index
        PROVE  frames'[i] \in Frame <=> i \in RingWindow(h, n + 1, Size)
    <3>1. CASE i = slot
      BY <1>3, <2>1, <3>1
    <3>2. CASE i # slot
      BY <1>3, <1>9, <3>2 DEF Pins
    <3>3. QED
      BY <3>1, <3>2
  <2>5. Pins(frames', head', count')
    BY <1>4, <1>9, <2>4 DEF Pins
  <2>6. QED
    BY <1>4, <1>6, <1>7, <2>3, <2>5
<1>10. CASE frames' \in {fs, [fs EXCEPT ![slot] = NoFrame]} /\ count' = n
  <2>1. ASSUME NEW i \in Index
        PROVE  frames'[i] \in Frame <=> i \in RingWindow(h, n, Size)
    <3>1. fs[slot] \notin Frame
      BY <1>1, <1>2 DEF Pins
    <3>2. frames'[slot] \notin Frame
      BY <1>1, <1>10, <3>1, QueueAssumption
    <3>3. CASE i = slot
      BY <1>2, <3>2, <3>3
    <3>4. CASE i # slot
      BY <1>10, <3>4 DEF Pins
    <3>5. QED
      BY <3>3, <3>4
  <2>2. Pins(frames', head', count')
    BY <1>4, <1>10, <2>1 DEF Pins
  <2>3. n \in 0..Size
    BY SizeFacts
  <2>4. RingContents(frames', h, n, Size) = RingContents(fs, h, n, Size)
    BY <1>8, <2>3, SizeFacts, RingContentsFrame
  <2>5. Contents' = RingContents(fs, h, n, Size)
    BY <1>4, <1>10, <2>4 DEF Contents
  <2>6. QED
    BY <1>4, <1>6, <1>7, <2>2, <2>5
<1>11. QED
  BY <1>4, <1>9, <1>10

\* An emptied ring.
LEMMA UnrefAllFacts ==
  ASSUME TypeOK, NEW h \in Index
  PROVE  /\ UnrefAll(frames) \in [Index -> Slot]
         /\ Pins(UnrefAll(frames), h, 0)
<1>1. UnrefAll(frames) \in [Index -> {NoFrame, NotAllocated}]
  BY DEF UnrefAll
<1>2. \A i \in Index : UnrefAll(frames)[i] \notin Frame
  BY <1>1, QueueAssumption
<1>3. QED
  BY <1>1, <1>2, RingWindowEmpty DEF Pins, Slot, Content

\* A ring that has given its oldest frame away.
LEMMA UnrefHeadFacts ==
  ASSUME TypeOK, Pins(frames, head, count), count > 0
  PROVE  /\ Unref(frames, head) \in [Index -> Slot]
         /\ RingSlot(head, 1, Size) \in Index
         /\ Pins(Unref(frames, head), RingSlot(head, 1, Size), count - 1)
         /\ frames[head] \in Frame
         /\ Contents # <<>> /\ Len(Contents) = count
         /\ Head(Contents) = frames[head]
         /\ RingContents(Unref(frames, head), RingSlot(head, 1, Size), count - 1, Size) =
              Tail(Contents)
<1> DEFINE next == RingSlot(head, 1, Size)
           left == Unref(frames, head)
<1>1. /\ head \in Index
      /\ count \in 1..Size /\ count \in 0..Size
      /\ count - 1 \in 0..Size
      /\ 1 \in 0..Size
  BY SizeFacts DEF TypeOK
<1>2. next \in Index
  BY <1>1, SizeFacts, RingSlotValue
<1>3. left \in [Index -> Slot] /\ left[head] \notin Frame
      /\ \A i \in Index : i # head => left[i] = frames[i]
  BY <1>1, QueueAssumption DEF Unref, TypeOK, Slot, Content
<1>4. \A k : /\ head \in RingWindow(head, count, Size)
             /\ k \in RingWindow(next, count - 1, Size) <=>
                  k \in RingWindow(head, count, Size) /\ k # head
  BY <1>1, SizeFacts, RingWindowPop
<1>5. RingHolds(frames, head, count, Size, Frame)
  <2>1. ASSUME NEW k \in RingWindow(head, count, Size)
        PROVE  frames[k] \in Frame
    <3>1. k \in Index
      BY <1>1, SizeFacts, RingWindowInRange
    <3>2. QED
      BY <3>1 DEF Pins
  <2>2. QED
    BY <2>1, RingWindowHolds
<1> HIDE DEF next, left
<1>6. Pins(left, next, count - 1)
  BY <1>3, <1>4 DEF Pins
<1>7. /\ Contents # <<>>
      /\ Head(Contents) = frames[head]
      /\ frames[head] \in Frame
      /\ RingContents(frames, next, count - 1, Size) = Tail(Contents)
  BY <1>1, <1>5, SizeFacts, RingPop DEF Contents, next
<1>8. Len(Contents) = count
  <2>1. Size \in Nat /\ Size > 0 /\ head \in 0..(Size - 1) /\ count \in 0..Size
    BY <1>1, SizeFacts
  <2>2. Len(RingContents(frames, head, count, Size)) = count
    BY ONLY <1>5, <2>1, RingContentsType
  <2>3. QED
    BY <2>2 DEF Contents
<1>9. RingContents(left, next, count - 1, Size) = RingContents(frames, next, count - 1, Size)
  <2>1. ASSUME NEW k \in RingWindow(next, count - 1, Size)
        PROVE  left[k] = frames[k]
    <3>1. k \in Index
      BY <1>1, <1>2, SizeFacts, RingWindowInRange
    <3>2. QED
      BY <1>3, <1>4, <3>1
  <2>2. RingAgrees(left, frames, next, count - 1, Size)
    BY <2>1, RingWindowAgrees
  <2>3. QED
    BY <1>1, <1>2, <2>2, SizeFacts, RingContentsFrame
<1>10. QED
  BY <1>2, <1>3, <1>6, <1>7, <1>8, <1>9 DEF next, left

\* The length of the queue as a sequence.
LEMMA ContentsFacts ==
  ASSUME TypeOK, Pins(frames, head, count)
  PROVE  /\ Len(Contents) = count
         /\ count = 0 => Contents = <<>>
<1>1. CASE count > 0
  <2>1. Len(Contents) = count
    BY <1>1, UnrefHeadFacts
  <2>2. count # 0
    BY <1>1, SizeFacts DEF TypeOK
  <2>3. QED
    BY <2>1, <2>2
<1>2. CASE count = 0
  <2>1. Contents = <<>>
    BY <1>2, RingContentsEmpty DEF Contents
  <2>2. QED
    BY <1>2, <2>1
<1>3. QED
  BY <1>1, <1>2, SizeFacts DEF TypeOK

-----------------------------------------------------------------------------
LEMMA InitIInv == Init => IInv
<1> SUFFICES ASSUME Init PROVE IInv
  OBVIOUS
<1>1. TypeOK
  <2>1. frames \in [Index -> Slot]
    BY DEF Init, Slot
  <2>2. 0 \in Index /\ 0 \in 0..Size /\ 0 \in 0..MaxDropped
    BY SizeFacts, QueueAssumption
  <2>3. QED
    BY <2>1, <2>2 DEF Init, TypeOK, Content
<1>2. PinsExactlyTheQueued
  BY QueueAssumption, RingWindowEmpty DEF Init, PinsExactlyTheQueued, Pins
<1>3. QED
  BY <1>1, <1>2 DEF IInv

\* Each push keeps the invariant and offers its frame to the abstract queue.
LEMMA PushStep ==
  ASSUME IInv, NEW f \in Frame, vp_queue_push_locked(f)
  PROVE  IInv' /\ Fifo!Offer(f)
<1>1. TypeOK /\ ~freed /\ ~freed' /\ dst' = dst /\ freed' = freed
      /\ Pins(frames, head, count)
  BY DEF IInv, PinsExactlyTheQueued, vp_queue_push_locked
<1> DEFINE Full == /\ dropped < MaxDropped
                   /\ dropped' = dropped + 1
                   /\ PutFrame(Unref(frames, head), RingSlot(head, 1, Size), count - 1, f)
           NotFull == dropped' = dropped /\ PutFrame(frames, head, count, f)
<1>0. (count = Size /\ Full) \/ (count < Size /\ NotFull)
  BY DEF vp_queue_push_locked
<1> HIDE DEF Full, NotFull
<1>2. CASE count = Size
  <2>1. /\ dropped < MaxDropped
        /\ dropped' = dropped + 1
        /\ PutFrame(Unref(frames, head), RingSlot(head, 1, Size), count - 1, f)
    <3>1. ~(count < Size)
      BY <1>2, SizeFacts
    <3>2. Full
      BY <1>0, <3>1
    <3>3. QED
      BY <3>2 DEF Full
  <2>2. count > 0 /\ count - 1 \in 0..(Size - 1)
    BY <1>2, SizeFacts
  <2>3. /\ frames' \in [Index -> Slot]
        /\ head' \in Index
        /\ count' \in 0..Size
        /\ max_count' \in 0..Size
        /\ Pins(frames', head', count')
        /\ Contents' \in {Append(Tail(Contents), f), Tail(Contents)}
    BY <1>1, <2>1, <2>2, UnrefHeadFacts, PutFrameFacts
  <2>4. dropped' \in 0..MaxDropped
    BY <1>1, <2>1, QueueAssumption DEF TypeOK
  <2>5. IInv'
    BY <1>1, <2>3, <2>4 DEF IInv, TypeOK, PinsExactlyTheQueued
  <2>6. Len(Contents) = Size
    BY <1>1, <1>2, <2>2, UnrefHeadFacts
  <2>7. Fifo!Offer(f)
    BY <1>1, <2>1, <2>3, <2>6 DEF Fifo!Offer, Fifo!Room, Fifo!IsFull
  <2>8. QED
    BY <2>5, <2>7
<1>3. CASE count < Size
  <2>1. dropped' = dropped /\ PutFrame(frames, head, count, f)
    <3>1. count # Size
      BY <1>3, SizeFacts
    <3>2. NotFull
      BY <1>0, <3>1
    <3>3. QED
      BY <3>2 DEF NotFull
  <2>2. count \in 0..(Size - 1) /\ head \in Index /\ frames \in [Index -> Slot]
    BY <1>1, <1>3, SizeFacts DEF TypeOK
  <2>3. /\ frames' \in [Index -> Slot]
        /\ head' \in Index
        /\ count' \in 0..Size
        /\ max_count' \in 0..Size
        /\ Pins(frames', head', count')
        /\ Contents' \in {Append(Contents, f), Contents}
    BY <1>1, <2>1, <2>2, PutFrameFacts DEF Contents
  <2>4. IInv'
    BY <1>1, <2>1, <2>3 DEF IInv, TypeOK, PinsExactlyTheQueued
  <2>5. Len(Contents) # Size
    BY <1>1, <1>3, <2>2, SizeFacts, ContentsFacts
  <2>6. Fifo!Offer(f)
    BY <1>1, <2>1, <2>3, <2>5 DEF Fifo!Offer, Fifo!Room, Fifo!IsFull
  <2>7. QED
    BY <2>4, <2>6
<1>4. QED
  BY <1>0, <1>2, <1>3

LEMMA PushLatestStep ==
  ASSUME IInv, NEW f \in Frame, vp_queue_push_latest_locked(f)
  PROVE  IInv' /\ Fifo!OfferLatest(f)
<1>1. TypeOK /\ ~freed /\ ~freed' /\ dst' = dst /\ freed' = freed
      /\ Pins(frames, head, count)
      /\ dropped' = dropped + count /\ dropped + count <= MaxDropped
  BY DEF IInv, PinsExactlyTheQueued, vp_queue_push_latest_locked
<1>2. 0 \in Index /\ 0 \in 0..(Size - 1)
  BY SizeFacts
<1>3. \A fs, h : RingContents(fs, h, 0, Size) = <<>>
  BY RingContentsEmpty
<1>4. /\ frames' \in [Index -> Slot]
      /\ head' \in Index
      /\ count' \in 0..Size
      /\ max_count' \in 0..Size
      /\ Pins(frames', head', count')
      /\ Contents' \in {Append(<<>>, f), <<>>}
  <2>1. CASE count > 0
    <3>1. PutFrame(UnrefAll(frames), 0, 0, f)
      BY <2>1 DEF vp_queue_push_latest_locked
    <3>2. UnrefAll(frames) \in [Index -> Slot] /\ Pins(UnrefAll(frames), 0, 0)
      BY <1>1, <1>2, UnrefAllFacts
    <3>3. QED
      BY <1>1, <1>2, <1>3, <3>1, <3>2, PutFrameFacts
  <2>2. CASE count = 0
    <3>1. PutFrame(frames, head, 0, f) /\ head \in Index /\ frames \in [Index -> Slot]
      BY <1>1, <2>2 DEF vp_queue_push_latest_locked, TypeOK
    <3>2. Pins(frames, head, 0)
      BY <1>1, <2>2
    <3>3. QED
      BY <1>1, <1>2, <1>3, <3>1, <3>2, PutFrameFacts
  <2>3. QED
    BY <1>1, <2>1, <2>2, SizeFacts DEF TypeOK
<1>5. dropped' \in 0..MaxDropped
  BY <1>1, QueueAssumption, SizeFacts DEF TypeOK
<1>6. IInv'
  BY <1>1, <1>4, <1>5 DEF IInv, TypeOK, PinsExactlyTheQueued
<1>7. Len(Contents) = count
  BY <1>1, ContentsFacts
<1>8. Append(<<>>, f) = <<f>>
  OBVIOUS
<1>9. Fifo!OfferLatest(f)
  BY <1>1, <1>4, <1>7, <1>8 DEF Fifo!OfferLatest
<1>10. QED
  BY <1>6, <1>9

LEMMA PopStep ==
  ASSUME IInv, vp_queue_pop_locked
  PROVE  IInv' /\ (Fifo!Take \/ Fifo!TakeFails)
<1>1. TypeOK /\ ~freed /\ ~freed' /\ freed' = freed /\ count > 0
      /\ Pins(frames, head, count)
      /\ UNCHANGED <<max_count, dropped>>
  BY DEF IInv, PinsExactlyTheQueued, vp_queue_pop_locked
<1>2. CASE /\ dst' = frames[head]
           /\ frames' = Unref(frames, head)
           /\ head' = RingSlot(head, 1, Size)
           /\ count' = count - 1
  <2>1. Contents' = Tail(Contents) /\ Pins(frames', head', count')
    BY <1>1, <1>2, UnrefHeadFacts DEF Contents
  <2>2. TypeOK'
    <3>1. count - 1 \in 0..Size
      BY <1>1, SizeFacts DEF TypeOK
    <3>2. QED
      BY <1>1, <1>2, <3>1, UnrefHeadFacts DEF TypeOK, Content
  <2>3. IInv'
    BY <1>1, <2>1, <2>2 DEF IInv, PinsExactlyTheQueued
  <2>4. Fifo!Take
    BY <1>1, <1>2, <2>1, UnrefHeadFacts DEF Fifo!Take
  <2>5. QED
    BY <2>3, <2>4
<1>3. CASE dst' = NoFrame /\ UNCHANGED <<frames, head, count>>
  <2>1. IInv'
    BY <1>1, <1>3 DEF IInv, TypeOK, PinsExactlyTheQueued, Content
  <2>2. Contents' = Contents
    BY <1>3 DEF Contents
  <2>3. Fifo!TakeFails
    BY <1>1, <1>3, <2>2, UnrefHeadFacts DEF Fifo!TakeFails
  <2>4. QED
    BY <2>1, <2>3
<1>4. QED
  BY <1>2, <1>3 DEF vp_queue_pop_locked

LEMMA DiscardStep ==
  ASSUME IInv, vp_queue_clear_locked \/ vp_queue_free
  PROVE  IInv' /\ Fifo!Discard
<1>1. TypeOK /\ ~freed
  BY DEF IInv, vp_queue_clear_locked, vp_queue_free
<1>2. CASE vp_queue_clear_locked
  <2>1. 0 \in Index /\ 0 \in 0..Size
    BY SizeFacts
  <2>2. IInv'
    BY <1>1, <1>2, <2>1, UnrefAllFacts
       DEF vp_queue_clear_locked, IInv, TypeOK, PinsExactlyTheQueued
  <2>3. Contents' = <<>>
    BY <1>2, RingContentsEmpty DEF Contents, vp_queue_clear_locked
  <2>4. QED
    BY <1>1, <1>2, <2>2, <2>3 DEF vp_queue_clear_locked, Fifo!Discard
<1>3. CASE vp_queue_free
  <2>1. IInv'
    BY <1>1, <1>3 DEF vp_queue_free, IInv, TypeOK, PinsExactlyTheQueued, Slot
  <2>2. QED
    BY <1>1, <1>3, <2>1 DEF vp_queue_free, Fifo!Discard
<1>4. QED
  BY <1>2, <1>3

LEMMA NextStep ==
  ASSUME IInv, [Next]_vars
  PROVE  IInv' /\ [Fifo!FifoNext]_(Fifo!fifoVars)
<1>1. CASE \E f \in Frame : vp_queue_push_locked(f)
  BY <1>1, PushStep DEF Fifo!FifoNext
<1>2. CASE \E f \in Frame : vp_queue_push_latest_locked(f)
  BY <1>2, PushLatestStep DEF Fifo!FifoNext
<1>3. CASE vp_queue_pop_locked
  BY <1>3, PopStep DEF Fifo!FifoNext
<1>4. CASE vp_queue_clear_locked \/ vp_queue_free
  BY <1>4, DiscardStep DEF Fifo!FifoNext
<1>5. CASE UNCHANGED vars
  BY <1>5 DEF vars, IInv, TypeOK, PinsExactlyTheQueued, Contents, Fifo!fifoVars
<1>6. QED
  BY <1>1, <1>2, <1>3, <1>4, <1>5 DEF Next

LEMMA NextIInv == IInv /\ [Next]_vars => IInv'
BY NextStep

LEMMA Invariant == Spec => []IInv
BY InitIInv, NextIInv, PTL DEF Spec

-----------------------------------------------------------------------------
\* Every variable keeps its type: cursors and counters stay inside the ring.
THEOREM TypeCorrect == Spec => []TypeOK
BY Invariant, PTL DEF IInv

\* A frame is referenced exactly as long as it is queued.
THEOREM PinsExactly == Spec => []PinsExactlyTheQueued
BY Invariant, PTL DEF IInv

\* First in first out, drop oldest, exact count of what was dropped.
THEOREM QueueImplementsFifo == Spec => ImplementsFifo
<1>1. Init => Fifo!FifoInit
  BY RingContentsEmpty DEF Init, Fifo!FifoInit, Contents
<1>2. IInv /\ [Next]_vars => [Fifo!FifoNext]_(Fifo!fifoVars)
  BY NextStep
<1>3. QED
  BY <1>1, <1>2, Invariant, PTL DEF Spec, ImplementsFifo, Fifo!FifoSpec
-----------------------------------------------------------------------------
(***************************************************************************)
(* The frames of the key board. What is being read is the end of what has  *)
(* been read, and starts where the last head was; when nothing is being    *)
(* read, the only head still in the window is about to leave it. A byte    *)
(* over 255 is of the checksum of a frame that was sent.                   *)
(***************************************************************************)
Word == Nat

IsByte(x, sent) ==
  \/ x \in 0..255
  \/ \E t \in 1..2, d \in 0..1 : <<t, d>> \in sent /\ x \in {1000 + 8 * t + d, 2000 + 8 * t + d}

Reading(window, rx) ==
  /\ window \in Seq(Word) /\ Len(window) <= K!FrameSize
  /\ rx \in Seq(Word) /\ Len(rx) < K!FrameSize /\ Len(rx) <= Len(window)
  /\ \A i \in 1..Len(rx) : rx[i] = window[Len(window) - Len(rx) + i]
  /\ Len(rx) > 0 => rx[1] = 170 /\ \A i \in 2..Len(rx) : rx[i] # 170
  /\ Len(rx) = 0 => \A p \in 1..Len(window) : window[p] = 170 => p = 1 /\ Len(window) = K!FrameSize

KeyBytes(sent) == {x \in Nat : IsByte(x, sent)}

ReadsRight(window, accepted, sent) ==
  /\ /\ Len(window) = K!FrameSize /\ K!validate_frame(window)
     /\ \A i \in 2..K!FrameSize : window[i] # 170
     => accepted = <<window[2], window[3], window[6]>>
  /\ accepted # <<>> =>
       /\ Len(window) = K!FrameSize /\ K!validate_frame(window)
       /\ <<accepted[1], accepted[2]>> \in sent

KeyInv ==
  /\ k_line \in Seq(KeyBytes(k_sent)) /\ k_window \in Seq(KeyBytes(k_sent))
  /\ Reading(k_window, k_rx_frame)
  /\ ReadsRight(k_window, k_accepted, k_sent)

LEMMA KeySize == K!FrameSize \in Nat /\ 6 < K!FrameSize /\ K!FrameSize < 8
BY DEF K!FrameSize

LEMMA KeyIsRead == KeyInv => K!ReadsEveryFrame
BY DEF KeyInv, ReadsRight, K!ReadsEveryFrame, K!FrameRead, K!HeadInside, K!FrameHead

LEMMA KeyInit == K!Init => KeyInv
<1> SUFFICES ASSUME K!Init PROVE KeyInv
  OBVIOUS
<1>1. k_line = <<>> /\ k_window = <<>> /\ k_rx_frame = <<>> /\ k_accepted = <<>>
  BY DEF K!Init
<1>2. Len(<<>>) = 0
  OBVIOUS
<1>3. Reading(<<>>, <<>>)
  BY <1>2, KeySize DEF Reading
<1>4. ReadsRight(<<>>, <<>>, k_sent)
  BY <1>2, KeySize DEF ReadsRight
<1> QED
  BY <1>1, <1>3, <1>4 DEF KeyInv

Slid(window, byte) == (IF Len(window) = K!FrameSize THEN Tail(window) ELSE window) \o <<byte>>

LEMMA Slides ==
  ASSUME NEW S, NEW w \in Seq(S), Len(w) <= K!FrameSize, NEW b \in S
  PROVE  /\ Slid(w, b) \in Seq(S)
         /\ Len(Slid(w, b)) = IF Len(w) = K!FrameSize THEN K!FrameSize ELSE Len(w) + 1
         /\ \A i \in 1..Len(Slid(w, b)) :
              Slid(w, b)[i] = IF i = Len(Slid(w, b)) THEN b
                              ELSE IF Len(w) = K!FrameSize THEN w[i + 1] ELSE w[i]
<1> Len(w) \in Nat /\ K!FrameSize \in Nat /\ 6 < K!FrameSize /\ K!FrameSize < 8
  BY LenProperties, KeySize
<1>1. <<b>> \in Seq(S) /\ Len(<<b>>) = 1 /\ <<b>>[1] = b
  OBVIOUS
<1>2. CASE Len(w) = K!FrameSize
  <2>1. w # <<>> /\ Tail(w) \in Seq(S) /\ Len(Tail(w)) = K!FrameSize - 1
        /\ \A i \in 1..Len(Tail(w)) : Tail(w)[i] = w[i + 1]
    <3>1. w # <<>>
      BY <1>2, KeySize
    <3>2. Tail(w) \in Seq(S) /\ Len(Tail(w)) = K!FrameSize - 1
      BY <1>2, <3>1, HeadTailProperties
    <3>3. \A i \in 1..Len(Tail(w)) : Tail(w)[i] = w[i + 1]
      BY <3>1, HeadTailProperties
    <3> QED
      BY <3>1, <3>2, <3>3
  <2> DEFINE t == Tail(w)
  <2>2. t \in Seq(S) /\ Len(t) = K!FrameSize - 1 /\ \A i \in 1..Len(t) : t[i] = w[i + 1]
    BY <2>1
  <2> HIDE DEF t
  <2>3. /\ t \o <<b>> \in Seq(S) /\ Len(t \o <<b>>) = K!FrameSize
        /\ \A i \in 1..Len(t \o <<b>>) : (t \o <<b>>)[i] = IF i <= Len(t) THEN t[i] ELSE <<b>>[i - Len(t)]
    BY <1>1, <2>2, KeySize, ConcatProperties
  <2>4. Slid(w, b) = t \o <<b>>
    BY <1>2 DEF Slid, t
  <2> QED
    BY <1>1, <1>2, <2>2, <2>3, <2>4
<1>3. CASE Len(w) # K!FrameSize
  <2>1. /\ w \o <<b>> \in Seq(S) /\ Len(w \o <<b>>) = Len(w) + 1
        /\ \A i \in 1..(Len(w) + 1) : (w \o <<b>>)[i] = IF i <= Len(w) THEN w[i] ELSE <<b>>[i - Len(w)]
    BY <1>1, ConcatProperties
  <2>2. Slid(w, b) = w \o <<b>>
    BY <1>3 DEF Slid
  <2> QED
    BY <1>1, <1>3, <2>1, <2>2
<1> QED
  BY <1>2, <1>3

\* The three ways in which a byte changes what is being read.
LEMMA ReadingStays ==
  ASSUME NEW w, NEW r, Reading(w, r), NEW b \in Word
  PROVE  /\ r = <<>> /\ b # 170 => Reading(Slid(w, b), <<>>)
         /\ b = 170 => Reading(Slid(w, b), <<b>>)
         /\ r # <<>> /\ b # 170 /\ Len(r) + 1 < K!FrameSize => Reading(Slid(w, b), Append(r, b))
         /\ Len(r) + 1 = K!FrameSize /\ b # 170 => /\ Reading(Slid(w, b), <<>>)
                                     /\ Slid(w, b) = Append(r, b)
<1> K!FrameSize \in Nat /\ 6 < K!FrameSize /\ K!FrameSize < 8
  BY KeySize
<1> DEFINE v == Slid(w, b)
<1>1. /\ w \in Seq(Word) /\ Len(w) \in Nat /\ Len(w) <= K!FrameSize /\ r \in Seq(Word)
      /\ Len(r) \in Nat /\ Len(r) < K!FrameSize /\ Len(r) <= Len(w)
      /\ \A i \in 1..Len(r) : r[i] = w[Len(w) - Len(r) + i]
      /\ Len(r) > 0 => r[1] = 170 /\ \A i \in 2..Len(r) : r[i] # 170
      /\ Len(r) = 0 => \A p \in 1..Len(w) : w[p] = 170 => p = 1 /\ Len(w) = K!FrameSize
  BY LenProperties DEF Reading
<1>2. /\ v \in Seq(Word) /\ Len(v) = IF Len(w) = K!FrameSize THEN K!FrameSize ELSE Len(w) + 1
      /\ \A i \in 1..Len(v) :
           v[i] = IF i = Len(v) THEN b ELSE IF Len(w) = K!FrameSize THEN w[i + 1] ELSE w[i]
  BY <1>1, Slides
<1> HIDE DEF v
<1>3. ASSUME r = <<>>, b # 170 PROVE Reading(v, <<>>)
  <2>1. Len(r) = 0 /\ Len(<<>>) = 0 /\ <<>> \in Seq(Word)
    BY <1>3
  <2>2. \A p \in 1..Len(v) : v[p] # 170
    BY <1>1, <1>2, <1>3, <2>1
  <2> QED
    BY <1>1, <1>2, <2>1, <2>2 DEF Reading
<1>4. ASSUME b = 170 PROVE Reading(v, <<b>>)
  <2>1. <<b>> \in Seq(Word) /\ Len(<<b>>) = 1 /\ <<b>>[1] = b
    OBVIOUS
  <2> QED
    BY <1>1, <1>2, <1>4, <2>1 DEF Reading
<1> DEFINE a == Append(r, b)
<1>5. a \in Seq(Word) /\ Len(a) = Len(r) + 1 /\ \A i \in 1..Len(a) : a[i] = IF i <= Len(r) THEN r[i] ELSE b
  BY <1>1, AppendProperties
<1> HIDE DEF a
<1>6. ASSUME r # <<>>, b # 170 PROVE /\ Len(a) <= Len(v) /\ Len(r) > 0
                                     /\ \A i \in 1..Len(a) : a[i] = v[Len(v) - Len(a) + i]
                                     /\ a[1] = 170 /\ \A i \in 2..Len(a) : a[i] # 170
  <2>1. Len(r) > 0
    BY <1>1, <1>6, EmptySeq
  <2>2. Len(a) <= Len(v)
    BY <1>1, <1>2, <1>5
  <2>3. ASSUME NEW i \in 1..Len(a) PROVE a[i] = v[Len(v) - Len(a) + i]
    <3>1. CASE i = Len(a)
      <4>1. Len(v) \in Nat /\ Len(v) \in 1..Len(v) /\ Len(a) \in Nat
        BY <1>1, <1>2, <1>5
      <4>2. Len(v) - Len(a) + i = Len(v)
        BY <3>1, <4>1
      <4>3. v[Len(v)] = b /\ a[i] = b
        <5>1. i \in 1..Len(a) /\ i > Len(r)
          BY <1>1, <1>5, <3>1
        <5> QED
          BY <1>1, <1>2, <1>5, <4>1, <5>1
      <4> QED
        BY <4>2, <4>3
    <3>2. CASE i # Len(a)
      <4>1. i \in 1..Len(r) /\ a[i] = w[Len(w) - Len(r) + i]
        BY <1>1, <1>5, <3>2
      <4>2. CASE Len(w) = K!FrameSize
        BY <1>1, <1>2, <1>5, <4>1, <4>2
      <4>3. CASE Len(w) # K!FrameSize
        BY <1>1, <1>2, <1>5, <4>1, <4>3, SMTT(30)
      <4> QED
        BY <4>2, <4>3
    <3> QED
      BY <3>1, <3>2
  <2>4. a[1] = 170 /\ \A i \in 2..Len(a) : a[i] # 170
    <3>1. 1 \in 1..Len(a) /\ 1 <= Len(r) /\ \A i \in 2..Len(a) : i \in 1..Len(a)
      BY <1>1, <1>5, <2>1
    <3>2. a[1] = r[1] /\ r[1] = 170
      BY <1>1, <1>5, <2>1, <3>1
    <3>3. \A i \in 2..Len(a) : i <= Len(r) => i \in 2..Len(r)
      BY <1>1
    <3> QED
      BY <1>1, <1>5, <1>6, <2>1, <3>1, <3>2, <3>3, SMTT(30)
  <2> QED
    BY <2>1, <2>2, <2>3, <2>4
<1>7. ASSUME r # <<>>, b # 170, Len(r) + 1 < K!FrameSize PROVE Reading(v, a)
  BY <1>1, <1>2, <1>5, <1>6, <1>7 DEF Reading
<1>8. ASSUME Len(r) + 1 = K!FrameSize, b # 170 PROVE Reading(v, <<>>) /\ v = a
  <2>1. r # <<>> /\ Len(v) = K!FrameSize /\ Len(a) = K!FrameSize
    BY <1>1, <1>2, <1>5, <1>8
  <2>2. \A i \in 1..Len(a) : a[i] = v[i]
    BY <1>6, <1>8, <2>1
  <2>3. v = a
    BY <1>2, <1>5, <2>1, <2>2, SeqEqual
  <2>4. \A p \in 1..Len(v) : v[p] = 170 => p = 1
    BY <1>6, <1>8, <2>1, <2>3
  <2> QED
    BY <1>2, <2>1, <2>3, <2>4 DEF Reading
<1> QED
  BY <1>3, <1>4, <1>7, <1>8 DEF v, a

\* What is read whole and valid was sent: the bytes of a checksum are no other frame's.
LEMMA FrameWasSent ==
  ASSUME NEW f, NEW S, K!validate_frame(f), IsByte(f[4], S)
  PROVE  <<f[2], f[3]>> \in S
<1>1. f[4] = 1000 + 8 * f[2] + f[3] /\ f[2] \in 1..4 /\ f[3] \in 0..7
  BY DEF K!validate_frame, K!Crc, K!fields_valid, K!KeyRequest, K!HeartbeatRequest,
         K!HeartbeatResponse, K!ErrorResponse
<1>2. PICK t \in 1..2, d \in 0..1 :
        <<t, d>> \in S /\ f[4] \in {1000 + 8 * t + d, 2000 + 8 * t + d}
  BY <1>1, SMTT(30) DEF IsByte
<1>3. t = f[2] /\ d = f[3]
  BY <1>1, <1>2
<1> QED
  BY <1>2, <1>3

\* A frame without a head inside that has just been read is the one being read.
LEMMA FrameIsRead ==
  ASSUME NEW w, NEW r, Reading(w, r), NEW b \in Word
  PROVE  /\ Len(Slid(w, b)) = K!FrameSize
         /\ Slid(w, b)[1] = 170
         /\ \A i \in 2..Len(Slid(w, b)) : Slid(w, b)[i] # 170
         => Len(r) + 1 = K!FrameSize
<1> K!FrameSize \in Nat /\ 6 < K!FrameSize /\ K!FrameSize < 8
  BY KeySize
<1> DEFINE v == Slid(w, b)
<1>1. /\ w \in Seq(Word) /\ Len(w) \in Nat /\ Len(w) <= K!FrameSize /\ r \in Seq(Word)
      /\ Len(r) \in Nat /\ Len(r) < K!FrameSize /\ Len(r) <= Len(w)
      /\ \A i \in 1..Len(r) : r[i] = w[Len(w) - Len(r) + i]
      /\ Len(r) > 0 => r[1] = 170 /\ \A i \in 2..Len(r) : r[i] # 170
      /\ Len(r) = 0 => \A p \in 1..Len(w) : w[p] = 170 => p = 1 /\ Len(w) = K!FrameSize
  BY LenProperties DEF Reading
<1>2. /\ Len(v) = IF Len(w) = K!FrameSize THEN K!FrameSize ELSE Len(w) + 1
      /\ \A i \in 1..Len(v) :
           v[i] = IF i = Len(v) THEN b ELSE IF Len(w) = K!FrameSize THEN w[i + 1] ELSE w[i]
  BY <1>1, Slides
<1>3. SUFFICES ASSUME Len(v) = K!FrameSize, v[1] = 170, \A i \in 2..Len(v) : v[i] # 170
               PROVE  Len(r) + 1 = K!FrameSize
  OBVIOUS
<1> HIDE DEF v
<1>4. Len(r) > 0
  <2>1. SUFFICES ASSUME Len(r) = 0 PROVE FALSE
    BY <1>1
  <2>2. 1 \in 1..Len(v) /\ 1 # Len(v)
    BY <1>3
  <2>3. CASE Len(w) = K!FrameSize
    <3>1. w[1 + 1] = 170 /\ 1 + 1 \in 1..Len(w)
      BY <1>2, <1>3, <2>2, <2>3
    <3> QED
      BY <1>1, <2>1, <3>1
  <2>4. CASE Len(w) # K!FrameSize
    <3>1. w[1] = 170 /\ 1 \in 1..Len(w)
      BY <1>1, <1>2, <1>3, <2>2, <2>4
    <3> QED
      BY <1>1, <2>1, <2>4, <3>1
  <2> QED
    BY <2>3, <2>4
<1>5. w[Len(w) - Len(r) + 1] = 170
  BY <1>1, <1>4
<1> DEFINE i == K!FrameSize - Len(r)
<1>6. i \in 1..Len(v) /\ i # Len(v)
  BY <1>1, <1>3, <1>4
<1>7. v[i] = 170
  <2>1. CASE Len(w) = K!FrameSize
    <3>1. i + 1 = Len(w) - Len(r) + 1
      BY <1>1, <2>1
    <3> QED
      BY <1>2, <1>5, <1>6, <2>1, <3>1
  <2>2. CASE Len(w) # K!FrameSize
    <3>1. i = Len(w) - Len(r) + 1
      BY <1>1, <1>2, <1>3, <2>2
    <3> QED
      BY <1>2, <1>5, <1>6, <2>2, <3>1
  <2> QED
    BY <2>1, <2>2
<1> HIDE DEF i
<1>8. i = 1
  BY <1>3, <1>6, <1>7
<1> QED
  BY <1>1, <1>8 DEF i

LEMMA KeyBytesGrow ==
  ASSUME NEW S, NEW T, S \subseteq T
  PROVE  KeyBytes(S) \subseteq KeyBytes(T) /\ Seq(KeyBytes(S)) \subseteq Seq(KeyBytes(T))
<1>1. KeyBytes(S) \subseteq KeyBytes(T)
  BY DEF KeyBytes, IsByte
<1> QED
  BY <1>1

LEMMA KeyKept == KeyInv /\ LinksAssumption /\ [K!Next]_k_vars => KeyInv'
<1> SUFFICES ASSUME KeyInv, LinksAssumption, [K!Next]_k_vars PROVE KeyInv'
  OBVIOUS
<1> DEFINE Kept(line, window, rx, accepted, sent) ==
      /\ line \in Seq(KeyBytes(sent)) /\ window \in Seq(KeyBytes(sent))
      /\ Reading(window, rx)
      /\ ReadsRight(window, accepted, sent)
<1>1. Kept(k_line, k_window, k_rx_frame, k_accepted, k_sent)
  BY DEF KeyInv
<1>2. SUFFICES Kept(k_line', k_window', k_rx_frame', k_accepted', k_sent')
  BY DEF KeyInv
<1>3. CASE K!KeyBoardSends
  <2>1. PICK t \in {1, 2}, d \in {0, 1}, c \in KeyCounts :
          /\ k_line' = k_line \o K!build_frame(t, d, c)
          /\ k_sent' = k_sent \cup {<<t, d>>}
    BY <1>3 DEF K!KeyBoardSends, K!KeyRequest, K!HeartbeatRequest
  <2>2. UNCHANGED <<k_rx_frame, k_window, k_accepted>>
    BY <1>3 DEF K!KeyBoardSends
  <2>3. KeyBytes(k_sent) \subseteq KeyBytes(k_sent') /\ Seq(KeyBytes(k_sent)) \subseteq Seq(KeyBytes(k_sent'))
    BY <2>1, KeyBytesGrow
  <2>4. K!build_frame(t, d, c) \in Seq(KeyBytes(k_sent'))
    <3> DEFINE Bytes == KeyBytes(k_sent')
    <3>1. c \in 1..255
      BY DEF LinksAssumption
    <3>2. 170 \in Bytes /\ 85 \in Bytes /\ t \in Bytes /\ d \in Bytes /\ c \in Bytes
      BY <3>1 DEF KeyBytes, IsByte
    <3>3. 1000 + 8 * t + d \in Bytes /\ 2000 + 8 * t + d \in Bytes
      <4>1. t \in 1..2 /\ d \in 0..1 /\ <<t, d>> \in k_sent'
        BY <2>1
      <4> QED
        BY <4>1 DEF KeyBytes, IsByte
    <3> HIDE DEF Bytes
    <3> DEFINE x == <<170, t, d>>
               y == <<1000 + 8 * t + d, 2000 + 8 * t + d>>
               z == <<c, 85>>
    <3>4. x \in Seq(Bytes) /\ y \in Seq(Bytes) /\ z \in Seq(Bytes)
      BY <3>2, <3>3
    <3>5. K!build_frame(t, d, c) = x \o y \o z
      BY DEF K!build_frame, K!Crc, K!FrameHead, K!FrameTail
    <3> HIDE DEF x, y, z
    <3>6. x \o y \in Seq(Bytes)
      BY <3>4, ConcatProperties
    <3>7. K!build_frame(t, d, c) \in Seq(Bytes)
      BY <3>4, <3>5, <3>6, ConcatProperties
    <3> QED
      BY <3>7 DEF Bytes
  <2>5. k_line' \in Seq(KeyBytes(k_sent'))
    <3>1. k_line \in Seq(KeyBytes(k_sent'))
      BY <1>1, <2>3
    <3> QED
      BY <2>1, <2>4, <3>1, ConcatProperties
  <2>6. ReadsRight(k_window, k_accepted, k_sent')
    BY <1>1, <2>1 DEF ReadsRight
  <2> QED
    BY <1>1, <2>2, <2>3, <2>5, <2>6
<1>4. CASE K!Damage
  <2> DEFINE Bytes == KeyBytes(k_sent)
  <2>1. /\ k_line # <<>>
        /\ k_line' \in {Tail(k_line), <<0>> \o Tail(k_line), <<170>> \o Tail(k_line)}
        /\ UNCHANGED <<k_rx_frame, k_window, k_accepted, k_sent>>
    BY <1>4 DEF K!Damage, K!FrameHead
  <2>2. 0 \in Bytes /\ 170 \in Bytes
    BY DEF KeyBytes, IsByte
  <2> HIDE DEF Bytes
  <2>3. k_line \in Seq(Bytes)
    BY <1>1 DEF Bytes
  <2>4. Tail(k_line) \in Seq(Bytes)
    BY <2>1, <2>3, HeadTailProperties
  <2>5. <<0>> \in Seq(Bytes) /\ <<170>> \in Seq(Bytes)
    BY <2>2
  <2>6. k_line' \in Seq(Bytes)
    <3>1. \A u \in Seq(Bytes) : u \o Tail(k_line) \in Seq(Bytes)
      BY <2>4, ConcatProperties
    <3> QED
      BY <2>1, <2>4, <2>5, <3>1, ZenonT(40)
  <2> QED
    BY <1>1, <2>1, <2>6 DEF Bytes
<1>5. CASE K!ReadByte
  <2> DEFINE Bytes == KeyBytes(k_sent)
             b == Head(k_line)
             v == Slid(k_window, b)
             r == k_rx_frame
  <2>1. /\ k_line # <<>> /\ k_line' = Tail(k_line)
        /\ k_window' = v /\ k_sent' = k_sent
    BY <1>5 DEF K!ReadByte, Slid, K!FrameSize
  <2> DEFINE f == Append(r, b)
  <2>3. b \in Bytes /\ b \in Word /\ k_line' \in Seq(Bytes)
    <3>1. k_line \in Seq(Bytes)
      BY <1>1
    <3>2. Bytes \subseteq Word
      BY DEF KeyBytes, Word
    <3> HIDE DEF Bytes
    <3> QED
      BY <2>1, <3>1, <3>2, HeadTailProperties
  <2>a. Len(f) \in Nat /\ Len(f) = Len(r) + 1 /\ Len(f) <= K!FrameSize
    <3>1. r \in Seq(Word) /\ Len(r) < K!FrameSize
      BY <1>1 DEF Reading
    <3>2. b \in Word
      BY <2>3
    <3> HIDE DEF r, b
    <3> QED
      BY <3>1, <3>2, AppendProperties, LenProperties, KeySize
  <2>2. \/ r = <<>> /\ b # 170 /\ k_rx_frame' = <<>> /\ k_accepted' = <<>>
        \/ b = 170 /\ k_rx_frame' = <<b>> /\ k_accepted' = <<>>
        \/ r # <<>> /\ b # 170 /\ Len(f) < K!FrameSize /\ k_rx_frame' = f /\ k_accepted' = <<>>
        \/ /\ r # <<>> /\ b # 170 /\ Len(f) = K!FrameSize /\ k_rx_frame' = <<>>
           /\ IF K!validate_frame(f) THEN k_accepted' = <<f[2], f[3], f[6]>> ELSE k_accepted' = <<>>
    <3>1. CASE r = <<>>
      BY <1>5, <3>1 DEF K!ReadByte, K!Restarts, K!reject_frame, K!FrameHead
    <3>2. CASE r # <<>> /\ b = 170
      BY <1>5, <3>2 DEF K!ReadByte, K!Restarts, K!reject_frame, K!FrameHead
    <3>3. CASE r # <<>> /\ b # 170
      <4>1. CASE Len(f) < K!FrameSize
        <5>1. Len(f) # K!FrameSize
          BY <2>a, <4>1, KeySize
        <5> QED
          BY <1>5, <3>3, <4>1, <5>1 DEF K!ReadByte, K!Restarts, K!FrameHead
      <4>2. CASE Len(f) = K!FrameSize
        BY <1>5, <3>3, <4>2 DEF K!ReadByte, K!Restarts, K!reject_frame, K!FrameHead
      <4> QED
        BY <2>a, <4>1, <4>2, KeySize
    <3> QED
      BY <3>1, <3>2, <3>3
  <2>4. v \in Seq(Bytes)
    <3>1. k_window \in Seq(Bytes) /\ Len(k_window) <= K!FrameSize
      BY <1>1 DEF Reading
    <3> HIDE DEF Bytes, b
    <3> QED
      BY <2>3, <3>1, Slides
  <2>5. Reading(k_window, r)
    BY <1>1
  <2> HIDE DEF Bytes, b, v, f
  <2>6. Reading(v, k_rx_frame') /\ ReadsRight(v, k_accepted', k_sent)
    <3>1. Len(v) = K!FrameSize /\ K!validate_frame(v) /\ (\A i \in 2..K!FrameSize : v[i] # 170)
          => Len(r) + 1 = K!FrameSize /\ b # 170
      <4>1. SUFFICES ASSUME Len(v) = K!FrameSize, K!validate_frame(v), \A i \in 2..K!FrameSize : v[i] # 170
                     PROVE  Len(r) + 1 = K!FrameSize /\ b # 170
        OBVIOUS
      <4>2. v[1] = 170
        BY <4>1 DEF K!validate_frame, K!FrameHead
      <4>3. Len(r) + 1 = K!FrameSize
        BY <2>3, <2>5, <4>1, <4>2, FrameIsRead DEF v
      <4>4. Len(v) \in 2..K!FrameSize /\ v[Len(v)] = b
        <5>1. k_window \in Seq(Word) /\ Len(k_window) <= K!FrameSize
          BY <2>5 DEF Reading
        <5>2. \A i \in 1..Len(v) : i = Len(v) => v[i] = b
          BY <2>3, <5>1, Slides DEF v
        <5> QED
          BY <4>1, <5>2, KeySize
      <4> QED
        BY <4>1, <4>3, <4>4
    <3>2. CASE r = <<>> /\ b # 170 /\ k_rx_frame' = <<>> /\ k_accepted' = <<>>
      <4>1. Reading(v, k_rx_frame')
        BY <2>3, <2>5, <3>2, ReadingStays DEF v
      <4>2. Len(r) = 0
        BY <3>2
      <4>3. Len(r) + 1 # K!FrameSize
        BY <4>2, KeySize
      <4> QED
        BY <3>1, <3>2, <4>1, <4>3 DEF ReadsRight
    <3>3. CASE b = 170 /\ k_rx_frame' = <<b>> /\ k_accepted' = <<>>
      <4>1. Reading(v, k_rx_frame')
        BY <2>3, <2>5, <3>3, ReadingStays DEF v
      <4> QED
        BY <3>1, <3>3, <4>1 DEF ReadsRight
    <3>4. CASE r # <<>> /\ b # 170 /\ Len(f) < K!FrameSize /\ k_rx_frame' = f /\ k_accepted' = <<>>
      <4>1. Len(r) + 1 < K!FrameSize /\ Len(r) + 1 # K!FrameSize
        BY <2>a, <3>4, KeySize
      <4>2. Reading(v, k_rx_frame')
        BY <2>3, <2>5, <3>4, <4>1, ReadingStays DEF v, f
      <4> QED
        BY <3>1, <3>4, <4>1, <4>2 DEF ReadsRight
    <3>5. CASE /\ r # <<>> /\ b # 170 /\ Len(f) = K!FrameSize /\ k_rx_frame' = <<>>
               /\ IF K!validate_frame(f) THEN k_accepted' = <<f[2], f[3], f[6]>>
                  ELSE k_accepted' = <<>>
      <4>1. Len(r) + 1 = K!FrameSize
        BY <2>a, <3>5
      <4>2. Reading(v, k_rx_frame') /\ v = f
        BY <2>3, <2>5, <3>5, <4>1, ReadingStays DEF v, f
      <4>3. CASE K!validate_frame(f)
        <5>1. IsByte(f[4], k_sent)
          <6>1. 4 \in 1..Len(v)
            BY <3>5, <4>2, KeySize
          <6>2. v[4] \in Bytes
            BY <2>4, <6>1, ElementOfSeq
          <6> QED
            BY <4>2, <6>2 DEF Bytes, KeyBytes
        <5>2. <<f[2], f[3]>> \in k_sent
          BY <4>3, <5>1, FrameWasSent
        <5>3. k_accepted' = <<f[2], f[3], f[6]>>
          BY <3>5, <4>3
        <5>4. ReadsRight(f, <<f[2], f[3], f[6]>>, k_sent)
          BY <3>5, <4>3, <5>2 DEF ReadsRight
        <5> QED
          BY <4>2, <5>3, <5>4
      <4>4. CASE ~K!validate_frame(f)
        <5>1. k_accepted' = <<>>
          BY <3>5, <4>4
        <5>2. ReadsRight(f, <<>>, k_sent)
          BY <4>4 DEF ReadsRight
        <5> QED
          BY <4>2, <5>1, <5>2
      <4> QED
        BY <4>3, <4>4
    <3> QED
      BY <2>2, <3>2, <3>3, <3>4, <3>5
  <2> QED
    BY <2>1, <2>3, <2>4, <2>6 DEF Bytes
<1>6. CASE K!InterbyteTimeout
  <2>1. /\ k_rx_frame' = <<>> /\ k_window' = <<>> /\ k_accepted' = <<>>
        /\ UNCHANGED <<k_line, k_sent>>
    BY <1>6 DEF K!InterbyteTimeout, K!reject_frame
  <2>2. Len(<<>>) = 0
    OBVIOUS
  <2>3. Reading(<<>>, <<>>) /\ ReadsRight(<<>>, <<>>, k_sent)
    BY <2>2, KeySize DEF Reading, ReadsRight
  <2> QED
    BY <1>1, <2>1, <2>3
<1>7. CASE UNCHANGED <<k_line, k_window, k_rx_frame, k_accepted, k_sent>>
  BY <1>1, <1>7
<1> QED
  BY <1>3, <1>4, <1>5, <1>6, <1>7 DEF K!Next, K!update_disconnect_state, k_vars
-----------------------------------------------------------------------------
(***************************************************************************)
(* The UDP stream. The access unit is cut at its start codes into the      *)
(* units the encoder emitted: at[u] is where unit u begins with its code,  *)
(* from[u] where its bytes do.                                             *)
(***************************************************************************)
Symbol == 0..2

Cut(at, from) ==
  /\ p_data \in Seq(Symbol) /\ Len(p_data) \in Nat
  /\ p_sent \in Seq(Seq(Symbol)) /\ Len(p_sent) \in Nat \ {0}
  /\ at \in [1..(Len(p_sent) + 1) -> Nat \ {0}]
  /\ from \in [1..Len(p_sent) -> Nat \ {0}]
  /\ at[1] = 1 /\ at[Len(p_sent) + 1] = Len(p_data) + 1
  /\ \A u \in 1..Len(p_sent) :
       /\ P!StartCode(at[u]) /\ from[u] = at[u] + P!CodeLength(at[u])
       /\ at[u] < from[u] /\ from[u] < at[u + 1] /\ at[u + 1] <= Len(p_data) + 1
       /\ \A i \in from[u]..(at[u + 1] - 1) : ~P!StartCode(i)
       /\ SubSeq(p_data, from[u], at[u + 1] - 1) = p_sent[u]

LEMMA FirstIs ==
  ASSUME NEW i \in Nat, NEW j \in Nat, j \in P!Found(i), \A k \in P!Found(i) : j <= k
  PROVE  P!First(i) = j
<1>1. P!Found(i) \subseteq Int
  BY DEF P!Found
<1>2. \A x \in P!Found(i) : (\A k \in P!Found(i) : x <= k) => x = j
  BY <1>1
<1> QED
  BY <1>2 DEF P!First

\* What Scan finds is the next unit, or that there is none.
LEMMA ScanFinds ==
  ASSUME NEW at, NEW from, Cut(at, from), p_begun \in 0..Len(p_sent), p_current = at[p_begun + 1],
         P!Scan
  PROVE  /\ p_begun = Len(p_sent) => p_pc' = "done" /\ UNCHANGED <<p_current, p_nal, p_begun>>
         /\ p_begun < Len(p_sent) =>
              /\ p_begun' = p_begun + 1 /\ p_current' = at[p_begun' + 1]
              /\ p_nal' = [bytes |-> p_sent[p_begun + 1], first |-> TRUE,
                           marker |-> p_begun + 1 = Len(p_sent)]
              /\ p_pc' = IF Len(p_sent[p_begun + 1]) <= Capacity THEN "nal" ELSE "fragment"
<1> DEFINE n == Len(p_sent)
           u == p_begun + 1
<1>1. n \in Nat /\ u \in 1..(n + 1) /\ Len(p_data) \in Nat /\ p_begun \in Nat
  BY DEF Cut
<1>2. CASE p_begun = n
  <2>1. p_current = Len(p_data) + 1
    BY <1>1, <1>2 DEF Cut
  <2>2. P!Found(p_current) = {}
    BY <1>1, <2>1 DEF P!Found
  <2> QED
    BY <1>1, <1>2, <2>2 DEF P!Scan
<1>3. CASE p_begun < n
  <2>1. /\ u \in 1..n /\ u + 1 \in 1..(n + 1)
        /\ at[u] \in Nat \ {0} /\ at[u + 1] \in Nat \ {0} /\ from[u] \in Nat \ {0}
        /\ P!StartCode(at[u]) /\ from[u] = at[u] + P!CodeLength(at[u])
        /\ at[u] < from[u] /\ from[u] < at[u + 1] /\ at[u + 1] <= Len(p_data) + 1
        /\ \A i \in from[u]..(at[u + 1] - 1) : ~P!StartCode(i)
        /\ SubSeq(p_data, from[u], at[u + 1] - 1) = p_sent[u]
        /\ at[n + 1] = Len(p_data) + 1
        /\ u < n => P!StartCode(at[u + 1])
    <3>1. u \in 1..n /\ u + 1 \in 1..(n + 1) /\ (u < n => u + 1 \in 1..n)
      BY <1>1, <1>3
    <3> HIDE DEF u
    <3> QED
      BY <1>1, <3>1 DEF Cut
  <2> DEFINE start == from[u]
             next == at[u + 1]
  <2>2. at[u] \in P!Found(at[u]) /\ P!First(at[u]) = at[u]
    <3>1. at[u] \in P!Found(at[u])
      BY <1>1, <2>1 DEF P!Found
    <3>2. \A k \in P!Found(at[u]) : at[u] <= k
      BY <2>1 DEF P!Found
    <3> QED
      BY <2>1, <3>1, <3>2, FirstIs
  <2>3. u = n => P!Found(start) = {}
    BY <1>1, <2>1 DEF P!Found
  <2>4. u < n => next \in P!Found(start) /\ P!First(start) = next
    <3>1. SUFFICES ASSUME u < n PROVE next \in P!Found(start) /\ P!First(start) = next
      OBVIOUS
    <3>2. next \in P!Found(start)
      <4>1. next + 3 <= Len(p_data)
        BY <2>1, <3>1 DEF P!StartCode
      <4> QED
        BY <1>1, <2>1, <3>1, <4>1, SMTT(30) DEF P!Found
    <3>3. \A k \in P!Found(start) : next <= k
      BY <1>1, <2>1 DEF P!Found
    <3> QED
      BY <2>1, <3>2, <3>3, FirstIs
  <2>5. next > start /\ Len(SubSeq(p_data, start, next - 1)) = next - start
    <3>1. p_data \in Seq(Symbol)
      BY DEF Cut
    <3> QED
      BY <1>1, <2>1, <3>1, SMTT(30)
  <2>6. P!LastUnit(start) = (u = n)
    <3>1. P!LastUnit(start) <=> u = n
      BY <1>1, <2>1, <2>3, <2>4 DEF P!LastUnit
    <3>2. P!LastUnit(start) \in BOOLEAN
      BY DEF P!LastUnit
    <3> QED
      BY <3>1, <3>2
  <2>7. (IF P!Found(start) = {} THEN Len(p_data) + 1 ELSE P!First(start)) = next
    BY <1>1, <2>1, <2>3, <2>4
  <2>8. /\ P!Found(p_current) # {}
        /\ P!First(p_current) + P!CodeLength(P!First(p_current)) = start
    BY <2>1, <2>2
  <2> HIDE DEF start, next, u
  <2>9. /\ p_current' = next
        /\ p_nal' = [bytes |-> SubSeq(p_data, start, next - 1), first |-> TRUE,
                     marker |-> P!LastUnit(start)]
        /\ p_begun' = p_begun + 1
        /\ p_pc' = IF next - start <= Capacity THEN "nal" ELSE "fragment"
    BY <2>5, <2>7, <2>8 DEF P!Scan
  <2>10. SubSeq(p_data, start, next - 1) = p_sent[u] /\ Len(p_sent[u]) = next - start
    BY <2>1, <2>5 DEF start, next
  <2>11. p_nal' = [bytes |-> p_sent[u], first |-> TRUE, marker |-> u = n]
    <3> HIDE DEF n
    <3> QED
      BY <2>6, <2>9, <2>10, Zenon
  <2>12. p_current' = at[u + 1] /\ p_begun' + 1 = u + 1 /\ p_begun' = u /\ p_begun # n
    BY <1>1, <1>3, <2>9 DEF u, next
  <2>13. p_pc' = IF Len(p_sent[u]) <= Capacity THEN "nal" ELSE "fragment"
    BY <2>9, <2>10
  <2> QED
    BY <2>11, <2>12, <2>13, Zenon DEF u
<1> QED
  BY <1>1, <1>2, <1>3

\* The bytes of an access unit, as Init puts them together, are cut where the units are.
CodeShape(c) ==
  /\ c \in Seq(Symbol) /\ Len(c) \in Nat /\ 2 < Len(c) /\ Len(c) < 5
  /\ c[1] = 0 /\ c[2] = 0
  /\ Len(c) < 4 => c[3] = 1
  /\ Len(c) > 3 => c[3] = 0 /\ c[4] = 1

NalShape(s) ==
  /\ s \in Seq(Symbol) /\ Len(s) \in Nat \ {0} /\ s[Len(s)] # 0
  /\ \A i \in 1..(Len(s) - 2) : ~(s[i] = 0 /\ s[i + 1] = 0 /\ s[i + 2] # 2)

LEMMA CodesAre == \A c \in P!Codes : CodeShape(c)
<1>1. CodeShape(<<0, 0, 1>>)
  BY DEF CodeShape, Symbol
<1>2. CodeShape(<<0, 0, 0, 1>>)
  BY DEF CodeShape, Symbol
<1> QED
  BY <1>1, <1>2 DEF P!Codes

LEMMA NalsAre == \A s \in P!Nals : NalShape(s) /\ s # <<>>
<1> SUFFICES ASSUME NEW s \in P!Nals PROVE NalShape(s) /\ s # <<>>
  OBVIOUS
<1>1. PICK n \in 1..MaxBytes : s \in [1..n -> 0..2]
  BY DEF P!Nals
<1>2. P!IsNal(s)
  BY DEF P!Nals
<1>3. s \in [1..n -> Symbol] /\ n \in Nat
  BY <1>1 DEF Symbol
<1>4. s \in Seq(Symbol) /\ Len(s) = n
  BY <1>3
<1> QED
  BY <1>1, <1>2, <1>3, <1>4 DEF P!IsNal, NalShape

\* The part t of p_data behind its first k bytes.
PartAt(t, k) ==
  /\ k + Len(t) <= Len(p_data)
  /\ \A i \in 1..Len(t) : p_data[k + i] = t[i]

LEMMA CodeAt ==
  ASSUME NEW c, CodeShape(c), NEW k \in Nat, PartAt(c, k), Len(p_data) \in Nat, k + Len(c) < Len(p_data)
  PROVE  P!StartCode(k + 1) /\ P!CodeLength(k + 1) = Len(c)
<1>1. /\ Len(c) \in Nat /\ 2 < Len(c) /\ Len(c) < 5
      /\ c[1] = 0 /\ c[2] = 0
      /\ Len(c) < 4 => c[3] = 1
      /\ Len(c) > 3 => c[3] = 0 /\ c[4] = 1
  BY DEF CodeShape
<1>2. /\ p_data[k + 1] = c[1] /\ p_data[k + 1 + 1] = c[2] /\ p_data[k + 1 + 2] = c[3]
      /\ Len(c) > 3 => p_data[k + 1 + 3] = c[4]
  <2>1. \A i \in 1..Len(c) : p_data[k + i] = c[i]
    BY DEF PartAt
  <2>2. /\ 1 \in 1..Len(c) /\ 2 \in 1..Len(c) /\ 3 \in 1..Len(c) /\ (Len(c) > 3 => 4 \in 1..Len(c))
        /\ k + 1 + 1 = k + 2 /\ k + 1 + 2 = k + 3 /\ k + 1 + 3 = k + 4
    BY <1>1
  <2> QED
    BY <2>1, <2>2
<1> DEFINE i == k + 1
           x == Len(c)
<1>3. /\ i \in Nat /\ i + 3 <= Len(p_data) /\ x \in Nat /\ 2 < x /\ x < 5
      /\ p_data[i] = 0 /\ p_data[i + 1] = 0
      /\ x < 4 => p_data[i + 2] = 1
      /\ x > 3 => p_data[i + 2] = 0 /\ p_data[i + 3] = 1
  BY <1>1, <1>2
<1> HIDE DEF i, x
<1>4. ASSUME x < 4 PROVE P!StartCode(i) /\ P!CodeLength(i) = x
  <2>1. P!StartCode(i)
    BY <1>3, <1>4 DEF P!StartCode
  <2>2. P!CodeLength(i) = 3
    BY <1>3, <1>4 DEF P!CodeLength
  <2> QED
    BY <1>3, <1>4, <2>1, <2>2
<1>5. ASSUME x > 3 PROVE P!StartCode(i) /\ P!CodeLength(i) = x
  <2>1. P!StartCode(i)
    BY <1>3, <1>5 DEF P!StartCode
  <2>2. P!CodeLength(i) = 4
    BY <1>3, <1>5 DEF P!CodeLength
  <2> QED
    BY <1>3, <1>5, <2>1, <2>2
<1>6. P!StartCode(i) /\ P!CodeLength(i) = x
  BY <1>3, <1>4, <1>5
<1> QED
  BY <1>6 DEF i, x

LEMMA NalAt ==
  ASSUME NEW s, NalShape(s), NEW k \in Nat, PartAt(s, k), p_data \in Seq(Symbol), Len(p_data) \in Nat
  PROVE  /\ \A i \in (k + 1)..(k + Len(s)) : ~P!StartCode(i)
         /\ SubSeq(p_data, k + 1, k + Len(s)) = s
<1>1. /\ s \in Seq(Symbol) /\ Len(s) \in Nat \ {0} /\ s[Len(s)] # 0
      /\ \A i \in 1..(Len(s) - 2) : ~(s[i] = 0 /\ s[i + 1] = 0 /\ s[i + 2] # 2)
      /\ k + Len(s) <= Len(p_data)
      /\ \A i \in 1..Len(s) : p_data[k + i] = s[i]
  BY DEF NalShape, PartAt
<1>2. ASSUME NEW i \in (k + 1)..(k + Len(s)), P!StartCode(i) PROVE FALSE
  <2> DEFINE j == i - k
  <2>1. j \in 1..Len(s) /\ i = k + j /\ i + 1 = k + (j + 1) /\ i + 2 = k + (j + 2)
    BY <1>1
  <2>2. p_data[i] = 0 /\ p_data[i + 1] = 0 /\ p_data[i + 2] \in {0, 1}
    BY <1>2 DEF P!StartCode
  <2> HIDE DEF j
  <2>3. s[j] = 0
    BY <1>1, <2>1, <2>2
  <2>4. j + 1 \in 1..Len(s) /\ s[j + 1] = 0
    BY <1>1, <2>1, <2>2, <2>3, SMTT(30)
  <2>5. j + 2 \in 1..Len(s) /\ s[j + 2] # 2
    BY <1>1, <2>1, <2>2, <2>4, SMTT(30)
  <2> QED
    <3>1. j \in 1..(Len(s) - 2)
      BY <1>1, <2>1, <2>5
    <3> QED
      BY <1>1, <2>3, <2>4, <2>5, <3>1
<1>3. SubSeq(p_data, k + 1, k + Len(s)) = s
  <2> DEFINE t == SubSeq(p_data, k + 1, k + Len(s))
  <2>1. t \in Seq(Symbol) /\ Len(t) = Len(s)
    BY <1>1
  <2>2. \A i \in 1..Len(s) : t[i] = p_data[k + i]
    BY <1>1
  <2> HIDE DEF t
  <2>3. t = s
    BY <1>1, <2>1, <2>2, SeqEqual
  <2> QED
    BY <2>3 DEF t
<1> QED
  BY <1>2, <1>3

LEMMA OneUnitCut ==
  ASSUME NEW a, NalShape(a), NEW c, CodeShape(c), p_sent = <<a>>, p_data = c \o a
  PROVE  \E at, from : Cut(at, from) /\ at[1] = 1
<1> DEFINE x == Len(c)
           n == Len(a)
           at == [u \in 1..(Len(p_sent) + 1) |-> IF u = 1 THEN 1 ELSE x + n + 1]
           from == [u \in 1..Len(p_sent) |-> x + 1]
<1>1. /\ c \in Seq(Symbol) /\ x \in Nat /\ x > 2 /\ a \in Seq(Symbol) /\ n \in Nat /\ n > 0
  BY DEF CodeShape, NalShape
<1>2. /\ p_sent \in Seq(Seq(Symbol)) /\ p_sent[1] = a
      /\ Len(p_sent) \in Nat /\ 0 < Len(p_sent) /\ Len(p_sent) < 2
  BY <1>1
<1>3. /\ p_data \in Seq(Symbol) /\ Len(p_data) = x + n
      /\ \A i \in 1..(x + n) : p_data[i] = IF i <= x THEN c[i] ELSE a[i - x]
  BY <1>1, ConcatProperties
<1> HIDE DEF x, n
<1>4. PartAt(c, 0) /\ PartAt(a, x)
  <2>1. PartAt(c, 0)
    BY <1>1, <1>3 DEF PartAt, x
  <2>2. \A i \in 1..n : x + i \in 1..(x + n) /\ ~(x + i <= x) /\ (x + i) - x = i
    BY <1>1
  <2>3. PartAt(a, x)
    BY <1>1, <1>3, <2>2 DEF PartAt, n
  <2> QED
    BY <2>1, <2>3
<1>5. P!StartCode(1) /\ P!CodeLength(1) = x
  <2>1. 0 + x < Len(p_data) /\ Len(p_data) \in Nat
    BY <1>1, <1>3
  <2>2. P!StartCode(0 + 1) /\ P!CodeLength(0 + 1) = x
    BY <1>4, <2>1, CodeAt DEF x
  <2> QED
    BY <2>2
<1>6. (\A i \in (x + 1)..(x + n) : ~P!StartCode(i)) /\ SubSeq(p_data, x + 1, x + n) = a
  BY <1>1, <1>3, <1>4, NalAt DEF n
<1>7. /\ at \in [1..(Len(p_sent) + 1) -> Nat \ {0}]
      /\ from \in [1..Len(p_sent) -> Nat \ {0}]
      /\ at[1] = 1 /\ at[Len(p_sent) + 1] = x + n + 1
      /\ \A u \in 1..Len(p_sent) : u = 1 /\ at[u] = 1 /\ from[u] = x + 1 /\ at[u + 1] = x + n + 1
  BY <1>1, <1>2
<1> HIDE DEF at, from
<1>8. ASSUME NEW u \in 1..Len(p_sent)
      PROVE  /\ P!StartCode(at[u]) /\ from[u] = at[u] + P!CodeLength(at[u])
             /\ at[u] < from[u] /\ from[u] < at[u + 1] /\ at[u + 1] <= Len(p_data) + 1
             /\ \A i \in from[u]..(at[u + 1] - 1) : ~P!StartCode(i)
             /\ SubSeq(p_data, from[u], at[u + 1] - 1) = p_sent[u]
  <2>1. u = 1 /\ at[u] = 1 /\ from[u] = x + 1 /\ at[u + 1] = x + n + 1 /\ at[u + 1] - 1 = x + n
    BY <1>1, <1>7
  <2> QED
    BY <1>1, <1>2, <1>3, <1>5, <1>6, <2>1
<1>9. Cut(at, from)
  <2>1. /\ Len(p_sent) \in Nat \ {0} /\ Len(p_data) \in Nat
        /\ at[Len(p_sent) + 1] = Len(p_data) + 1
    BY <1>1, <1>2, <1>3, <1>7
  <2> QED
    BY <1>2, <1>3, <1>7, <1>8, <2>1, Zenon DEF Cut
<1> QED
  BY <1>7, <1>9

LEMMA TwoUnitsCut ==
  ASSUME NEW a, NalShape(a), NEW b, NalShape(b), NEW c, CodeShape(c), NEW d, CodeShape(d),
         p_sent = <<a, b>>, p_data = (c \o a) \o (d \o b)
  PROVE  \E at, from : Cut(at, from) /\ at[1] = 1
<1> DEFINE x == Len(c)
           n == Len(a)
           y == Len(d)
           m == Len(b)
           at == [u \in 1..(Len(p_sent) + 1) |->
                    IF u = 1 THEN 1 ELSE IF u = 2 THEN x + n + 1 ELSE x + n + y + m + 1]
           from == [u \in 1..Len(p_sent) |-> IF u = 1 THEN x + 1 ELSE x + n + y + 1]
<1>1. /\ c \in Seq(Symbol) /\ x \in Nat /\ x > 2 /\ a \in Seq(Symbol) /\ n \in Nat /\ n > 0
      /\ d \in Seq(Symbol) /\ y \in Nat /\ y > 2 /\ b \in Seq(Symbol) /\ m \in Nat /\ m > 0
  BY DEF CodeShape, NalShape
<1>2. /\ p_sent \in Seq(Seq(Symbol)) /\ Len(p_sent) \in Nat /\ 1 < Len(p_sent) /\ Len(p_sent) < 3
      /\ p_sent[1] = a /\ p_sent[2] = b
  BY <1>1
<1>3. /\ p_data \in Seq(Symbol) /\ Len(p_data) = x + n + y + m
      /\ \A i \in 1..x : p_data[0 + i] = c[i]
      /\ \A i \in 1..n : p_data[x + i] = a[i]
      /\ \A i \in 1..y : p_data[x + n + i] = d[i]
      /\ \A i \in 1..m : p_data[x + n + y + i] = b[i]
  <2> DEFINE p == c \o a
             q == d \o b
  <2>1. /\ p \in Seq(Symbol) /\ Len(p) = x + n
        /\ \A i \in 1..(x + n) : p[i] = IF i <= x THEN c[i] ELSE a[i - x]
    BY <1>1, ConcatProperties
  <2>2. /\ q \in Seq(Symbol) /\ Len(q) = y + m
        /\ \A i \in 1..(y + m) : q[i] = IF i <= y THEN d[i] ELSE b[i - y]
    BY <1>1, ConcatProperties
  <2>3. p_data = p \o q
    OBVIOUS
  <2> HIDE DEF p, q, x, n, y, m
  <2>4. /\ p_data \in Seq(Symbol) /\ Len(p_data) = Len(p) + Len(q)
        /\ \A i \in 1..(Len(p) + Len(q)) : p_data[i] = IF i <= Len(p) THEN p[i] ELSE q[i - Len(p)]
    <3>1. /\ p \o q \in Seq(Symbol) /\ Len(p \o q) = Len(p) + Len(q)
          /\ \A i \in 1..(Len(p) + Len(q)) : (p \o q)[i] = IF i <= Len(p) THEN p[i] ELSE q[i - Len(p)]
      BY <2>1, <2>2, ConcatProperties
    <3> QED
      BY <2>3, <3>1
  <2>5. ASSUME NEW i \in 1..x PROVE p_data[0 + i] = c[i]
    <3>1. 0 + i = i /\ i \in 1..(Len(p) + Len(q)) /\ i <= Len(p) /\ i \in 1..(x + n)
      BY <1>1, <2>1, <2>2
    <3>2. p_data[i] = p[i]
      BY <2>4, <3>1
    <3>3. p[i] = c[i]
      BY <2>1, <3>1
    <3> QED
      BY <3>1, <3>2, <3>3
  <2>6. ASSUME NEW i \in 1..n PROVE p_data[x + i] = a[i]
    <3>1. /\ x + i \in 1..(Len(p) + Len(q)) /\ x + i <= Len(p) /\ x + i \in 1..(x + n)
          /\ ~(x + i <= x) /\ (x + i) - x = i
      BY <1>1, <2>1, <2>2
    <3>2. p_data[x + i] = p[x + i]
      BY <2>4, <3>1
    <3>3. p[x + i] = a[(x + i) - x]
      BY <2>1, <3>1
    <3> QED
      BY <3>1, <3>2, <3>3
  <2>7. ASSUME NEW i \in 1..y PROVE p_data[x + n + i] = d[i]
    <3>1. /\ x + n + i \in 1..(Len(p) + Len(q)) /\ ~(x + n + i <= Len(p))
          /\ (x + n + i) - Len(p) = i /\ i \in 1..(y + m)
      BY <1>1, <2>1, <2>2
    <3>2. p_data[x + n + i] = q[(x + n + i) - Len(p)]
      BY <2>4, <3>1
    <3>3. q[i] = d[i]
      BY <2>2, <3>1
    <3> QED
      BY <3>1, <3>2, <3>3
  <2>8. ASSUME NEW i \in 1..m PROVE p_data[x + n + y + i] = b[i]
    <3>1. /\ x + n + y + i \in 1..(Len(p) + Len(q)) /\ ~(x + n + y + i <= Len(p))
          /\ (x + n + y + i) - Len(p) = y + i /\ y + i \in 1..(y + m) /\ ~(y + i <= y) /\ (y + i) - y = i
      BY <1>1, <2>1, <2>2
    <3>2. p_data[x + n + y + i] = q[y + i]
      BY <2>4, <3>1
    <3>3. q[y + i] = b[(y + i) - y]
      BY <2>2, <3>1
    <3> QED
      BY <3>1, <3>2, <3>3
  <2>9. Len(p_data) = x + n + y + m
    BY <1>1, <2>1, <2>2, <2>4
  <2> QED
    BY <2>4, <2>5, <2>6, <2>7, <2>8, <2>9
<1> HIDE DEF x, n, y, m
<1>4. PartAt(c, 0) /\ PartAt(a, x) /\ PartAt(d, x + n) /\ PartAt(b, x + n + y)
  BY <1>1, <1>3, SMTT(30) DEF PartAt, x, n, y, m
<1>a. p_data \in Seq(Symbol) /\ Len(p_data) \in Nat /\ Len(p_data) = x + n + y + m
  BY <1>1, <1>3
<1>5. P!StartCode(1) /\ P!CodeLength(1) = x
  <2>1. 0 + x < Len(p_data) /\ Len(p_data) \in Nat
    BY <1>1, <1>3
  <2>2. P!StartCode(0 + 1) /\ P!CodeLength(0 + 1) = x
    BY <1>4, <2>1, CodeAt DEF x
  <2> QED
    BY <2>2
<1>6. P!StartCode(x + n + 1) /\ P!CodeLength(x + n + 1) = y
  <2>1. (x + n) + y < Len(p_data) /\ Len(p_data) \in Nat /\ x + n \in Nat
    BY <1>1, <1>3
  <2> QED
    BY <1>4, <2>1, CodeAt DEF y
<1>7. (\A i \in (x + 1)..(x + n) : ~P!StartCode(i)) /\ SubSeq(p_data, x + 1, x + n) = a
  BY <1>1, <1>a, <1>4, NalAt DEF n
<1>8. /\ \A i \in (x + n + y + 1)..(x + n + y + m) : ~P!StartCode(i)
      /\ SubSeq(p_data, x + n + y + 1, x + n + y + m) = b
  <2>1. x + n + y \in Nat
    BY <1>1
  <2> QED
    BY <1>1, <1>a, <1>4, <2>1, NalAt DEF m
<1>9. /\ at \in [1..(Len(p_sent) + 1) -> Nat \ {0}]
      /\ from \in [1..Len(p_sent) -> Nat \ {0}]
      /\ at[1] = 1 /\ at[Len(p_sent) + 1] = x + n + y + m + 1
      /\ \A u \in 1..Len(p_sent) :
           \/ u = 1 /\ at[u] = 1 /\ from[u] = x + 1 /\ at[u + 1] = x + n + 1
           \/ /\ u = 2 /\ at[u] = x + n + 1 /\ from[u] = x + n + y + 1
              /\ at[u + 1] = x + n + y + m + 1
  BY <1>1, <1>2
<1> HIDE DEF at, from
<1>10. ASSUME NEW u \in 1..Len(p_sent)
       PROVE  /\ P!StartCode(at[u]) /\ from[u] = at[u] + P!CodeLength(at[u])
              /\ at[u] < from[u] /\ from[u] < at[u + 1] /\ at[u + 1] <= Len(p_data) + 1
              /\ \A i \in from[u]..(at[u + 1] - 1) : ~P!StartCode(i)
              /\ SubSeq(p_data, from[u], at[u + 1] - 1) = p_sent[u]
  <2>1. CASE u = 1 /\ at[u] = 1 /\ from[u] = x + 1 /\ at[u + 1] = x + n + 1
    <3>1. at[u + 1] - 1 = x + n
      BY <1>1, <2>1
    <3> QED
      BY <1>1, <1>2, <1>a, <1>5, <1>7, <2>1, <3>1, SMTT(30)
  <2>2. CASE /\ u = 2 /\ at[u] = x + n + 1 /\ from[u] = x + n + y + 1
             /\ at[u + 1] = x + n + y + m + 1
    <3>1. at[u + 1] - 1 = x + n + y + m
      BY <1>1, <2>2
    <3> QED
      BY <1>1, <1>2, <1>a, <1>6, <1>8, <2>2, <3>1, SMTT(30)
  <2> QED
    BY <1>9, <2>1, <2>2
<1>11. Cut(at, from)
  <2>a. Len(p_data) \in Nat /\ at[Len(p_sent) + 1] = Len(p_data) + 1
    BY <1>a, <1>9
  <2>b. Len(p_sent) \in Nat \ {0}
    BY <1>2
  <2>1. /\ Len(p_sent) \in Nat \ {0} /\ Len(p_data) \in Nat
        /\ at[Len(p_sent) + 1] = Len(p_data) + 1
    BY <2>a, <2>b
  <2> QED
    BY <1>2, <1>3, <1>9, <1>10, <2>1, Zenon DEF Cut
<1> QED
  BY <1>9, <1>11

\* Whatever the encoder emitted, the first unit begins where the search does.
LEMMA InitCut == P!Init => \E at, from : Cut(at, from) /\ at[1] = 1
<1> SUFFICES ASSUME P!Init PROVE \E at, from : Cut(at, from) /\ at[1] = 1
  OBVIOUS
<1>1. PICK a \in P!Nals, b \in P!Nals \cup {<<>>}, c \in P!Codes, d \in P!Codes :
        /\ p_sent = IF b = <<>> THEN <<a>> ELSE <<a, b>>
        /\ p_data = c \o a \o (IF b = <<>> THEN <<>> ELSE d \o b)
  BY DEF P!Init
<1>2. NalShape(a) /\ CodeShape(c) /\ CodeShape(d)
  BY CodesAre, NalsAre
<1>3. CASE b = <<>>
  <2>1. c \o a \in Seq(Symbol)
    BY <1>2, ConcatProperties DEF NalShape, CodeShape
  <2>2. p_data = c \o a
    BY <1>1, <1>3, <2>1, ConcatEmptySeq
  <2> QED
    BY <1>1, <1>2, <1>3, <2>2, OneUnitCut
<1>4. CASE b # <<>>
  <2>1. NalShape(b)
    BY <1>4, NalsAre
  <2>2. p_sent = <<a, b>> /\ p_data = (c \o a) \o (d \o b)
    BY <1>1, <1>4
  <2> QED
    BY <1>2, <2>1, <2>2, TwoUnitsCut
<1> QED
  BY <1>3, <1>4

(***************************************************************************)
(* The sender and a receiver. The numbers tell the receiver of every loss, *)
(* as fewer are lost than there are numbers; while they follow one         *)
(* another, what it holds and what remains to be sent are the unit.        *)
(***************************************************************************)
NalRecord == [bytes : Seq(Symbol), first : BOOLEAN, marker : BOOLEAN]
GotUnit == [unit : Nat, bytes : Seq(Symbol)]

Numbers(sequence, expected, lost) ==
  /\ sequence \in 0..(Modulus - 1) /\ expected \in 0..(Modulus - 1)
  /\ lost \in 0..MaxDatagramsLost
  /\ \E lag \in 0..lost : expected + lag = sequence \/ expected + lag = sequence + Modulus

Place == \E at, from : Cut(at, from) /\ p_begun \in 0..Len(p_sent) /\ p_current = at[p_begun + 1]

Sending ==
  /\ p_pc \in {"scan", "nal", "fragment", "done", "failed"}
  /\ p_nal \in NalRecord /\ p_building \in Seq(Symbol)
  /\ p_pc \in {"nal", "fragment"} => p_begun > 0 /\ (p_nal.marker <=> p_begun = Len(p_sent))
  /\ p_pc = "nal" => p_nal.first /\ p_nal.bytes = p_sent[p_begun]
  /\ p_pc = "fragment" /\ p_nal.first =>
       p_nal.bytes = p_sent[p_begun] /\ Len(p_nal.bytes) > Capacity
  /\ p_pc = "fragment" /\ ~p_nal.first /\ p_sequence = p_expected =>
       p_building = <<>> \/ p_building \o p_nal.bytes = p_sent[p_begun]
  /\ p_pc = "done" => p_begun = Len(p_sent)

Received ==
  /\ p_got \in Seq(GotUnit)
  /\ \A k \in 1..Len(p_got) :
       p_got[k].unit \in 1..Len(p_sent) /\ p_got[k].bytes = p_sent[p_got[k].unit]
  /\ p_losses = 0 =>
       /\ p_sequence = p_expected /\ p_pc # "failed"
       /\ Len(p_got) = IF p_pc \in {"nal", "fragment"} THEN p_begun - 1 ELSE p_begun
       /\ \A k \in 1..Len(p_got) : p_got[k].unit = k
       /\ p_pc = "fragment" /\ ~p_nal.first => p_building # <<>>

Marked ==
  /\ p_marked \subseteq {Len(p_sent)}
  /\ p_pc \in {"scan", "done"} /\ p_begun = Len(p_sent) => Len(p_sent) \in p_marked

RtpInv == Numbers(p_sequence, p_expected, p_losses) /\ Place /\ Sending /\ Received /\ Marked

LEMMA UnitsAreWhole == RtpInv => P!UnitsArriveWhole
<1> SUFFICES ASSUME RtpInv PROVE P!UnitsArriveWhole
  OBVIOUS
<1>1. /\ p_sent \in Seq(Seq(Symbol)) /\ Len(p_sent) \in Nat \ {0} /\ DOMAIN p_sent = 1..Len(p_sent)
  BY LenProperties DEF RtpInv, Place, Cut
<1>2. p_got \in Seq(GotUnit) /\ DOMAIN p_got = 1..Len(p_got) /\ Len(p_got) \in Nat
  BY LenProperties DEF RtpInv, Received
<1>3. \A k \in DOMAIN p_got :
        p_got[k].unit \in DOMAIN p_sent /\ p_got[k].bytes = p_sent[p_got[k].unit]
  BY <1>1, <1>2 DEF RtpInv, Received
<1>4. ASSUME p_pc = "done", p_losses = 0 PROVE [k \in DOMAIN p_got |-> p_got[k].bytes] = p_sent
  <2>1. Len(p_got) = Len(p_sent) /\ \A k \in 1..Len(p_got) : p_got[k].unit = k
    BY <1>4 DEF RtpInv, Received, Sending
  <2>2. \A k \in 1..Len(p_sent) : p_got[k].bytes = p_sent[k]
    BY <1>1, <1>2, <1>3, <2>1
  <2>3. p_sent = [k \in 1..Len(p_sent) |-> p_sent[k]]
    BY <1>1
  <2> QED
    BY <1>1, <1>2, <2>1, <2>2, <2>3
<1>5. p_marked \subseteq {Len(p_sent)} /\ (p_pc = "done" => p_marked # {})
  BY DEF RtpInv, Marked, Sending
<1> QED
  BY <1>3, <1>4, <1>5 DEF P!UnitsArriveWhole

LEMMA RtpInit == P!Init /\ LinksAssumption => RtpInv
<1> SUFFICES ASSUME P!Init, LinksAssumption PROVE RtpInv
  OBVIOUS
<1>1. /\ p_current = 1 /\ p_nal = [bytes |-> <<>>, first |-> FALSE, marker |-> FALSE]
      /\ p_pc = "scan" /\ p_sequence \in {0, Modulus - 1} /\ p_expected = p_sequence
      /\ p_building \in {<<>>, <<2>>} /\ p_begun = 0 /\ p_got = <<>> /\ p_marked = {} /\ p_losses = 0
  BY DEF P!Init, P!Nothing
<1>2. PICK at, from : Cut(at, from) /\ at[1] = 1
  BY InitCut
<1>3. Len(p_sent) \in Nat \ {0}
  BY <1>2 DEF Cut
<1>4. Place
  <2>1. p_begun \in 0..Len(p_sent) /\ p_current = at[p_begun + 1]
    BY <1>1, <1>2, <1>3
  <2> QED
    BY <1>2, <2>1 DEF Place
<1>5. Numbers(p_sequence, p_expected, p_losses)
  <2>1. p_sequence \in 0..(Modulus - 1) /\ 0 \in 0..MaxDatagramsLost /\ 0 \in 0..0
    BY <1>1 DEF LinksAssumption
  <2>2. p_expected + 0 = p_sequence
    BY <1>1, <2>1
  <2> QED
    BY <1>1, <2>1, <2>2 DEF Numbers
<1>6. Sending
  <2>1. p_building \in Seq(Symbol)
    <3>1. 2 \in Symbol
      BY DEF Symbol
    <3>2. <<2>> \in Seq(Symbol) /\ <<>> \in Seq(Symbol)
      BY <3>1
    <3> QED
      BY <1>1, <3>2
  <2>2. p_nal \in NalRecord
    BY <1>1 DEF NalRecord
  <2> QED
    BY <1>1, <2>1, <2>2 DEF Sending
<1>7. Received
  <2>1. p_got \in Seq(GotUnit) /\ Len(p_got) = 0
    BY <1>1
  <2> QED
    BY <1>1, <2>1 DEF Received
<1>8. Marked
  BY <1>1, <1>3 DEF Marked
<1> QED
  BY <1>4, <1>5, <1>6, <1>7, <1>8 DEF RtpInv

\* A packet leaves, with the last bytes of a unit or not: it arrives, or not.
After(last) == IF last THEN "scan" ELSE "fragment"
SentPart(last) ==
  /\ UNCHANGED <<p_sent, p_data, p_current, p_begun>>
  /\ p_marked' = IF p_nal.marker /\ last THEN p_marked \cup {p_begun} ELSE p_marked
  /\ p_nal' \in NalRecord /\ (~last => ~p_nal'.first /\ p_nal'.marker = p_nal.marker)
  /\ p_building' \in Seq(Symbol)
  /\ p_sequence' = IF p_sequence + 1 = Modulus THEN 0 ELSE p_sequence + 1
  /\ \/ /\ p_losses < MaxDatagramsLost /\ p_losses' = p_losses + 1
        /\ UNCHANGED <<p_expected, p_got>>
        /\ p_pc' \in {After(last), "failed"}
     \/ /\ p_losses' = p_losses /\ p_expected' = p_sequence'
        /\ p_pc' = After(last)
        /\ IF last
           THEN \/ p_got' = Append(p_got, [unit |-> p_begun, bytes |-> p_sent[p_begun]])
                \/ p_got' = p_got /\ p_losses # 0
           ELSE /\ p_got' = p_got
                /\ \/ p_building' = <<>> /\ p_losses # 0
                   \/ p_building' # <<>> /\ p_building' \o p_nal'.bytes = p_sent[p_begun]

LEMMA PartKept ==
  ASSUME RtpInv, LinksAssumption, p_pc \in {"nal", "fragment"}, NEW last \in BOOLEAN, SentPart(last)
  PROVE  RtpInv'
<1> DEFINE n == Len(p_sent)
<1>1. /\ n \in Nat \ {0} /\ p_begun \in 1..n /\ p_begun' = p_begun
      /\ p_sent \in Seq(Seq(Symbol)) /\ p_sent' = p_sent
  BY DEF RtpInv, Place, Cut, Sending, SentPart
<1>2. Place'
  <2>1. PICK at, from : Cut(at, from) /\ p_begun \in 0..Len(p_sent) /\ p_current = at[p_begun + 1]
    BY DEF RtpInv, Place
  <2>2. UNCHANGED <<p_sent, p_data, p_current, p_begun>>
    BY DEF SentPart
  <2>3. Cut(at, from)'
    BY <2>1, <2>2, SMTT(30) DEF Cut, P!StartCode, P!CodeLength
  <2> QED
    BY <2>1, <2>2, <2>3 DEF Place
<1>3. Numbers(p_sequence', p_expected', p_losses') /\ (p_losses' # p_losses => p_sequence' # p_expected')
  <2>1. /\ Modulus \in Nat \ {0} /\ MaxDatagramsLost \in 0..(Modulus - 1)
        /\ Numbers(p_sequence, p_expected, p_losses)
    BY DEF LinksAssumption, RtpInv
  <2>2. PICK lag \in 0..p_losses :
          p_expected + lag = p_sequence \/ p_expected + lag = p_sequence + Modulus
    BY <2>1 DEF Numbers
  <2>3. p_sequence \in 0..(Modulus - 1) /\ p_expected \in 0..(Modulus - 1) /\ p_losses \in 0..MaxDatagramsLost
    BY <2>1 DEF Numbers
  <2>4. p_sequence' = IF p_sequence + 1 = Modulus THEN 0 ELSE p_sequence + 1
    BY DEF SentPart
  <2>5. p_sequence' \in 0..(Modulus - 1)
    BY <2>1, <2>3, <2>4
  <2>6. CASE p_losses < MaxDatagramsLost /\ p_losses' = p_losses + 1 /\ p_expected' = p_expected
    <3>1. p_losses' \in 0..MaxDatagramsLost /\ lag + 1 \in 0..p_losses' /\ lag + 1 < Modulus
      BY <2>1, <2>2, <2>3, <2>6
    <3>2. p_expected' + (lag + 1) = p_sequence' \/ p_expected' + (lag + 1) = p_sequence' + Modulus
      BY <2>1, <2>2, <2>3, <2>4, <2>6, <3>1
    <3>3. p_sequence' # p_expected'
      BY <2>1, <2>2, <2>3, <2>4, <2>6, <3>1, <3>2
    <3> QED
      BY <2>3, <2>5, <2>6, <3>1, <3>2, <3>3 DEF Numbers
  <2>7. CASE p_losses' = p_losses /\ p_expected' = p_sequence'
    <3>1. p_expected' + 0 = p_sequence' /\ 0 \in 0..p_losses'
      <4>1. p_losses \in Nat /\ p_sequence' \in Int
        BY <2>1, <2>3, <2>5
      <4>2. p_expected' = p_sequence' /\ p_losses' \in Nat
        BY <2>7, <4>1
      <4>3. \A z \in Int : z + 0 = z
        OBVIOUS
      <4>4. p_expected' \in Int
        BY <4>1, <4>2, Zenon
      <4>5. p_expected' + 0 = p_expected'
        BY <4>3, <4>4, Zenon
      <4>6. 0 \in 0..p_losses'
        BY <4>2
      <4> QED
        BY <4>2, <4>5, <4>6, Zenon
    <3> QED
      BY <2>3, <2>5, <2>7, <3>1 DEF Numbers
  <2> QED
    BY <2>6, <2>7 DEF SentPart
<1>4. p_pc' \in {After(last), "failed"} /\ p_nal' \in NalRecord /\ p_building' \in Seq(Symbol)
      /\ (p_losses' = p_losses => p_pc' = After(last))
  <2>1. p_losses \in Nat
    BY DEF RtpInv, Numbers, LinksAssumption
  <2> QED
    BY <2>1 DEF SentPart
<1>5. Sending'
  <2>1. /\ p_pc' \in {"scan", "nal", "fragment", "done", "failed"}
        /\ p_pc' # "nal" /\ p_pc' # "done" /\ (p_pc' = "fragment" => ~last)
    BY <1>4 DEF After
  <2>2. p_nal.marker <=> p_begun = n
    BY DEF RtpInv, Sending
  <2>3. p_pc' = "fragment" => ~p_nal'.first /\ (p_nal'.marker <=> p_begun' = Len(p_sent'))
    BY <1>1, <2>1, <2>2 DEF SentPart
  <2>4. p_pc' = "fragment" /\ p_sequence' = p_expected' =>
          p_building' = <<>> \/ p_building' \o p_nal'.bytes = p_sent'[p_begun']
    <3>1. SUFFICES ASSUME p_pc' = "fragment", p_sequence' = p_expected'
                   PROVE  p_building' = <<>> \/ p_building' \o p_nal'.bytes = p_sent'[p_begun']
      OBVIOUS
    <3>2. p_losses' = p_losses /\ ~last /\ p_losses \in Nat
      BY <1>3, <2>1, <3>1 DEF RtpInv, Numbers, LinksAssumption
    <3>3. p_losses + 1 # p_losses
      BY <3>2
    <3>4. p_building' = <<>> \/ p_building' \o p_nal'.bytes = p_sent[p_begun]
      BY <3>2, <3>3 DEF SentPart
    <3> QED
      BY <1>1, <3>4
  <2> QED
    BY <1>1, <1>4, <2>1, <2>3, <2>4 DEF Sending
<1>6. Received'
  <2> DEFINE e == [unit |-> p_begun, bytes |-> p_sent[p_begun]]
  <2>1. e \in GotUnit /\ e.unit = p_begun /\ e.bytes = p_sent[p_begun]
    BY <1>1 DEF GotUnit
  <2>2. /\ p_got \in Seq(GotUnit) /\ Len(p_got) \in Nat
        /\ \A k \in 1..Len(p_got) :
             p_got[k].unit \in 1..n /\ p_got[k].bytes = p_sent[p_got[k].unit]
        /\ p_losses = 0 =>
             /\ Len(p_got) = p_begun - 1
             /\ \A k \in 1..Len(p_got) : p_got[k].unit = k
    BY LenProperties DEF RtpInv, Received
  <2>3. p_losses \in Nat
    BY DEF RtpInv, Numbers, LinksAssumption
  <2> HIDE DEF e, n
  <2>4. CASE p_losses' = p_losses + 1 /\ p_got' = p_got
    <3>1. p_losses' # 0
      BY <2>3, <2>4
    <3> QED
      BY <1>1, <2>2, <2>4, <3>1 DEF Received, n
  <2>5. CASE p_losses' = p_losses /\ last /\ p_got' = Append(p_got, e)
    <3>1. /\ Append(p_got, e) \in Seq(GotUnit) /\ Len(Append(p_got, e)) = Len(p_got) + 1
          /\ \A k \in 1..(Len(p_got) + 1) :
               Append(p_got, e)[k] = IF k <= Len(p_got) THEN p_got[k] ELSE e
      BY <2>1, <2>2, AppendProperties
    <3>2. /\ p_got' \in Seq(GotUnit) /\ Len(p_got') = Len(p_got) + 1
          /\ \A k \in 1..Len(p_got') : IF k <= Len(p_got) THEN p_got'[k] = p_got[k] ELSE p_got'[k] = e
      BY <2>5, <3>1
    <3>3. \A k \in 1..Len(p_got') :
            p_got'[k].unit \in 1..n /\ p_got'[k].bytes = p_sent[p_got'[k].unit]
      <4>1. ASSUME NEW k \in 1..Len(p_got')
            PROVE  p_got'[k].unit \in 1..n /\ p_got'[k].bytes = p_sent[p_got'[k].unit]
        <5>1. CASE k <= Len(p_got)
          <6>1. k \in 1..Len(p_got) /\ p_got'[k] = p_got[k]
            BY <2>2, <3>2, <5>1
          <6> QED
            BY <2>2, <6>1
        <5>2. CASE ~(k <= Len(p_got))
          <6>1. p_got'[k] = e
            BY <3>2, <5>2
          <6> QED
            BY <1>1, <2>1, <6>1 DEF n
        <5> QED
          BY <5>1, <5>2
      <4> QED
        BY <4>1
    <3>4. ASSUME p_losses' = 0
          PROVE  /\ p_sequence' = p_expected' /\ p_pc' # "failed" /\ p_pc' = "scan"
                 /\ Len(p_got') = p_begun
                 /\ \A k \in 1..Len(p_got') : p_got'[k].unit = k
      <4>1. p_sequence' = p_expected' /\ p_pc' = "scan"
        BY <1>4, <2>3, <2>5 DEF SentPart, After
      <4>2. Len(p_got) = p_begun - 1 /\ \A k \in 1..Len(p_got) : p_got[k].unit = k
        BY <2>2, <2>5, <3>4
      <4>3. Len(p_got') = p_begun
        BY <1>1, <2>2, <3>2, <4>2
      <4>4. \A k \in 1..Len(p_got') : p_got'[k].unit = k
        <5>1. ASSUME NEW k \in 1..Len(p_got') PROVE p_got'[k].unit = k
          <6>1. CASE k <= Len(p_got)
            <7>1. k \in 1..Len(p_got) /\ p_got'[k] = p_got[k]
              BY <2>2, <3>2, <6>1
            <7> QED
              BY <4>2, <7>1
          <6>2. CASE ~(k <= Len(p_got))
            <7>1. p_got'[k] = e /\ k = p_begun
              BY <1>1, <2>2, <3>2, <4>2, <4>3, <6>2
            <7> QED
              BY <2>1, <7>1
          <6> QED
            BY <6>1, <6>2
        <5> QED
          BY <5>1
      <4> QED
        BY <4>1, <4>3, <4>4
    <3> QED
      BY <1>1, <3>2, <3>3, <3>4 DEF Received, n
  <2>6. CASE p_losses' = p_losses /\ last /\ p_got' = p_got /\ p_losses # 0
    BY <1>1, <2>2, <2>6 DEF Received, n
  <2>7. CASE /\ p_losses' = p_losses /\ ~last /\ p_got' = p_got /\ p_expected' = p_sequence'
             /\ p_losses # 0 \/ p_building' # <<>>
    <3>1. p_pc' = "fragment"
      BY <1>4, <2>7 DEF After
    <3> QED
      BY <1>1, <2>2, <2>7, <3>1 DEF Received, n
  <2> QED
    BY <2>4, <2>5, <2>6, <2>7 DEF SentPart, e
<1>7. Marked'
  <2>1. p_pc' \in {"scan", "done"} => last
    BY <1>4 DEF After
  <2>2. p_nal.marker <=> p_begun = n
    BY DEF RtpInv, Sending
  <2>3. p_marked \subseteq {n}
    BY DEF RtpInv, Marked
  <2>4. p_marked' = IF p_nal.marker /\ last THEN p_marked \cup {p_begun} ELSE p_marked
    BY DEF SentPart
  <2> QED
    BY <1>1, <2>1, <2>2, <2>3, <2>4 DEF Marked
<1> QED
  <2>1. Numbers(p_sequence, p_expected, p_losses)'
    BY <1>3 DEF Numbers
  <2> QED
    BY <1>2, <1>5, <1>6, <1>7, <2>1 DEF RtpInv

\* The rest of a unit and the part of it that is sent, put together.
LEMMA Splits ==
  ASSUME NEW S, NEW s \in Seq(S), NEW j \in 0..Len(s)
  PROVE  /\ SubSeq(s, 1, j) \in Seq(S) /\ Len(SubSeq(s, 1, j)) = j
         /\ SubSeq(s, j + 1, Len(s)) \in Seq(S) /\ Len(SubSeq(s, j + 1, Len(s))) = Len(s) - j
         /\ SubSeq(s, 1, j) \o SubSeq(s, j + 1, Len(s)) = s
         /\ j = Len(s) => SubSeq(s, 1, j) = s
<1> DEFINE p == SubSeq(s, 1, j)
           q == SubSeq(s, j + 1, Len(s))
<1>0. Len(s) \in Nat /\ j \in Nat /\ j <= Len(s)
  BY LenProperties
<1>1. p \in Seq(S) /\ Len(p) = j /\ \A i \in 1..j : p[i] = s[i]
  BY <1>0
<1>2. q \in Seq(S) /\ Len(q) = Len(s) - j /\ \A i \in 1..(Len(s) - j) : q[i] = s[j + i]
  BY <1>0
<1> HIDE DEF p, q
<1> DEFINE t == p \o q
<1>3. /\ t \in Seq(S) /\ Len(t) = Len(p) + Len(q)
      /\ \A i \in 1..(Len(p) + Len(q)) : t[i] = IF i <= Len(p) THEN p[i] ELSE q[i - Len(p)]
  BY <1>1, <1>2, ConcatProperties
<1> HIDE DEF t
<1>4. ASSUME NEW i \in 1..Len(s) PROVE t[i] = s[i]
  <2>1. i \in 1..(Len(p) + Len(q)) /\ Len(p) = j
    BY <1>0, <1>1, <1>2
  <2>2. CASE i <= j
    <3>1. i \in 1..j /\ t[i] = p[i]
      BY <1>0, <1>3, <2>1, <2>2
    <3> QED
      BY <1>1, <3>1
  <2>3. CASE ~(i <= j)
    <3>1. i - j \in 1..(Len(s) - j) /\ j + (i - j) = i /\ t[i] = q[i - j]
      BY <1>0, <1>3, <2>1, <2>3
    <3> QED
      BY <1>2, <3>1
  <2> QED
    BY <2>2, <2>3
<1>5. Len(t) = Len(s)
  BY <1>0, <1>1, <1>2, <1>3
<1>6. t = s
  BY <1>3, <1>4, <1>5, SeqEqual
<1>7. j = Len(s) => p = s
  BY <1>1, SeqEqual
<1> QED
  BY <1>1, <1>2, <1>6, <1>7 DEF p, q, t

LEMMA HeadAndRest ==
  ASSUME NEW S, NEW s \in Seq(S), s # <<>>
  PROVE  <<s[1]>> \in Seq(S) /\ Tail(s) \in Seq(S) /\ <<s[1]>> \o Tail(s) = s
<1> DEFINE h == <<s[1]>>
           r == Tail(s)
<1>1. s \in Seq(S) /\ Len(s) \in Nat /\ Len(s) > 0
  BY LenProperties, EmptySeq
<1>2. h \in Seq(S) /\ Len(h) \in Nat /\ 0 < Len(h) /\ Len(h) < 2 /\ h[1] = s[1]
  BY <1>1
<1>3. r \in Seq(S) /\ Len(r) = Len(s) - 1 /\ \A i \in 1..Len(r) : r[i] = s[i + 1]
  BY <1>1, HeadTailProperties
<1> HIDE DEF h, r
<1> DEFINE t == h \o r
<1>4. /\ t \in Seq(S) /\ Len(t) = Len(h) + Len(r)
      /\ \A i \in 1..(Len(h) + Len(r)) : t[i] = IF i <= Len(h) THEN h[i] ELSE r[i - Len(h)]
  BY <1>2, <1>3, ConcatProperties
<1> HIDE DEF t
<1>5. Len(t) = Len(s)
  BY <1>1, <1>2, <1>3, <1>4
<1>6. ASSUME NEW i \in 1..Len(s) PROVE t[i] = s[i]
  <2>1. CASE i <= Len(h)
    <3>1. i = 1 /\ i \in 1..(Len(h) + Len(r))
      BY <1>1, <1>2, <1>3, <2>1
    <3> QED
      BY <1>2, <1>4, <2>1, <3>1
  <2>2. CASE ~(i <= Len(h))
    <3>1. i - Len(h) \in 1..Len(r) /\ (i - Len(h)) + 1 = i /\ i \in 1..(Len(h) + Len(r))
      BY <1>1, <1>2, <1>3, <2>2
    <3>2. t[i] = r[i - Len(h)]
      BY <1>4, <2>2, <3>1
    <3> QED
      BY <1>3, <3>1, <3>2
  <2> QED
    BY <2>1, <2>2
<1>7. t = s
  BY <1>1, <1>4, <1>5, <1>6, SeqEqual
<1> QED
  BY <1>2, <1>3, <1>7 DEF h, r, t

LEMMA NextNumber ==
  ASSUME LinksAssumption, NEW s \in 0..(Modulus - 1)
  PROVE  (s + 1) % Modulus = IF s + 1 = Modulus THEN 0 ELSE s + 1
<1>1. Modulus \in Nat \ {0}
  BY DEF LinksAssumption
<1>2. CASE s + 1 = Modulus
  BY <1>1, <1>2
<1>3. CASE s + 1 # Modulus
  <2>1. s + 1 \in 0..(Modulus - 1)
    BY <1>1, <1>3
  <2> QED
    BY <1>1, <1>3, <2>1
<1> QED
  BY <1>2, <1>3

\* What the two ways to send have in common: the packet is lost, or received.
LEMMA PacketGoes ==
  ASSUME RtpInv, LinksAssumption, NEW q, NEW last \in BOOLEAN, P!Packet(q, After(last))
  PROVE  /\ p_marked' = IF p_nal.marker /\ last THEN p_marked \cup {p_begun} ELSE p_marked
         /\ p_sequence' = IF p_sequence + 1 = Modulus THEN 0 ELSE p_sequence + 1
         /\ \/ /\ p_losses < MaxDatagramsLost /\ p_losses' = p_losses + 1
               /\ UNCHANGED <<p_expected, p_building, p_got>>
               /\ p_pc' \in {After(last), "failed"}
            \/ /\ p_losses' = p_losses /\ p_expected' = p_sequence' /\ p_pc' = After(last)
               /\ P!Receive(q)
<1>1. p_sequence' = (p_sequence + 1) % Modulus
  BY DEF P!Packet
<1>2. p_sequence' = IF p_sequence + 1 = Modulus THEN 0 ELSE p_sequence + 1
  BY <1>1, NextNumber DEF RtpInv, Numbers
<1>3. p_marked' = IF p_nal.marker /\ last THEN p_marked \cup {p_begun} ELSE p_marked
  BY DEF P!Packet, After
<1>4. \/ P!Receive(q) /\ p_pc' = After(last) /\ p_losses' = p_losses
      \/ /\ p_losses < MaxDatagramsLost /\ p_losses' = p_losses + 1
         /\ UNCHANGED <<p_expected, p_building, p_got>>
         /\ p_pc' \in {After(last), "failed"}
  BY DEF P!Packet, P!receiver
<1>5. P!Receive(q) => p_expected' = p_sequence'
  BY <1>1 DEF P!Receive
<1> QED
  BY <1>2, <1>3, <1>4, <1>5

LEMMA WholeIsSent ==
  ASSUME RtpInv, LinksAssumption, P!SendWhole
  PROVE  p_pc = "nal" /\ SentPart(TRUE)
<1>1. /\ p_pc = "nal"
      /\ P!Packet([start |-> TRUE, end |-> TRUE, bytes |-> p_nal.bytes], After(TRUE))
      /\ p_nal' = P!Nothing
      /\ UNCHANGED <<p_sent, p_data, p_current, p_begun>>
  BY DEF P!SendWhole, After
<1>2. p_nal.bytes \in Seq(Symbol) /\ p_nal.bytes = p_sent[p_begun]
  BY <1>1 DEF RtpInv, Sending, NalRecord
<1>3. p_nal' \in NalRecord
  BY <1>1 DEF P!Nothing, NalRecord
<1>4. P!Receive([start |-> TRUE, end |-> TRUE, bytes |-> p_nal.bytes]) =>
        /\ p_got' = Append(p_got, [unit |-> p_begun, bytes |-> p_nal.bytes])
        /\ p_building' = <<>>
  BY DEF P!Receive, P!Completes
<1>5. p_building \in Seq(Symbol) /\ <<>> \in Seq(Symbol)
  BY DEF RtpInv, Sending
<1>6. /\ p_marked' = IF p_nal.marker /\ TRUE THEN p_marked \cup {p_begun} ELSE p_marked
      /\ p_sequence' = IF p_sequence + 1 = Modulus THEN 0 ELSE p_sequence + 1
      /\ \/ /\ p_losses < MaxDatagramsLost /\ p_losses' = p_losses + 1
            /\ UNCHANGED <<p_expected, p_building, p_got>>
            /\ p_pc' \in {After(TRUE), "failed"}
         \/ /\ p_losses' = p_losses /\ p_expected' = p_sequence' /\ p_pc' = After(TRUE)
            /\ P!Receive([start |-> TRUE, end |-> TRUE, bytes |-> p_nal.bytes])
  BY <1>1, <1>2, PacketGoes
<1>7. p_building' \in Seq(Symbol)
  BY <1>4, <1>5, <1>6
<1> QED
  BY <1>1, <1>2, <1>3, <1>4, <1>6, <1>7 DEF SentPart

LEMMA FragmentIsSent ==
  ASSUME RtpInv, LinksAssumption, P!SendFragment
  PROVE  p_pc = "fragment" /\ \E last \in BOOLEAN : SentPart(last)
<1> DEFINE s == p_nal.bytes
           rest == IF p_nal.first THEN Tail(s) ELSE s
           chunk == IF Len(rest) > Capacity THEN Capacity ELSE Len(rest)
           last == chunk = Len(rest)
           payload == SubSeq(rest, 1, chunk)
           bytes == IF p_nal.first THEN <<s[1]>> \o payload ELSE payload
           remaining == SubSeq(rest, chunk + 1, Len(rest))
<1>1. /\ p_pc = "fragment"
      /\ P!Packet([start |-> p_nal.first, end |-> last, bytes |-> bytes], After(last))
      /\ p_nal' = IF last THEN P!Nothing
                  ELSE [p_nal EXCEPT !.first = FALSE, !.bytes = remaining]
      /\ UNCHANGED <<p_sent, p_data, p_current, p_begun>>
  BY DEF P!SendFragment, After
<1>2. p_nal \in NalRecord /\ s \in Seq(Symbol) /\ p_nal.first \in BOOLEAN /\ p_building \in Seq(Symbol)
  BY DEF RtpInv, Sending, NalRecord
<1>3. Capacity \in Nat \ {0}
  BY DEF LinksAssumption
<1>4. p_nal.first => s # <<>> /\ s = p_sent[p_begun] /\ Len(s) > Capacity
  <2>1. p_nal.first => s = p_sent[p_begun] /\ Len(s) > Capacity
    BY <1>1 DEF RtpInv, Sending
  <2>2. s = <<>> => Len(s) = 0
    BY <1>2
  <2> QED
    BY <1>3, <2>1, <2>2
<1>5. rest \in Seq(Symbol) /\ Len(rest) \in Nat
  <2>1. CASE p_nal.first
    <3>1. Tail(s) \in Seq(Symbol)
      BY <1>2, <1>4, <2>1, HeadTailProperties
    <3> QED
      BY <2>1, <3>1, LenProperties
  <2>2. CASE ~p_nal.first
    BY <1>2, <2>2, LenProperties
  <2> QED
    BY <2>1, <2>2
<1> HIDE DEF rest
<1>6. chunk \in 0..Len(rest) /\ last \in BOOLEAN
  BY <1>3, <1>5
<1> HIDE DEF chunk
<1>7. /\ payload \in Seq(Symbol) /\ remaining \in Seq(Symbol) /\ payload \o remaining = rest
      /\ last => payload = rest
  BY <1>5, <1>6, Splits, ZenonT(40)
<1> HIDE DEF payload, remaining, last
<1>8. /\ bytes \in Seq(Symbol)
      /\ p_nal.first => bytes \o remaining = s /\ bytes # <<>> /\ (last => bytes = s)
      /\ ~p_nal.first => bytes \o remaining = s /\ (last => bytes = s)
  <2>1. CASE p_nal.first
    <3> DEFINE h == <<s[1]>>
    <3>1. h \in Seq(Symbol) /\ h \o rest = s
      BY <1>2, <1>4, <2>1, HeadAndRest DEF rest
    <3>2. Len(h) \in Nat /\ 0 < Len(h)
      OBVIOUS
    <3>3. bytes = h \o payload
      BY <2>1
    <3> HIDE DEF h, bytes
    <3>4. payload \in Seq(Symbol) /\ remaining \in Seq(Symbol) /\ payload \o remaining = rest
      BY <1>7
    <3>5. (h \o payload) \o remaining = h \o (payload \o remaining)
      <4>1. \A x \in Seq(Symbol), y \in Seq(Symbol), z \in Seq(Symbol) : (x \o y) \o z = x \o (y \o z)
        BY ConcatAssociative
      <4> QED
        BY <3>1, <3>4, <4>1, Zenon
    <3>6. h \o payload \in Seq(Symbol) /\ Len(h \o payload) = Len(h) + Len(payload)
      BY <3>1, <3>4, ConcatProperties
    <3>7. Len(payload) \in Nat /\ Len(<<>>) = 0
      BY <3>4, LenProperties
    <3>8. bytes # <<>>
      BY <3>2, <3>3, <3>6, <3>7
    <3>9. last => h \o payload = s
      BY <1>7, <3>1
    <3> QED
      BY <2>1, <3>1, <3>3, <3>4, <3>5, <3>6, <3>8, <3>9
  <2>2. CASE ~p_nal.first
    BY <1>7, <2>2 DEF rest
  <2> QED
    BY <2>1, <2>2
<1> HIDE DEF bytes
<1>9. /\ p_nal' \in NalRecord
      /\ ~last => ~p_nal'.first /\ p_nal'.marker = p_nal.marker /\ p_nal'.bytes = remaining
  <2>1. CASE last
    BY <1>1, <2>1 DEF P!Nothing, NalRecord
  <2>2. CASE ~last
    <3>1. p_nal' = [p_nal EXCEPT !.first = FALSE, !.bytes = remaining]
      BY <1>1, <2>2
    <3> QED
      BY <1>2, <1>7, <2>2, <3>1 DEF NalRecord
  <2> QED
    BY <2>1, <2>2
<1> DEFINE q == [start |-> p_nal.first, end |-> last, bytes |-> bytes]
<1>10. /\ p_marked' = IF p_nal.marker /\ last THEN p_marked \cup {p_begun} ELSE p_marked
       /\ p_sequence' = IF p_sequence + 1 = Modulus THEN 0 ELSE p_sequence + 1
       /\ \/ /\ p_losses < MaxDatagramsLost /\ p_losses' = p_losses + 1
             /\ UNCHANGED <<p_expected, p_building, p_got>>
             /\ p_pc' \in {After(last), "failed"}
          \/ /\ p_losses' = p_losses /\ p_expected' = p_sequence' /\ p_pc' = After(last)
             /\ P!Receive(q)
  <2>1. P!Packet(q, After(last))
    BY <1>1
  <2> HIDE DEF q
  <2> QED
    BY <1>6, <2>1, PacketGoes
<1>11. ASSUME P!Receive(q)
       PROVE  /\ p_building' \in Seq(Symbol)
              /\ IF last
                 THEN \/ p_got' = Append(p_got, [unit |-> p_begun, bytes |-> p_sent[p_begun]])
                      \/ p_got' = p_got /\ p_losses # 0
                 ELSE /\ p_got' = p_got
                      /\ \/ p_building' = <<>> /\ p_losses # 0
                         \/ p_building' # <<>> /\ p_building' \o p_nal'.bytes = p_sent[p_begun]
  <2>1. /\ p_nal.first /\ last => P!Completes(bytes)
        /\ p_nal.first /\ ~last => p_building' = bytes /\ p_got' = p_got
    BY <1>11 DEF P!Receive, q
  <2> DEFINE held == IF p_sequence = p_expected THEN p_building ELSE <<>>
  <2>2. ~p_nal.first =>
          /\ held = <<>> => p_building' = <<>> /\ p_got' = p_got
          /\ held # <<>> /\ last => P!Completes(held \o bytes)
          /\ held # <<>> /\ ~last => p_building' = held \o bytes /\ p_got' = p_got
    BY <1>11 DEF P!Receive, q
  <2>3. held \in Seq(Symbol) /\ <<>> \in Seq(Symbol)
    BY <1>2
  <2>4. ~p_nal.first /\ held # <<>> => held \o s = p_sent[p_begun]
    BY <1>1 DEF RtpInv, Sending
  <2>5. ~p_nal.first /\ held = <<>> => p_losses # 0
    BY <1>1 DEF RtpInv, Received
  <2> HIDE DEF held
  <2>6. CASE p_nal.first
    BY <1>2, <1>4, <1>8, <1>9, <2>1, <2>3, <2>6 DEF P!Completes
  <2>7. CASE ~p_nal.first /\ held = <<>>
    BY <2>2, <2>3, <2>5, <2>7
  <2>8. CASE ~p_nal.first /\ held # <<>>
    <3>1. remaining \in Seq(Symbol)
      BY <1>7
    <3>2. held \o bytes \in Seq(Symbol) /\ (held \o bytes) \o remaining = held \o (bytes \o remaining)
      BY <1>8, <2>3, <3>1, ConcatAssociative, ConcatProperties, SMTT(30)
    <3>3. held \o bytes # <<>>
      BY <1>8, <2>3, <2>8, ConcatProperties, EmptySeq
    <3>4. CASE last
      BY <1>8, <2>2, <2>3, <2>4, <2>8, <3>4 DEF P!Completes
    <3>5. CASE ~last
      BY <1>8, <1>9, <2>2, <2>4, <2>8, <3>2, <3>3, <3>5
    <3> QED
      BY <3>4, <3>5
  <2> QED
    BY <2>6, <2>7, <2>8
<1>12. SentPart(last)
  <2>1. p_building' \in Seq(Symbol)
    BY <1>2, <1>10, <1>11
  <2> HIDE DEF q
  <2> QED
    BY <1>1, <1>9, <1>10, <1>11, <2>1 DEF SentPart
<1> QED
  BY <1>1, <1>6, <1>12

LEMMA ScanKept ==
  ASSUME RtpInv, LinksAssumption, P!Scan
  PROVE  RtpInv'
<1>1. PICK at, from : Cut(at, from) /\ p_begun \in 0..Len(p_sent) /\ p_current = at[p_begun + 1]
  BY DEF RtpInv, Place
<1>2. /\ p_pc = "scan"
      /\ UNCHANGED <<p_sent, p_data, p_sequence, p_expected, p_building, p_got, p_marked, p_losses>>
  BY DEF P!Scan, P!receiver
<1>3. Len(p_sent) \in Nat \ {0} /\ p_sent \in Seq(Seq(Symbol)) /\ p_begun \in Nat
  BY <1>1 DEF Cut
<1>4. Cut(at, from)'
  BY <1>1, <1>2, SMTT(30) DEF Cut, P!StartCode, P!CodeLength
<1>5. CASE p_begun = Len(p_sent)
  <2>1. p_pc' = "done" /\ UNCHANGED <<p_current, p_nal, p_begun>>
    BY <1>1, <1>5, ScanFinds
  <2>2. Place'
    BY <1>1, <1>2, <1>4, <2>1 DEF Place
  <2>3. Sending'
    BY <1>2, <1>5, <2>1 DEF RtpInv, Sending
  <2>4. Received'
    BY <1>2, <1>5, <2>1 DEF RtpInv, Received
  <2>5. Marked'
    BY <1>2, <1>5, <2>1 DEF RtpInv, Marked
  <2>6. Numbers(p_sequence, p_expected, p_losses)'
    BY <1>2 DEF RtpInv, Numbers
  <2> QED
    BY <2>2, <2>3, <2>4, <2>5, <2>6 DEF RtpInv
<1>6. CASE p_begun < Len(p_sent)
  <2> DEFINE u == p_begun + 1
  <2>1. /\ p_begun' = u /\ p_current' = at[p_begun' + 1]
        /\ p_nal' = [bytes |-> p_sent[u], first |-> TRUE, marker |-> u = Len(p_sent)]
        /\ p_pc' = IF Len(p_sent[u]) <= Capacity THEN "nal" ELSE "fragment"
    BY <1>1, <1>6, ScanFinds
  <2>2. u \in 1..Len(p_sent) /\ p_sent[u] \in Seq(Symbol) /\ u - 1 = p_begun /\ u # 0
    BY <1>3, <1>6
  <2> HIDE DEF u
  <2>3. Place'
    BY <1>1, <1>2, <1>3, <1>4, <2>1, <2>2 DEF Place
  <2>4. /\ p_nal' \in NalRecord /\ p_nal'.first /\ p_nal'.bytes = p_sent[u]
        /\ p_nal'.marker <=> u = Len(p_sent)
    BY <2>1, <2>2 DEF NalRecord
  <2>5. p_pc' \in {"nal", "fragment"} /\ (p_pc' = "fragment" => Len(p_nal'.bytes) > Capacity)
    <3>1. Len(p_sent[u]) \in Nat /\ Capacity \in Nat
      BY <2>2, LenProperties DEF LinksAssumption
    <3> QED
      BY <2>1, <2>4, <3>1
  <2>6. Sending'
    BY <1>2, <1>3, <2>1, <2>2, <2>4, <2>5 DEF RtpInv, Sending
  <2>7. Received'
    BY <1>2, <2>1, <2>2, <2>4, <2>5 DEF RtpInv, Received
  <2>8. Marked'
    BY <1>2, <2>5 DEF RtpInv, Marked
  <2>9. Numbers(p_sequence, p_expected, p_losses)'
    BY <1>2 DEF RtpInv, Numbers
  <2> QED
    BY <2>3, <2>6, <2>7, <2>8, <2>9 DEF RtpInv
<1> QED
  BY <1>1, <1>3, <1>5, <1>6

LEMMA RtpKept == RtpInv /\ LinksAssumption /\ [P!Next]_p_vars => RtpInv'
<1> SUFFICES ASSUME RtpInv, LinksAssumption, [P!Next]_p_vars PROVE RtpInv'
  OBVIOUS
<1>1. CASE P!Scan
  BY <1>1, ScanKept
<1>2. CASE P!SendWhole
  BY <1>2, WholeIsSent, PartKept
<1>3. CASE P!SendFragment
  BY <1>3, FragmentIsSent, PartKept
<1>4. CASE UNCHANGED p_vars
  <2>1. UNCHANGED <<p_sent, p_data, p_current, p_nal, p_pc, p_sequence, p_expected, p_building,
                    p_begun, p_got, p_marked, p_losses>>
    BY <1>4 DEF p_vars
  <2>2. Place'
    <3>1. PICK at, from : Cut(at, from) /\ p_begun \in 0..Len(p_sent) /\ p_current = at[p_begun + 1]
      BY DEF RtpInv, Place
    <3>2. Cut(at, from)'
      BY <2>1, <3>1, SMTT(30) DEF Cut, P!StartCode, P!CodeLength
    <3> QED
      BY <2>1, <3>1, <3>2 DEF Place
  <2>3. Numbers(p_sequence, p_expected, p_losses)' /\ Marked'
    BY <2>1 DEF RtpInv, Numbers, Marked
  <2>4. Sending' /\ Received'
    BY <2>1 DEF RtpInv, Sending, Received
  <2> QED
    BY <2>2, <2>3, <2>4 DEF RtpInv
<1> QED
  BY <1>1, <1>2, <1>3, <1>4 DEF P!Next
-----------------------------------------------------------------------------
(***************************************************************************)
(* The bytes of the gimbal. What waits in rx_buffer for the rest of a      *)
(* packet is shorter than a packet, and a CAN frame adds at most its own   *)
(* length. The bytes on their way stay in the order in which they were     *)
(* sent, and all bytes of a plain packet that is not delivered yet are     *)
(* among them, unless one of them was lost.                                *)
(***************************************************************************)
Byte == [packet : Nat, at : Nat, size : Nat, plain : BOOLEAN, claim : Nat]
CanFrame == {s \in Seq(Byte) : Len(s) <= ChunkSize}

Before(x, y) == x.packet < y.packet \/ (x.packet = y.packet /\ x.at < y.at)
Ascending(s) == \A i, j \in DOMAIN s : i < j => Before(s[i], s[j])
Precedes(s, t) == \A i \in DOMAIN s, j \in DOMAIN t : Before(s[i], t[j])
Ordered(bus) ==
  \A k \in DOMAIN bus : /\ Ascending(bus[k])
                        /\ \A l \in DOMAIN bus : k < l => Precedes(bus[k], bus[l])
Sequel(rx, bus) == Ascending(rx) /\ Ordered(bus) /\ \A k \in DOMAIN bus : Precedes(rx, bus[k])

Read(rx) == {rx[i] : i \in DOMAIN rx}
OnBus(bus) == UNION {Read(bus[k]) : k \in DOMAIN bus}

\* A byte of the set way is what the gimbal sent, and its packet looks the same from all of them.
Genuine(way, sent) ==
  \A x \in way : /\ x.packet \in 1..sent /\ x.at \in 1..x.size /\ x.size \in MinSize..MaxSize
                 /\ x.at = 1 => x.claim = x.size
                 /\ \A y \in way : x.packet = y.packet => x.size = y.size /\ x.plain = y.plain

Gapped(way, p, n) == \E i \in 1..n : \A y \in way : ~(y.packet = p /\ y.at = i)
WholeIn(way, p) ==
  \E b \in way : b.packet = p /\ \A i \in 1..b.size : \E x \in way : x.packet = p /\ x.at = i

\* The plain packets that are expected are those of which no byte was lost.
ExpectsWhole(way, expected) ==
  \A x \in way : /\ x.packet \in Read(expected) => x.plain
                 /\ x.plain => x.packet \in Read(expected) \/ Gapped(way, x.packet, x.size)

DeliversInOrder(way, delivered, expected, sent) ==
  /\ delivered \in Seq(Nat) /\ expected \in Seq(Nat)
  /\ \A k \in DOMAIN expected : expected[k] \in 1..sent
  /\ \A k, l \in DOMAIN expected : k < l => expected[k] < expected[l]
  /\ Len(delivered) <= Len(expected)
  /\ \A k \in DOMAIN delivered : delivered[k] = expected[k]
  /\ \A k \in DOMAIN delivered : \A x \in way : delivered[k] < x.packet
  /\ \A k \in (Len(delivered) + 1)..Len(expected) : WholeIn(way, expected[k])

WayInv(way, delivered, expected, sent) ==
  /\ Genuine(way, sent) /\ ExpectsWhole(way, expected)
  /\ DeliversInOrder(way, delivered, expected, sent)

BusTyping ==
  /\ f_sent \in Nat
  /\ f_bus \in Seq(CanFrame)
  /\ f_rx \in Seq(Byte) /\ Len(f_rx) <= MaxSize - 1 + ChunkSize

BusInv ==
  /\ BusTyping /\ Sequel(f_rx, f_bus)
  /\ WayInv(Read(f_rx) \cup OnBus(f_bus), f_delivered, f_expected, f_sent)

\* A set of places has a first one.
LEMMA FirstOf ==
  ASSUME NEW S \in SUBSET Nat, S # {}
  PROVE  \E i \in S : \A j \in S : i <= j
<1> DEFINE Less == OpToRel(<, Nat)
<1>1. \E x \in S : \A y \in S : ~(<<y, x>> \in Less)
  <2>1. IsWellFoundedOn(Less, Nat)
    BY NatLessThanWellFounded
  <2> HIDE DEF Less
  <2> QED
    BY <2>1, WFMin
<1>2. \A x \in Nat, y \in Nat : <<y, x>> \notin Less => x <= y
  BY DEF OpToRel
<1> QED
  BY <1>1, <1>2

LEMMA BusSuffices == BusInv /\ LinksAssumption => F!NoPacketSwallowed /\ F!BufferSuffices
<1> SUFFICES ASSUME BusInv, LinksAssumption PROVE F!NoPacketSwallowed /\ F!BufferSuffices
  OBVIOUS
<1>1. F!BufferSuffices
  <2> Len(f_rx) \in Nat
    BY LenProperties DEF BusInv, BusTyping
  <2> QED
    BY DEF BusInv, BusTyping, LinksAssumption, F!BufferSuffices
<1>2. F!NoPacketSwallowed
  <2> DEFINE way == Read(f_rx) \cup OnBus(f_bus)
  <2>1. F!OnItsWay = way
    BY DEF F!OnItsWay, F!Range, Read, OnBus
  <2>2. DeliversInOrder(way, f_delivered, f_expected, f_sent)
    BY DEF BusInv, WayInv
  <2> HIDE DEF way
  <2>3. \A k \in (Len(f_delivered) + 1)..Len(f_expected) : F!WholeOnItsWay(f_expected[k])
    BY <2>1, <2>2, ZenonT(40) DEF DeliversInOrder, WholeIn, F!WholeOnItsWay
  <2>4. F!IsPrefix(f_delivered, f_expected)
    <3>1. /\ f_delivered \in Seq(Nat) /\ f_expected \in Seq(Nat) /\ Len(f_delivered) \in Nat
          /\ Len(f_expected) \in Nat /\ Len(f_delivered) <= Len(f_expected)
          /\ \A k \in DOMAIN f_delivered : f_delivered[k] = f_expected[k]
      BY <2>2, LenProperties DEF DeliversInOrder
    <3> DEFINE s == SubSeq(f_delivered, 1, Len(f_delivered))
               t == SubSeq(f_expected, 1, Len(f_delivered))
    <3>2. s \in Seq(Nat) /\ t \in Seq(Nat) /\ Len(s) = Len(t) /\ Len(s) = Len(f_delivered)
      BY <3>1
    <3>3. \A k \in 1..Len(s) : s[k] = t[k]
      BY <3>1
    <3>4. s = t
      BY <3>2, <3>3, SeqEqual
    <3> QED
      BY <3>1, <3>4 DEF F!IsPrefix
  <2> QED
    BY <2>3, <2>4 DEF F!NoPacketSwallowed
<1> QED
  BY <1>1, <1>2
-----------------------------------------------------------------------------
\* Less of the way, and none of a packet that is still to be delivered: nothing else changes.
LEMMA WayShrinks ==
  ASSUME NEW way \in SUBSET Byte, NEW less \in SUBSET way, NEW delivered, NEW expected, NEW sent,
         WayInv(way, delivered, expected, sent),
         \A x \in way : x \in less \/ \A k \in (Len(delivered) + 1)..Len(expected) : x.packet # expected[k]
  PROVE  WayInv(less, delivered, expected, sent)
<1>1. Genuine(less, sent)
  BY Zenon DEF WayInv, Genuine
<1>2. ExpectsWhole(less, expected)
  BY ZenonT(40) DEF WayInv, ExpectsWhole, Gapped
<1>3. ASSUME NEW k \in (Len(delivered) + 1)..Len(expected) PROVE WholeIn(less, expected[k])
  <2>1. WholeIn(way, expected[k])
    BY <1>3 DEF WayInv, DeliversInOrder
  <2>2. \A x \in way : x.packet = expected[k] => x \in less
    BY <1>3
  <2> QED
    BY <2>1, <2>2, Zenon DEF WholeIn
<1>4. DeliversInOrder(less, delivered, expected, sent)
  BY <1>3 DEF WayInv, DeliversInOrder
<1> QED
  BY <1>1, <1>2, <1>4 DEF WayInv
-----------------------------------------------------------------------------
\* Bytes taken from the front of rx_buffer: the rest keeps its order.
LEMMA FrontGoes ==
  ASSUME NEW rx \in Seq(Byte), NEW m \in 0..Len(rx), NEW bus \in Seq(CanFrame), Sequel(rx, bus)
  PROVE  LET rest == SubSeq(rx, m + 1, Len(rx)) IN
         /\ rest \in Seq(Byte) /\ Len(rest) = Len(rx) - m
         /\ \A i \in 1..Len(rest) : rest[i] = rx[m + i]
         /\ Sequel(rest, bus)
         /\ Read(rest) \subseteq Read(rx)
         /\ \A x \in Read(rx) : x \in Read(rest) \/ \E i \in 1..m : x = rx[i]
<1> DEFINE rest == SubSeq(rx, m + 1, Len(rx))
<1>1. /\ Len(rx) \in Nat /\ rest \in Seq(Byte) /\ Len(rest) = Len(rx) - m
      /\ \A i \in 1..Len(rest) : rest[i] = rx[m + i]
  BY LenProperties, SMTT(30)
<1> HIDE DEF rest
<1>2. DOMAIN rest = 1..Len(rest) /\ DOMAIN rx = 1..Len(rx)
  BY <1>1, LenProperties
<1>3. \A i \in DOMAIN rest : m + i \in DOMAIN rx /\ rest[i] = rx[m + i]
  BY <1>1, <1>2
<1>4. Ascending(rest)
  <2>1. Ascending(rx)
    BY DEF Sequel
  <2>2. \A i, j \in DOMAIN rest : i < j => m + i < m + j
    BY <1>1, <1>2
  <2> QED
    BY <1>3, <2>1, <2>2 DEF Ascending
<1>5. \A k \in DOMAIN bus : Precedes(rest, bus[k])
  BY <1>3 DEF Sequel, Precedes
<1>6. Read(rest) \subseteq Read(rx)
  BY <1>3 DEF Read
<1>7. ASSUME NEW x \in Read(rx) PROVE x \in Read(rest) \/ \E i \in 1..m : x = rx[i]
  <2>1. PICK i \in 1..Len(rx) : x = rx[i]
    BY <1>2 DEF Read
  <2>2. CASE i <= m
    BY <2>1, <2>2
  <2>3. CASE i > m
    <3>1. i - m \in 1..Len(rest) /\ m + (i - m) = i
      BY <1>1, <2>3
    <3> QED
      BY <1>1, <1>2, <2>1, <3>1 DEF Read
  <2> QED
    BY <1>1, <2>2, <2>3
<1> QED
  BY <1>1, <1>4, <1>5, <1>6, <1>7 DEF Sequel, rest

\* A CAN frame that is read moves from the bus to the end of rx_buffer.
LEMMA FrameMoves ==
  ASSUME NEW rx \in Seq(Byte), NEW bus \in Seq(CanFrame), bus # <<>>, Sequel(rx, bus)
  PROVE  /\ Sequel(rx \o Head(bus), Tail(bus))
         /\ Read(rx \o Head(bus)) \cup OnBus(Tail(bus)) = Read(rx) \cup OnBus(bus)
<1> DEFINE h == Head(bus)
           t == Tail(bus)
           n == Len(rx)
           s == rx \o h
<1>1. /\ h \in CanFrame /\ h = bus[1] /\ t \in Seq(CanFrame) /\ Len(t) = Len(bus) - 1
      /\ \A k \in 1..Len(t) : t[k] = bus[k + 1]
      /\ Len(bus) \in Nat /\ Len(t) \in Nat /\ DOMAIN bus = 1..Len(bus) /\ DOMAIN t = 1..Len(t)
  BY HeadTailProperties, LenProperties
<1>2. h \in Seq(Byte) /\ Len(h) \in Nat /\ n \in Nat /\ DOMAIN h = 1..Len(h) /\ DOMAIN rx = 1..n
  BY <1>1, LenProperties DEF CanFrame
<1>3. /\ s \in Seq(Byte) /\ Len(s) = n + Len(h) /\ DOMAIN s = 1..Len(s)
      /\ \A i \in 1..Len(s) : s[i] = IF i <= n THEN rx[i] ELSE h[i - n]
  <2> HIDE DEF h
  <2> QED
    BY <1>2, ConcatProperties, LenProperties
<1> HIDE DEF h, t, n, s
<1>4. \A k \in DOMAIN t : k + 1 \in DOMAIN bus /\ t[k] = bus[k + 1]
  BY <1>1
<1>5. 1 \in DOMAIN bus /\ \A k \in DOMAIN t : 1 < k + 1
  BY <1>1
<1>6. \A i \in DOMAIN s : \/ i \in DOMAIN rx /\ s[i] = rx[i]
                          \/ i - n \in DOMAIN h /\ s[i] = h[i - n] /\ ~(i \in DOMAIN rx)
  BY <1>2, <1>3
<1>7. Ascending(rx) /\ Ascending(h) /\ Precedes(rx, h)
  BY <1>1, <1>5 DEF Sequel, Ordered
<1>8. Ascending(s)
  <2>1. ASSUME NEW i \in DOMAIN s, NEW j \in DOMAIN s, i < j PROVE Before(s[i], s[j])
    <3>1. CASE j \in DOMAIN rx
      <4>1. i \in DOMAIN rx
        BY <1>2, <1>3, <2>1, <3>1
      <4>2. s[i] = rx[i] /\ s[j] = rx[j]
        BY <1>6, <3>1, <4>1
      <4> QED
        BY <1>7, <2>1, <3>1, <4>1, <4>2 DEF Ascending
    <3>2. CASE i \in DOMAIN rx /\ ~(j \in DOMAIN rx)
      BY <1>6, <1>7, <3>2 DEF Precedes
    <3>3. CASE ~(i \in DOMAIN rx) /\ ~(j \in DOMAIN rx)
      <4>1. i - n \in DOMAIN h /\ j - n \in DOMAIN h /\ s[i] = h[i - n] /\ s[j] = h[j - n]
        BY <1>6, <3>3
      <4>2. i - n < j - n
        BY <1>2, <1>3, <2>1
      <4> QED
        BY <1>7, <4>1, <4>2 DEF Ascending
    <3> QED
      BY <3>1, <3>2, <3>3
  <2> QED
    BY <2>1 DEF Ascending
<1>9. Ordered(t)
  <2>1. \A k, l \in DOMAIN t : k < l => k + 1 < l + 1
    BY <1>1
  <2>2. Ordered(bus)
    BY DEF Sequel
  <2> QED
    BY <1>4, <2>1, <2>2 DEF Ordered
<1>10. ASSUME NEW k \in DOMAIN t PROVE Precedes(s, t[k])
  <2>1. Precedes(rx, t[k]) /\ Precedes(h, t[k])
    BY <1>1, <1>4, <1>5 DEF Sequel, Ordered
  <2> QED
    BY <1>6, <2>1 DEF Precedes
<1>11. Read(s) = Read(rx) \cup Read(h)
  <2>1. Read(s) \subseteq Read(rx) \cup Read(h)
    BY <1>6 DEF Read
  <2>2. \A i \in DOMAIN rx : i \in DOMAIN s /\ s[i] = rx[i]
    BY <1>2, <1>3
  <2>3. \A i \in DOMAIN h : n + i \in DOMAIN s /\ s[n + i] = h[i]
    BY <1>2, <1>3
  <2>4. Read(rx) \subseteq Read(s)
    BY <2>2 DEF Read
  <2>5. Read(h) \subseteq Read(s)
    BY <2>3 DEF Read
  <2> QED
    BY <2>1, <2>4, <2>5
<1>12. OnBus(bus) = Read(h) \cup OnBus(t)
  <2>1. \A k \in DOMAIN bus : k = 1 \/ (k - 1 \in DOMAIN t /\ t[k - 1] = bus[k])
    BY <1>1
  <2>2. OnBus(bus) \subseteq Read(h) \cup OnBus(t)
    BY <1>1, <2>1 DEF OnBus
  <2>3. OnBus(t) \subseteq OnBus(bus) /\ Read(h) \subseteq OnBus(bus)
    BY <1>1, <1>4, <1>5 DEF OnBus
  <2> QED
    BY <2>2, <2>3
<1> QED
  BY <1>8, <1>9, <1>10, <1>11, <1>12 DEF Sequel, h, t, s

\* The way is one of bytes.
LEMMA WayTyping ==
  ASSUME NEW rx \in Seq(Byte), NEW bus \in Seq(CanFrame)
  PROVE  Read(rx) \subseteq Byte /\ OnBus(bus) \subseteq Byte
<1>1. ASSUME NEW s \in Seq(Byte) PROVE Read(s) \subseteq Byte
  BY LenProperties DEF Read
<1>2. \A k \in DOMAIN bus : bus[k] \in Seq(Byte)
  BY LenProperties DEF CanFrame
<1> QED
  BY <1>1, <1>2 DEF OnBus
-----------------------------------------------------------------------------
ToDeliver(p, delivered, expected) == \E k \in (Len(delivered) + 1)..Len(expected) : p = expected[k]

\* A byte of a packet that is still to be delivered is in rx_buffer together with its first one.
LEMMA StartIsRead ==
  ASSUME NEW rx \in Seq(Byte), NEW bus \in Seq(CanFrame), Sequel(rx, bus),
         NEW delivered, NEW expected, NEW sent,
         WayInv(Read(rx) \cup OnBus(bus), delivered, expected, sent),
         NEW i \in DOMAIN rx, ToDeliver(rx[i].packet, delivered, expected)
  PROVE  \E j \in 1..i : /\ rx[j].packet = rx[i].packet /\ rx[j].at = 1
                         /\ rx[j].claim = rx[j].size /\ rx[j].claim \in MinSize..MaxSize
                         /\ rx[j].claim # F!NoClaim
<1> DEFINE way == Read(rx) \cup OnBus(bus)
           x == rx[i]
<1>1. way \subseteq Byte
  BY WayTyping
<1>2. x \in way /\ DOMAIN rx = 1..Len(rx) /\ Len(rx) \in Nat
  BY LenProperties DEF Read
<1> HIDE DEF x
<1>3. WholeIn(way, x.packet)
  BY DEF ToDeliver, WayInv, DeliversInOrder, x
<1>4. PICK b \in way :
        b.packet = x.packet /\ \A k \in 1..b.size : \E y \in way : y.packet = x.packet /\ y.at = k
  BY <1>3 DEF WholeIn
<1>5. Genuine(way, sent)
  BY DEF WayInv
<1>6. 1 \in 1..b.size
  <2>1. b \in Byte /\ b.at \in 1..b.size
    BY <1>1, <1>4, <1>5 DEF Genuine
  <2>2. b.size \in Nat /\ b.at \in Nat
    BY <2>1 DEF Byte
  <2> QED
    BY <2>1, <2>2
<1>7. PICK y \in way : y.packet = x.packet /\ y.at = 1
  BY <1>4, <1>6
<1>8. y.claim = y.size /\ y.size \in MinSize..MaxSize
  BY <1>5, <1>7 DEF Genuine
<1>9. ~Before(x, y)
  <2>1. x.at \in 1..x.size
    BY <1>2, <1>5 DEF Genuine
  <2>2. x \in Byte
    BY <1>1, <1>2
  <2>3. x.packet \in Nat /\ x.at \in Nat /\ x.size \in Nat
    BY <2>2 DEF Byte
  <2> QED
    BY <1>7, <2>1, <2>3 DEF Before
<1>10. y \notin OnBus(bus)
  <2>1. ASSUME NEW k \in DOMAIN bus, NEW j \in DOMAIN bus[k] PROVE Before(x, bus[k][j])
    BY DEF Sequel, Precedes, x
  <2> QED
    BY <1>9, <2>1 DEF OnBus, Read
<1>11. PICK j \in DOMAIN rx : rx[j] = y
  BY <1>7, <1>10 DEF Read
<1>12. j <= i
  <2>1. i < j => Before(x, y)
    BY <1>11 DEF Sequel, Ascending, x
  <2> QED
    BY <1>2, <1>9, <1>11, <2>1
<1>13. j \in 1..i
  BY <1>2, <1>11, <1>12
<1>14. y.claim # F!NoClaim
  BY <1>8, LinksAssumption DEF LinksAssumption, F!NoClaim
<1> QED
  BY <1>7, <1>8, <1>11, <1>13, <1>14 DEF x

\* Where rx_buffer starts with the first byte of such a packet, and is as long as the packet, it
\* starts with the packet.
LEMMA PacketFollows ==
  ASSUME NEW rx \in Seq(Byte), NEW bus \in Seq(CanFrame), Sequel(rx, bus),
         NEW delivered, NEW expected, NEW sent,
         WayInv(Read(rx) \cup OnBus(bus), delivered, expected, sent),
         1 \in DOMAIN rx, rx[1].at = 1, Len(rx) >= rx[1].size,
         ToDeliver(rx[1].packet, delivered, expected)
  PROVE  \A i \in 1..rx[1].size : rx[i].packet = rx[1].packet /\ rx[i].at = i
<1> DEFINE way == Read(rx) \cup OnBus(bus)
           p == rx[1].packet
           n == rx[1].size
           Right(i) == rx[i].packet = p /\ rx[i].at = i
           wrong == {i \in 1..n : ~Right(i)}
<1>1. way \subseteq Byte
  BY WayTyping
<1>2. rx[1] \in way /\ DOMAIN rx = 1..Len(rx) /\ Len(rx) \in Nat
  BY LenProperties DEF Read
<1>3. WholeIn(way, p)
  BY DEF ToDeliver, WayInv, DeliversInOrder
<1>4. PICK b \in way : b.packet = p /\ \A k \in 1..b.size : \E y \in way : y.packet = p /\ y.at = k
  BY <1>3 DEF WholeIn
<1>5. Genuine(way, sent) /\ Ascending(rx) /\ \A k \in DOMAIN bus : Precedes(rx, bus[k])
  BY DEF WayInv, Sequel
<1>6. b.size = n
  BY <1>2, <1>4, <1>5 DEF Genuine
<1>7. n \in Nat /\ n <= Len(rx) /\ p \in Nat
  BY <1>1, <1>2 DEF Byte
<1> HIDE DEF way, n
<1>8. ASSUME wrong # {} PROVE FALSE
  <2>1. wrong \subseteq Nat
    BY <1>7
  <2>2. PICK i \in wrong : \A j \in wrong : i <= j
    BY <1>8, <2>1, FirstOf
  <2>3. i \in 1..n /\ ~Right(i) /\ i # 1
    <3>1. Right(1)
      OBVIOUS
    <3> QED
      BY <2>2, <3>1
  <2>4. i - 1 \in 1..n /\ i - 1 \in DOMAIN rx /\ i \in DOMAIN rx /\ i - 1 < i
    BY <1>2, <1>7, <2>3
  <2>5. Right(i - 1)
    <3>1. i - 1 \notin wrong
      BY <2>1, <2>2, <2>4
    <3> QED
      BY <2>4, <3>1
  <2>6. PICK y \in way : y.packet = p /\ y.at = i
    BY <1>4, <1>6, <2>3
  <2> DEFINE u == rx[i - 1]
             v == rx[i]
  <2>7. /\ u.packet = p /\ u.at = i - 1 /\ y.packet = p /\ y.at = i
        /\ ~(v.packet = p /\ v.at = i) /\ v.packet \in Nat /\ v.at \in Nat
    <3>1. v \in Byte
      BY <2>4
    <3>2. v.packet \in Nat /\ v.at \in Nat
      BY <3>1 DEF Byte
    <3> QED
      BY <2>3, <2>5, <2>6, <3>2
  <2>8. Before(u, v)
    BY <1>5, <2>4 DEF Ascending
  <2> HIDE DEF p
  <2>9. i \in Nat /\ i - 1 < i
    BY <1>7, <2>3
  <2>10. ~Before(y, u) /\ ~Before(v, y) /\ y # u /\ y # v
    <3> HIDE DEF u, v
    <3>1. ~(y.packet < u.packet) /\ ~(y.at < u.at) /\ y.at # u.at
      BY <1>7, <2>7, <2>9
    <3>2. v.packet > p \/ (v.packet = p /\ v.at > i - 1)
      BY <1>7, <2>7, <2>8, <2>9 DEF Before
    <3>3. v.packet > p \/ (v.packet = p /\ v.at > i)
      BY <1>7, <2>7, <2>9, <3>2
    <3> QED
      BY <1>7, <2>7, <2>9, <3>1, <3>3 DEF Before
  <2>11. y \notin OnBus(bus)
    <3>1. ASSUME NEW k \in DOMAIN bus, NEW j \in DOMAIN bus[k] PROVE Before(v, bus[k][j])
      BY <1>5, <2>4 DEF Precedes
    <3> HIDE DEF v
    <3> QED
      BY <2>10, <3>1 DEF OnBus, Read
  <2>12. PICK j \in DOMAIN rx : rx[j] = y
    BY <2>6, <2>11 DEF Read, way
  <2>13. ~(i < j) /\ ~(j < i - 1) /\ j # i /\ j # i - 1
    BY <1>5, <2>4, <2>10, <2>12 DEF Ascending
  <2> QED
    BY <1>2, <2>3, <2>12, <2>13
<1> QED
  BY <1>8 DEF n
-----------------------------------------------------------------------------
\* The first bytes are thrown away, and none of them is of a packet that is still to be delivered.
LEMMA Discards ==
  ASSUME NEW rx \in Seq(Byte), NEW bus \in Seq(CanFrame), Sequel(rx, bus),
         NEW delivered, NEW expected, NEW sent,
         WayInv(Read(rx) \cup OnBus(bus), delivered, expected, sent),
         NEW m \in 0..Len(rx), \A i \in 1..m : ~ToDeliver(rx[i].packet, delivered, expected)
  PROVE  LET rest == SubSeq(rx, m + 1, Len(rx)) IN
         Sequel(rest, bus) /\ WayInv(Read(rest) \cup OnBus(bus), delivered, expected, sent)
<1> DEFINE rest == SubSeq(rx, m + 1, Len(rx))
           way == Read(rx) \cup OnBus(bus)
           less == Read(rest) \cup OnBus(bus)
<1>1. /\ Sequel(rest, bus) /\ Read(rest) \subseteq Read(rx)
      /\ \A x \in Read(rx) : x \in Read(rest) \/ \E i \in 1..m : x = rx[i]
  BY FrontGoes
<1>2. way \in SUBSET Byte
  BY WayTyping
<1>3. less \in SUBSET way
  BY <1>1
<1>4. \A x \in way : x \in less \/ \A k \in (Len(delivered) + 1)..Len(expected) : x.packet # expected[k]
  <2>1. \A x \in way : x \in less \/ \E i \in 1..m : x = rx[i]
    BY <1>1
  <2> HIDE DEF way, less
  <2>2. ASSUME NEW x \in way, x \notin less, NEW k \in (Len(delivered) + 1)..Len(expected)
        PROVE  x.packet # expected[k]
    <3>1. PICK i \in 1..m : x = rx[i]
      BY <2>1, <2>2
    <3> QED
      BY <2>2, <3>1 DEF ToDeliver
  <2> QED
    BY <2>2
<1>5. WayInv(way, delivered, expected, sent)
  OBVIOUS
<1> HIDE DEF way, less
<1>6. WayInv(less, delivered, expected, sent)
  BY <1>2, <1>3, <1>4, <1>5, WayShrinks
<1> QED
  BY <1>1, <1>6 DEF less

\* The next packet is delivered, and what is left is behind it.
LEMMA WayDelivers ==
  ASSUME NEW way \in SUBSET Byte, NEW less \in SUBSET way, NEW delivered, NEW expected, NEW sent,
         WayInv(way, delivered, expected, sent), NEW p \in Nat,
         Len(delivered) + 1 <= Len(expected), expected[Len(delivered) + 1] = p,
         \A x \in way : x \in less \/ x.packet = p, \A x \in less : p < x.packet
  PROVE  WayInv(less, Append(delivered, p), expected, sent)
<1> DEFINE d == Append(delivered, p)
           n == Len(delivered)
<1>1. /\ delivered \in Seq(Nat) /\ expected \in Seq(Nat) /\ n \in Nat /\ Len(expected) \in Nat
      /\ DOMAIN expected = 1..Len(expected) /\ DOMAIN delivered = 1..n
  BY LenProperties DEF WayInv, DeliversInOrder
<1>2. d \in Seq(Nat) /\ Len(d) = n + 1 /\ DOMAIN d = 1..(n + 1) /\ d[n + 1] = p
      /\ \A k \in 1..n : d[k] = delivered[k]
  BY <1>1, LenProperties
<1> HIDE DEF d, n
<1>3. Genuine(less, sent)
  BY Zenon DEF WayInv, Genuine
<1>4. ExpectsWhole(less, expected)
  BY Zenon DEF WayInv, ExpectsWhole, Gapped
<1>5. \A k \in DOMAIN d : k = n + 1 \/ k \in DOMAIN delivered
  BY <1>1, <1>2
<1>6. \A k \in DOMAIN d : d[k] = expected[k]
  BY <1>1, <1>2, <1>5 DEF WayInv, DeliversInOrder, n
<1>7. \A k \in DOMAIN d : \A x \in less : d[k] < x.packet
  <2>1. \A k \in DOMAIN delivered : \A x \in less : delivered[k] < x.packet
    BY DEF WayInv, DeliversInOrder
  <2> QED
    BY <1>1, <1>2, <1>5, <2>1
<1>8. ASSUME NEW k \in (n + 2)..Len(expected) PROVE WholeIn(less, expected[k])
  <2>1. k \in (n + 1)..Len(expected) /\ k \in DOMAIN expected /\ n + 1 \in DOMAIN expected /\ n + 1 < k
    BY <1>1
  <2>2. WholeIn(way, expected[k])
    BY <2>1 DEF WayInv, DeliversInOrder, n
  <2>3. expected[n + 1] < expected[k] /\ expected[k] \in Nat
    <3>1. expected[n + 1] < expected[k]
      BY <2>1, Zenon DEF WayInv, DeliversInOrder
    <3> QED
      BY <1>1, <2>1, <3>1
  <2>4. \A x \in way : x.packet = expected[k] => x \in less
    BY <2>3 DEF n
  <2> QED
    BY <2>2, <2>4, Zenon DEF WholeIn
<1>9. \A k \in (Len(d) + 1)..Len(expected) : WholeIn(less, expected[k])
  BY <1>1, <1>2, <1>8
<1>10. DeliversInOrder(less, d, expected, sent)
  <2>1. Len(d) <= Len(expected)
    BY <1>2 DEF n
  <2> QED
    BY <1>1, <1>2, <1>6, <1>7, <1>9, <2>1 DEF WayInv, DeliversInOrder
<1> QED
  BY <1>3, <1>4, <1>10 DEF WayInv, d
-----------------------------------------------------------------------------
\* rx_buffer from the first byte on that can start a packet: no packet lost its start before it.
LEMMA AlignedIs ==
  ASSUME BusTyping
  PROVE  \E m \in 0..Len(f_rx) : /\ F!Aligned = SubSeq(f_rx, m + 1, Len(f_rx))
                                 /\ \A j \in 1..m : f_rx[j].claim = F!NoClaim
<1> DEFINE starts == {i \in DOMAIN f_rx : f_rx[i].claim # F!NoClaim}
           first == CHOOSE i \in starts : \A j \in starts : i <= j
<1>1. f_rx \in Seq(Byte) /\ Len(f_rx) \in Nat /\ DOMAIN f_rx = 1..Len(f_rx)
  BY LenProperties DEF BusTyping
<1>2. CASE starts = {}
  <2>1. F!Aligned = <<>>
    BY <1>2 DEF F!Aligned
  <2>2. SubSeq(f_rx, Len(f_rx) + 1, Len(f_rx)) = <<>>
    BY <1>1
  <2>3. \A j \in 1..Len(f_rx) : f_rx[j].claim = F!NoClaim
    BY <1>1, <1>2
  <2> QED
    BY <1>1, <2>1, <2>2, <2>3
<1>3. CASE starts # {}
  <2>1. F!Aligned = SubSeq(f_rx, first, Len(f_rx))
    BY <1>3 DEF F!Aligned
  <2>2. first \in starts /\ \A j \in starts : first <= j
    <3>1. starts \subseteq Nat
      BY <1>1
    <3>2. \E i \in starts : \A j \in starts : i <= j
      BY <1>3, <3>1, FirstOf
    <3> QED
      BY <3>2
  <2> HIDE DEF first
  <2>3. first \in 1..Len(f_rx) /\ first = (first - 1) + 1
    BY <1>1, <2>2
  <2>4. first - 1 \in 0..Len(f_rx) /\ \A j \in 1..(first - 1) : j \in DOMAIN f_rx /\ ~(first <= j)
    BY <1>1, <2>3
  <2>5. \A j \in 1..(first - 1) : f_rx[j].claim = F!NoClaim
    BY <2>2, <2>4, SMTT(30)
  <2> QED
    BY <2>1, <2>3, <2>4, <2>5
<1> QED
  BY <1>2, <1>3

LEMMA AlignedKeeps ==
  ASSUME BusInv
  PROVE  /\ F!Aligned \in Seq(Byte) /\ Len(F!Aligned) <= Len(f_rx)
         /\ Sequel(F!Aligned, f_bus)
         /\ WayInv(Read(F!Aligned) \cup OnBus(f_bus), f_delivered, f_expected, f_sent)
<1>1. PICK m \in 0..Len(f_rx) : /\ F!Aligned = SubSeq(f_rx, m + 1, Len(f_rx))
                                /\ \A j \in 1..m : f_rx[j].claim = F!NoClaim
  BY AlignedIs DEF BusInv
<1>2. /\ f_rx \in Seq(Byte) /\ f_bus \in Seq(CanFrame) /\ Sequel(f_rx, f_bus)
      /\ WayInv(Read(f_rx) \cup OnBus(f_bus), f_delivered, f_expected, f_sent)
      /\ Len(f_rx) \in Nat /\ DOMAIN f_rx = 1..Len(f_rx)
  BY LenProperties DEF BusInv, BusTyping
<1>3. ASSUME NEW i \in 1..m, ToDeliver(f_rx[i].packet, f_delivered, f_expected) PROVE FALSE
  <2>1. i \in DOMAIN f_rx
    BY <1>2
  <2>2. PICK j \in 1..i : /\ f_rx[j].packet = f_rx[i].packet /\ f_rx[j].at = 1
                          /\ f_rx[j].claim = f_rx[j].size /\ f_rx[j].claim \in MinSize..MaxSize
                          /\ f_rx[j].claim # F!NoClaim
    BY <1>2, <1>3, <2>1, StartIsRead
  <2>3. j \in 1..m
    BY <1>2
  <2> QED
    BY <1>1, <2>2, <2>3
<1>4. F!Aligned \in Seq(Byte) /\ Len(F!Aligned) = Len(f_rx) - m
  BY <1>1, <1>2, FrontGoes
<1>5. Len(F!Aligned) <= Len(f_rx)
  BY <1>2, <1>4
<1> QED
  BY <1>1, <1>2, <1>3, <1>4, <1>5, Discards
-----------------------------------------------------------------------------
\* dji_rsdk_extract_frame throws away one byte, or delivers the packet that comes next.
LEMMA BusExtracts == ASSUME BusInv, F!dji_rsdk_extract_frame PROVE BusInv'
<1> DEFINE bytes == F!Aligned
           first == bytes[1]
           Kept(rx, delivered) ==
             /\ rx \in Seq(Byte) /\ Len(rx) <= MaxSize - 1 + ChunkSize
             /\ Sequel(rx, f_bus)
             /\ WayInv(Read(rx) \cup OnBus(f_bus), delivered, f_expected, f_sent)
           Rest(m) == SubSeq(bytes, m + 1, Len(bytes))
           way == Read(bytes) \cup OnBus(f_bus)
<1>1. /\ bytes \in Seq(Byte) /\ Len(bytes) \in Nat /\ Len(bytes) <= Len(f_rx) /\ Len(f_rx) \in Nat
      /\ DOMAIN bytes = 1..Len(bytes) /\ Sequel(bytes, f_bus)
      /\ WayInv(way, f_delivered, f_expected, f_sent)
      /\ f_bus \in Seq(CanFrame) /\ Len(f_rx) <= MaxSize - 1 + ChunkSize /\ f_sent \in Nat
  BY AlignedKeeps, LenProperties DEF BusInv, BusTyping
<1>2. /\ MaxSize \in Nat /\ MinSize \in 1..MaxSize /\ Header \in 1..MaxSize /\ ChunkSize \in Nat \ {0}
  BY LinksAssumption DEF LinksAssumption
<1>3. /\ \/ F!Misshapen(bytes) /\ f_rx' = Rest(1) /\ UNCHANGED f_delivered
         \/ /\ ~F!Misshapen(bytes) /\ F!Complete(bytes)
            /\ IF ~F!SumsMatch(bytes) THEN f_rx' = Rest(1) /\ UNCHANGED f_delivered
               ELSE /\ f_rx' = Rest(first.claim)
                    /\ f_delivered' = IF first.plain THEN Append(f_delivered, first.packet)
                                      ELSE f_delivered
      /\ UNCHANGED <<f_bus, f_expected, f_sent>>
  BY DEF F!dji_rsdk_extract_frame, F!dji_rsdk_discard_rx, F!Mismatch
<1> HIDE DEF bytes
<1>4. 1 \in DOMAIN bytes /\ first \in Byte /\ first \in way
  <2>1. Len(bytes) >= Header
    BY <1>3 DEF F!Misshapen, F!Complete
  <2>2. 1 \in DOMAIN bytes
    BY <1>1, <1>2, <2>1
  <2> QED
    BY <1>1, <2>2 DEF Read
<1>5. ~F!Misshapen(bytes) /\ F!Complete(bytes) =>
        first.claim \in MinSize..MaxSize /\ Len(bytes) >= first.claim
  BY DEF F!Misshapen, F!Complete
<1>6. ASSUME NEW m \in 0..Len(bytes), \A i \in 1..m : ~ToDeliver(bytes[i].packet, f_delivered, f_expected)
      PROVE  Kept(Rest(m), f_delivered)
  <2>1. Rest(m) \in Seq(Byte) /\ Len(Rest(m)) = Len(bytes) - m
    BY <1>1, <1>6, FrontGoes, ZenonT(40)
  <2>2. Len(Rest(m)) <= MaxSize - 1 + ChunkSize
    <3> HIDE DEF Rest
    <3> QED
      BY <1>1, <1>2, <2>1
  <2>3. Sequel(Rest(m), f_bus) /\ WayInv(Read(Rest(m)) \cup OnBus(f_bus), f_delivered, f_expected, f_sent)
    BY <1>1, <1>6, Discards
  <2> QED
    BY <2>1, <2>2, <2>3, SMTT(30)
<1>7. ASSUME ToDeliver(first.packet, f_delivered, f_expected)
      PROVE  /\ first.at = 1 /\ first.claim = first.size /\ first.claim \in MinSize..MaxSize
  <2>1. PICK j \in 1..1 : /\ bytes[j].packet = bytes[1].packet /\ bytes[j].at = 1
                          /\ bytes[j].claim = bytes[j].size /\ bytes[j].claim \in MinSize..MaxSize
                          /\ bytes[j].claim # F!NoClaim
    BY <1>1, <1>4, <1>7, StartIsRead
  <2>2. j = 1
    OBVIOUS
  <2> QED
    BY <2>1, <2>2
<1>8. ASSUME ~ToDeliver(first.packet, f_delivered, f_expected) PROVE Kept(Rest(1), f_delivered)
  <2>1. 1 \in 0..Len(bytes) /\ \A i \in 1..1 : i = 1
    BY <1>1, <1>4
  <2> QED
    BY <1>6, <1>8, <2>1
<1>9. CASE F!Misshapen(bytes)
  <2>1. ~ToDeliver(first.packet, f_delivered, f_expected)
    BY <1>7, <1>9 DEF F!Misshapen
  <2>2. f_rx' = Rest(1) /\ f_delivered' = f_delivered
    BY <1>3, <1>9
  <2> QED
    BY <1>1, <1>3, <1>8, <2>1, <2>2 DEF BusInv, BusTyping
<1>10. CASE ~F!Misshapen(bytes) /\ F!Complete(bytes) /\ ~F!SumsMatch(bytes)
  <2>1. ASSUME ToDeliver(first.packet, f_delivered, f_expected) PROVE FALSE
    <3>1. first.at = 1 /\ Len(bytes) >= first.size
      BY <1>5, <1>7, <1>10, <2>1
    <3>2. \A i \in 1..first.size : bytes[i].packet = first.packet /\ bytes[i].at = i
      BY <1>1, <1>4, <2>1, <3>1, PacketFollows
    <3> QED
      BY <1>10, <3>1, <3>2 DEF F!SumsMatch
  <2>2. f_rx' = Rest(1) /\ f_delivered' = f_delivered
    BY <1>3, <1>10
  <2> QED
    BY <1>1, <1>3, <1>8, <2>1, <2>2 DEF BusInv, BusTyping
<1>11. CASE ~F!Misshapen(bytes) /\ F!Complete(bytes) /\ F!SumsMatch(bytes)
  <2> DEFINE n == first.size
             p == first.packet
  <2>1. first.at = 1 /\ \A i \in 1..n : bytes[i].packet = p /\ bytes[i].at = i
    BY <1>11 DEF F!SumsMatch
  <2>2. Genuine(way, f_sent) /\ ExpectsWhole(way, f_expected)
    BY <1>1 DEF WayInv
  <2>3. first.claim = n
    BY <1>4, <2>1, <2>2 DEF Genuine
  <2>4. n \in 1..Len(bytes) /\ n \in 0..Len(bytes) /\ p \in Nat /\ n \in Nat
    <3>1. n \in MinSize..MaxSize /\ Len(bytes) >= n
      BY <1>5, <1>11, <2>3
    <3>2. p \in Nat
      BY <1>4 DEF Byte
    <3> HIDE DEF p, n
    <3> QED
      BY <1>1, <1>2, <3>1, <3>2
  <2>5. f_rx' = Rest(n) /\ f_delivered' = IF first.plain THEN Append(f_delivered, p) ELSE f_delivered
    BY <1>3, <1>11, <2>3
  <2> HIDE DEF way
  <2>6. CASE ~first.plain
    <3>1. ~ToDeliver(p, f_delivered, f_expected)
      <4>1. p \notin Read(f_expected)
        BY <1>4, <2>2, <2>6 DEF ExpectsWhole
      <4>2. /\ f_delivered \in Seq(Nat) /\ f_expected \in Seq(Nat) /\ Len(f_delivered) \in Nat
            /\ Len(f_expected) \in Nat /\ DOMAIN f_expected = 1..Len(f_expected)
        BY <1>1, LenProperties DEF WayInv, DeliversInOrder
      <4>3. \A k \in (Len(f_delivered) + 1)..Len(f_expected) : k \in DOMAIN f_expected
        BY <4>2
      <4> QED
        BY <4>1, <4>3 DEF ToDeliver, Read
    <3>2. \A i \in 1..n : ~ToDeliver(bytes[i].packet, f_delivered, f_expected)
      BY <2>1, <3>1
    <3>3. Kept(Rest(n), f_delivered)
      BY <1>6, <2>4, <3>2
    <3>4. f_delivered' = f_delivered
      BY <2>5, <2>6
    <3> QED
      BY <1>1, <1>3, <2>5, <3>3, <3>4 DEF BusInv, BusTyping
  <2>7. CASE first.plain
    <3> DEFINE less == Read(Rest(n)) \cup OnBus(f_bus)
    <3>1. /\ f_delivered \in Seq(Nat) /\ f_expected \in Seq(Nat) /\ Len(f_delivered) \in Nat
          /\ Len(f_expected) \in Nat /\ DOMAIN f_expected = 1..Len(f_expected)
          /\ DOMAIN f_delivered = 1..Len(f_delivered)
          /\ Len(f_delivered) <= Len(f_expected)
      BY <1>1, LenProperties DEF WayInv, DeliversInOrder
    <3>2. /\ \A k, l \in DOMAIN f_expected : k < l => f_expected[k] < f_expected[l]
          /\ \A k \in DOMAIN f_delivered : f_delivered[k] = f_expected[k] /\ f_delivered[k] < p
      BY <1>1, <1>4, Zenon DEF WayInv, DeliversInOrder
    <3>3. /\ Rest(n) \in Seq(Byte) /\ Len(Rest(n)) = Len(bytes) - n
          /\ \A i \in 1..Len(Rest(n)) : Rest(n)[i] = bytes[n + i]
          /\ Sequel(Rest(n), f_bus)
          /\ Read(Rest(n)) \subseteq Read(bytes)
          /\ \A x \in Read(bytes) : x \in Read(Rest(n)) \/ \E i \in 1..n : x = bytes[i]
      <4>1. ASSUME NEW m \in 0..Len(bytes)
            PROVE  /\ Rest(m) \in Seq(Byte) /\ Len(Rest(m)) = Len(bytes) - m
                   /\ \A i \in 1..Len(Rest(m)) : Rest(m)[i] = bytes[m + i]
                   /\ Sequel(Rest(m), f_bus)
                   /\ Read(Rest(m)) \subseteq Read(bytes)
                   /\ \A x \in Read(bytes) : x \in Read(Rest(m)) \/ \E i \in 1..m : x = bytes[i]
        <5>1. Rest(m) \in Seq(Byte) /\ Len(Rest(m)) = Len(bytes) - m
          BY <1>1, FrontGoes
        <5>2. \A i \in 1..Len(Rest(m)) : Rest(m)[i] = bytes[m + i]
          BY <1>1, FrontGoes
        <5>3. Sequel(Rest(m), f_bus) /\ Read(Rest(m)) \subseteq Read(bytes)
          BY <1>1, FrontGoes
        <5>4. \A x \in Read(bytes) : x \in Read(Rest(m)) \/ \E i \in 1..m : x = bytes[i]
          BY <1>1, FrontGoes
        <5> HIDE DEF Rest
        <5> QED
          BY <5>1, <5>2, <5>3, <5>4, SMTT(30)
      <4> HIDE DEF n, Rest
      <4> QED
        BY <2>4, <4>1
    <3> HIDE DEF Rest
    <3>4. \A i \in 1..n : i \in DOMAIN bytes /\ bytes[i] \in way
      BY <1>1, <2>4 DEF way, Read
    <3>5. \A x \in less : Before(bytes[n], x)
      <4>1. n \in DOMAIN bytes /\ Ascending(bytes) /\ \A k \in DOMAIN f_bus : Precedes(bytes, f_bus[k])
        BY <1>1, <2>4 DEF Sequel
      <4>2. \A x \in OnBus(f_bus) : Before(bytes[n], x)
        BY <4>1, Zenon DEF OnBus, Read, Precedes
      <4>3. ASSUME NEW i \in DOMAIN Rest(n) PROVE Before(bytes[n], Rest(n)[i])
        <5>1. i \in 1..Len(Rest(n)) /\ Len(Rest(n)) \in Nat
          BY <3>3, LenProperties
        <5>2. n + i \in DOMAIN bytes /\ n < n + i
          <6> HIDE DEF n
          <6> QED
            BY <1>1, <2>4, <3>3, <5>1
        <5> QED
          BY <3>3, <4>1, <5>1, <5>2 DEF Ascending
      <4> QED
        BY <4>2, <4>3 DEF Read
    <3>6. less \subseteq way
      BY <3>3 DEF way
    <3>7. ASSUME NEW x \in less PROVE p < x.packet
      <4>1. Before(bytes[n], x) /\ bytes[n].packet = p /\ bytes[n].at = n
        BY <2>1, <2>4, <3>5
      <4>2. x \in way /\ x.at \in 1..x.size /\ (x.packet = p => x.size = n)
        BY <1>4, <2>2, <3>6 DEF Genuine
      <4>3. x \in Byte
        BY <1>1, <4>2, WayTyping DEF way
      <4>4. x.at \in Nat /\ x.size \in Nat /\ x.packet \in Nat
        BY <4>3 DEF Byte
      <4> HIDE DEF n, p
      <4> QED
        BY <2>4, <4>1, <4>2, <4>4 DEF Before
    <3>8. \A x \in way : x \in less \/ x.packet = p
      BY <2>1, <3>3 DEF way
    <3>9. PICK k \in DOMAIN f_expected : f_expected[k] = p
      <4>1. ~Gapped(way, p, n)
        BY <2>1, <3>4 DEF Gapped
      <4>2. p \in Read(f_expected)
        BY <1>4, <2>2, <2>7, <4>1 DEF ExpectsWhole
      <4> QED
        BY <4>2 DEF Read
    <3>10. ~(k <= Len(f_delivered))
      <4>1. k <= Len(f_delivered) => k \in DOMAIN f_delivered
        BY <3>1
      <4> HIDE DEF p
      <4> QED
        BY <2>4, <3>2, <3>9, <4>1
    <3> DEFINE l == Len(f_delivered) + 1
    <3>11. l \in DOMAIN f_expected /\ l \in l..Len(f_expected) /\ l <= k
      BY <3>1, <3>10
    <3>12. ASSUME l # k PROVE FALSE
      <4> DEFINE q == f_expected[l]
      <4>1. q < p /\ q \in Nat
        <5>1. l < k
          BY <3>1, <3>11, <3>12
        <5>2. f_expected[l] < f_expected[k]
          BY <3>2, <3>11, <5>1
        <5>3. f_expected[l] \in Nat
          BY <3>1, <3>11
        <5> QED
          BY <3>9, <5>2, <5>3
      <4>2. WholeIn(way, q)
        BY <1>1, <3>11 DEF WayInv, DeliversInOrder
      <4>3. PICK y \in way : y.packet = q
        BY <4>2 DEF WholeIn
      <4>4. y \in less
        <5> HIDE DEF less, q, p
        <5> QED
          BY <2>4, <3>8, <4>1, <4>3
      <4>5. p < y.packet
        BY <3>7, <4>4
      <4> HIDE DEF q, p
      <4> QED
        BY <2>4, <4>1, <4>3, <4>5
    <3>13. l <= Len(f_expected) /\ f_expected[l] = p
      BY <3>1, <3>9, <3>12
    <3>14. way \in SUBSET Byte
      BY <1>1, WayTyping DEF way
    <3> HIDE DEF less, p
    <3>15. WayInv(less, Append(f_delivered, p), f_expected, f_sent)
      BY <1>1, <2>4, <3>6, <3>7, <3>8, <3>13, <3>14, WayDelivers
    <3>16. Len(Rest(n)) <= MaxSize - 1 + ChunkSize
      BY <1>1, <1>2, <2>4, <3>3
    <3>17. Kept(Rest(n), Append(f_delivered, p))
      BY <3>3, <3>15, <3>16 DEF less
    <3>18. f_delivered' = Append(f_delivered, p)
      BY <2>5, <2>7
    <3> HIDE DEF n
    <3> QED
      BY <1>1, <1>3, <2>5, <3>17, <3>18 DEF BusInv, BusTyping
  <2> QED
    BY <2>6, <2>7
<1> QED
  BY <1>3, <1>9, <1>10, <1>11

\* dji_rsdk_receive_frame has room for the next CAN frame.
LEMMA BusReceives == ASSUME BusInv, F!dji_rsdk_receive_frame PROVE BusInv'
<1> DEFINE bytes == F!Aligned
           h == Head(f_bus)
<1>1. /\ bytes \in Seq(Byte) /\ Len(bytes) \in Nat
      /\ Sequel(bytes, f_bus)
      /\ WayInv(Read(bytes) \cup OnBus(f_bus), f_delivered, f_expected, f_sent)
      /\ f_bus \in Seq(CanFrame) /\ f_sent \in Nat
  BY AlignedKeeps, LenProperties DEF BusInv, BusTyping
<1>2. /\ MaxSize \in Nat /\ MinSize \in 1..MaxSize /\ Header \in 1..MaxSize /\ ChunkSize \in Nat \ {0}
      /\ BufferSize \in Nat /\ MaxSize - 1 + 2 * ChunkSize <= BufferSize
  BY LinksAssumption DEF LinksAssumption
<1>3. /\ ~F!Misshapen(bytes) /\ ~F!Complete(bytes) /\ f_bus # <<>> /\ f_bus' = Tail(f_bus)
      /\ f_rx' = IF Len(bytes) + Len(h) > BufferSize THEN <<>> ELSE bytes \o h
      /\ UNCHANGED <<f_delivered, f_expected, f_sent>>
  BY DEF F!dji_rsdk_receive_frame
<1> HIDE DEF bytes
<1>4. Len(bytes) <= MaxSize - 1
  BY <1>1, <1>2, <1>3 DEF F!Misshapen, F!Complete
<1>5. h \in CanFrame /\ f_bus' \in Seq(CanFrame)
  BY <1>1, <1>3, HeadTailProperties
<1>6. h \in Seq(Byte) /\ Len(h) \in Nat /\ Len(h) <= ChunkSize
  BY <1>5, LenProperties DEF CanFrame
<1>7. /\ Sequel(bytes \o h, f_bus')
      /\ Read(bytes \o h) \cup OnBus(f_bus') = Read(bytes) \cup OnBus(f_bus)
  BY <1>1, <1>3, FrameMoves
<1> HIDE DEF h
<1>8. f_rx' = bytes \o h
  BY <1>1, <1>2, <1>3, <1>4, <1>6
<1>9. bytes \o h \in Seq(Byte) /\ Len(bytes \o h) = Len(bytes) + Len(h)
  BY <1>1, <1>6, ConcatProperties
<1>10. Len(f_rx') <= MaxSize - 1 + ChunkSize
  BY <1>1, <1>2, <1>4, <1>6, <1>8, <1>9
<1> QED
  BY <1>1, <1>3, <1>5, <1>7, <1>8, <1>9, <1>10 DEF BusInv, BusTyping
-----------------------------------------------------------------------------
\* What is sent comes behind what is on its way.
LEMMA BusGrows ==
  ASSUME NEW rx \in Seq(Byte), NEW bus \in Seq(CanFrame), NEW t \in Seq(CanFrame),
         Sequel(rx, bus), Ordered(t),
         \A x \in Read(rx) \cup OnBus(bus), y \in OnBus(t) : Before(x, y)
  PROVE  Sequel(rx, bus \o t) /\ OnBus(bus \o t) = OnBus(bus) \cup OnBus(t)
<1> DEFINE s == bus \o t
           n == Len(bus)
<1>1. /\ n \in Nat /\ Len(t) \in Nat /\ DOMAIN bus = 1..n /\ DOMAIN t = 1..Len(t)
      /\ s \in Seq(CanFrame) /\ Len(s) = n + Len(t) /\ DOMAIN s = 1..Len(s)
      /\ \A i \in 1..Len(s) : s[i] = IF i <= n THEN bus[i] ELSE t[i - n]
  BY ConcatProperties, LenProperties
<1> HIDE DEF s, n
<1>2. \A i \in DOMAIN s : \/ i \in DOMAIN bus /\ s[i] = bus[i]
                          \/ i - n \in DOMAIN t /\ s[i] = t[i - n] /\ ~(i \in DOMAIN bus)
  BY <1>1
<1>3. /\ \A i \in DOMAIN bus : i \in DOMAIN s /\ s[i] = bus[i]
      /\ \A i \in DOMAIN t : n + i \in DOMAIN s /\ s[n + i] = t[i]
  BY <1>1
<1>4. ASSUME NEW i \in DOMAIN bus, NEW j \in DOMAIN t PROVE Precedes(bus[i], t[j])
  <2>1. \A k \in DOMAIN bus[i] : bus[i][k] \in OnBus(bus)
    BY DEF OnBus, Read
  <2>2. \A k \in DOMAIN t[j] : t[j][k] \in OnBus(t)
    BY DEF OnBus, Read
  <2> QED
    BY <2>1, <2>2 DEF Precedes
<1>5. ASSUME NEW j \in DOMAIN t PROVE Precedes(rx, t[j])
  <2>1. \A k \in DOMAIN t[j] : t[j][k] \in OnBus(t)
    BY DEF OnBus, Read
  <2>2. \A k \in DOMAIN rx : rx[k] \in Read(rx)
    BY DEF Read
  <2> QED
    BY <2>1, <2>2 DEF Precedes
<1>6. Ordered(s)
  <2>1. \A i \in DOMAIN s : Ascending(s[i])
    BY <1>2 DEF Ordered, Sequel
  <2>2. ASSUME NEW i \in DOMAIN s, NEW j \in DOMAIN s, i < j PROVE Precedes(s[i], s[j])
    <3>1. CASE j \in DOMAIN bus
      <4>1. i \in DOMAIN bus
        BY <1>1, <2>2, <3>1
      <4>2. s[i] = bus[i] /\ s[j] = bus[j]
        BY <1>2, <3>1, <4>1
      <4>3. Ordered(bus)
        BY DEF Sequel
      <4> QED
        BY <2>2, <3>1, <4>1, <4>2, <4>3 DEF Ordered
    <3>2. CASE i \in DOMAIN bus /\ ~(j \in DOMAIN bus)
      <4>1. s[i] = bus[i] /\ j - n \in DOMAIN t /\ s[j] = t[j - n]
        BY <1>2, <3>2
      <4> QED
        BY <1>4, <3>2, <4>1
    <3>3. CASE ~(i \in DOMAIN bus) /\ ~(j \in DOMAIN bus)
      <4>1. i - n \in DOMAIN t /\ j - n \in DOMAIN t /\ s[i] = t[i - n] /\ s[j] = t[j - n]
        BY <1>2, <3>3
      <4>2. i - n < j - n
        BY <1>1, <2>2
      <4> QED
        BY <4>1, <4>2 DEF Ordered
    <3> QED
      BY <3>1, <3>2, <3>3
  <2> QED
    BY <2>1, <2>2 DEF Ordered
<1>7. \A i \in DOMAIN s : Precedes(rx, s[i])
  BY <1>2, <1>5 DEF Sequel
<1>8. OnBus(s) \subseteq OnBus(bus) \cup OnBus(t)
  BY <1>2 DEF OnBus
<1>9. OnBus(bus) \subseteq OnBus(s) /\ OnBus(t) \subseteq OnBus(s)
  BY <1>3 DEF OnBus
<1> QED
  BY <1>6, <1>7, <1>8, <1>9 DEF Sequel, s

\* A packet is on the way: expected, if it is plain and none of its bytes is lost.
LEMMA WayGrows ==
  ASSUME NEW way \in SUBSET Byte, NEW new \in SUBSET Byte,
         NEW delivered, NEW expected, NEW sent \in Nat, WayInv(way, delivered, expected, sent),
         NEW n \in MinSize..MaxSize, NEW plain,
         \A x \in new : /\ x.packet = sent + 1 /\ x.at \in 1..n /\ x.size = n /\ x.plain = plain
                        /\ x.at = 1 => x.claim = n,
         NEW wanted,
         \/ /\ plain /\ \A i \in 1..n : \E x \in new : x.at = i
            /\ wanted = Append(expected, sent + 1)
         \/ wanted = expected /\ (~plain \/ \E i \in 1..n : \A x \in new : x.at # i)
  PROVE  WayInv(way \cup new, delivered, wanted, sent + 1)
<1>1. /\ MaxSize \in Nat /\ MinSize \in Nat /\ 1 <= MinSize /\ n \in Nat /\ 1 \in 1..n
  BY LinksAssumption DEF LinksAssumption
<1>2. \A x \in way : x.packet \in 1..sent
  BY DEF WayInv, Genuine
<1>3. \A x \in way, y \in new : x.packet # y.packet
  BY <1>2
<1>4. \A x \in way : x.packet \in 1..(sent + 1)
  BY <1>2
<1>5. sent + 1 \in 1..(sent + 1)
  OBVIOUS
<1>6. Genuine(way \cup new, sent + 1)
  <2>1. ASSUME NEW x \in way \cup new
        PROVE  /\ x.packet \in 1..(sent + 1) /\ x.at \in 1..x.size /\ x.size \in MinSize..MaxSize
               /\ x.at = 1 => x.claim = x.size
    <3>1. CASE x \in way
      BY <1>4, <3>1, Zenon DEF WayInv, Genuine
    <3>2. CASE x \in new
      BY <1>5, <3>2, Zenon
    <3> QED
      BY <3>1, <3>2
  <2>2. ASSUME NEW x \in way \cup new, NEW y \in way \cup new, x.packet = y.packet
        PROVE  x.size = y.size /\ x.plain = y.plain
    <3>1. CASE x \in way /\ y \in way
      BY <2>2, <3>1, Zenon DEF WayInv, Genuine
    <3>2. CASE x \in new /\ y \in new
      BY <3>2, Zenon
    <3> QED
      BY <1>3, <2>2, <3>1, <3>2
  <2> QED
    BY <2>1, <2>2, Zenon DEF Genuine
<1>7. /\ expected \in Seq(Nat) /\ delivered \in Seq(Nat) /\ Len(expected) \in Nat /\ Len(delivered) \in Nat
      /\ DOMAIN expected = 1..Len(expected) /\ DOMAIN delivered = 1..Len(delivered)
      /\ Len(delivered) <= Len(expected)
      /\ \A k \in DOMAIN expected : expected[k] \in 1..sent
      /\ \A k, l \in DOMAIN expected : k < l => expected[k] < expected[l]
      /\ \A k \in DOMAIN delivered : delivered[k] = expected[k]
      /\ \A k \in DOMAIN delivered : \A x \in way : delivered[k] < x.packet
  BY LenProperties DEF WayInv, DeliversInOrder
<1>8. \A p \in Read(expected) : p \in 1..sent
  BY <1>7 DEF Read
<1>9. ASSUME NEW k \in (Len(delivered) + 1)..Len(expected) PROVE WholeIn(way \cup new, expected[k])
  <2>1. WholeIn(way, expected[k])
    BY <1>9 DEF WayInv, DeliversInOrder
  <2>2. PICK b \in way :
          /\ b.packet = expected[k]
          /\ \A i \in 1..b.size : \E x \in way : x.packet = expected[k] /\ x.at = i
    BY <2>1 DEF WholeIn
  <2>3. b \in way \cup new /\ \A i \in 1..b.size : \E x \in way \cup new : x.packet = expected[k] /\ x.at = i
    BY <2>2, Zenon
  <2> QED
    BY <2>2, <2>3 DEF WholeIn
<1>10. \A k \in DOMAIN delivered : \A x \in way \cup new : delivered[k] < x.packet
  <2>1. ASSUME NEW k \in DOMAIN delivered, NEW x \in new PROVE delivered[k] < x.packet
    <3>1. k \in DOMAIN expected
      BY <1>7
    <3>2. delivered[k] \in 1..sent /\ x.packet = sent + 1
      BY <1>7, <3>1
    <3> QED
      BY <3>2
  <2> QED
    BY <1>7, <2>1
<1>11. \A x \in way : x.plain => x.packet \in Read(expected) \/ Gapped(way \cup new, x.packet, x.size)
  <2>1. ASSUME NEW x \in way, Gapped(way, x.packet, x.size) PROVE Gapped(way \cup new, x.packet, x.size)
    BY <1>3, <2>1 DEF Gapped
  <2> QED
    BY <2>1 DEF WayInv, ExpectsWhole
<1>12. \A x \in way : x.packet \in Read(expected) => x.plain
  BY DEF WayInv, ExpectsWhole
<1>13. CASE wanted = expected /\ (~plain \/ \E i \in 1..n : \A x \in new : x.at # i)
  <2>1. \A x \in new : x.packet \notin Read(expected)
    <3>1. sent + 1 \notin 1..sent
      OBVIOUS
    <3> QED
      BY <1>8, <3>1
  <2>2. \A x \in new : x.plain => Gapped(way \cup new, x.packet, x.size)
    BY <1>3, <1>13 DEF Gapped
  <2>3. ExpectsWhole(way \cup new, expected)
    BY <1>11, <1>12, <2>1, <2>2, Zenon DEF ExpectsWhole
  <2>4. \A k \in DOMAIN expected : expected[k] \in 1..(sent + 1)
    BY <1>7
  <2>5. DeliversInOrder(way \cup new, delivered, expected, sent + 1)
    BY <1>7, <1>9, <1>10, <2>4 DEF DeliversInOrder
  <2> QED
    BY <1>6, <1>13, <2>3, <2>5 DEF WayInv
<1>14. CASE /\ plain /\ \A i \in 1..n : \E x \in new : x.at = i
            /\ wanted = Append(expected, sent + 1)
  <2> DEFINE l == Len(expected) + 1
  <2>1. /\ wanted \in Seq(Nat) /\ Len(wanted) = l /\ DOMAIN wanted = 1..l /\ wanted[l] = sent + 1
        /\ \A k \in 1..Len(expected) : wanted[k] = expected[k]
    <3> DEFINE q == sent + 1
    <3>1. q \in Nat /\ wanted = Append(expected, q)
      BY <1>14
    <3> HIDE DEF q
    <3>2. /\ wanted \in Seq(Nat) /\ Len(wanted) = l /\ wanted[l] = q
          /\ \A k \in 1..Len(expected) : wanted[k] = expected[k]
      <4>1. expected \in Seq(Nat) /\ Len(expected) \in Nat
        BY <1>7
      <4>2. wanted \in Seq(Nat)
        BY <3>1, <4>1
      <4>3. Len(wanted) = l
        BY <3>1, <4>1
      <4>4. wanted[l] = q
        BY <3>1, <4>1
      <4> QED
        BY <3>1, <4>1, <4>2, <4>3, <4>4
    <3> QED
      BY <1>7, <3>2, LenProperties DEF q
  <2>2. \A k \in DOMAIN wanted : k = l \/ k \in DOMAIN expected
    BY <1>7, <2>1
  <2>3. \A k \in DOMAIN wanted : wanted[k] \in 1..(sent + 1)
    <3>1. \A k \in DOMAIN expected : k \in 1..Len(expected) /\ wanted[k] \in 1..sent
      BY <1>7, <2>1
    <3>2. wanted[l] \in 1..(sent + 1)
      BY <1>5, <2>1
    <3> QED
      BY <2>2, <3>1, <3>2
  <2>4. \A k, j \in DOMAIN wanted : k < j => wanted[k] < wanted[j]
    <3>1. ASSUME NEW k \in DOMAIN wanted, NEW j \in DOMAIN wanted, k < j PROVE wanted[k] < wanted[j]
      <4>1. k \in DOMAIN expected
        BY <1>7, <2>1, <3>1
      <4>2. CASE j = l
        BY <1>7, <2>1, <4>1, <4>2
      <4>3. CASE j \in DOMAIN expected
        BY <1>7, <2>1, <3>1, <4>1, <4>3
      <4> QED
        BY <2>2, <4>2, <4>3
    <3> QED
      BY <3>1
  <2>5. \A k \in DOMAIN delivered : delivered[k] = wanted[k]
    BY <1>7, <2>1
  <2>6. WholeIn(way \cup new, sent + 1)
    <3>1. PICK b \in new : b.at = 1
      BY <1>1, <1>14
    <3>2. b.packet = sent + 1 /\ b.size = n
      BY <3>1
    <3>3. \A i \in 1..n : \E x \in way \cup new : x.packet = sent + 1 /\ x.at = i
      BY <1>14, Zenon
    <3> QED
      BY <3>2, <3>3 DEF WholeIn
  <2>7. \A k \in (Len(delivered) + 1)..Len(wanted) : WholeIn(way \cup new, wanted[k])
    <3>1. ASSUME NEW k \in (Len(delivered) + 1)..Len(wanted) PROVE WholeIn(way \cup new, wanted[k])
      <4>1. CASE k = l
        BY <2>1, <2>6, <4>1
      <4>2. CASE k # l
        <5>1. k \in (Len(delivered) + 1)..Len(expected) /\ k \in 1..Len(expected)
          BY <1>7, <2>1, <4>2
        <5> QED
          BY <1>9, <2>1, <5>1
      <4> QED
        BY <4>1, <4>2
    <3> QED
      BY <3>1
  <2>8. Len(delivered) <= Len(wanted)
    BY <1>7, <2>1
  <2>9. DeliversInOrder(way \cup new, delivered, wanted, sent + 1)
    BY <1>7, <1>10, <2>1, <2>3, <2>4, <2>5, <2>7, <2>8 DEF DeliversInOrder
  <2>10. Read(wanted) = Read(expected) \cup {sent + 1}
    <3>1. l \in DOMAIN wanted /\ \A k \in DOMAIN expected : k \in DOMAIN wanted
      BY <1>7, <2>1
    <3>2. Read(wanted) \subseteq Read(expected) \cup {sent + 1}
      <4>1. \A k \in DOMAIN expected : wanted[k] \in Read(expected)
        BY <1>7, <2>1 DEF Read
      <4>2. \A k \in DOMAIN wanted : wanted[k] \in Read(expected) \cup {sent + 1}
        BY <2>1, <2>2, <4>1
      <4> QED
        BY <4>2 DEF Read
    <3>3. Read(expected) \subseteq Read(wanted)
      BY <1>7, <2>1, <3>1 DEF Read
    <3>4. sent + 1 \in Read(wanted)
      BY <2>1, <3>1 DEF Read
    <3> QED
      BY <3>2, <3>3, <3>4
  <2>11. \A x \in way : x.packet # sent + 1
    BY <1>2
  <2>12. ExpectsWhole(way \cup new, wanted)
    <3>1. \A x \in way : x.packet \in Read(wanted) <=> x.packet \in Read(expected)
      BY <2>10, <2>11
    <3>2. \A x \in new : x.packet \in Read(wanted) /\ x.plain
      BY <1>14, <2>10
    <3> QED
      BY <1>11, <1>12, <3>1, <3>2, Zenon DEF ExpectsWhole
  <2> QED
    BY <1>6, <2>9, <2>12 DEF WayInv
<1> QED
  BY <1>13, <1>14
-----------------------------------------------------------------------------
LEMMA Quotient ==
  ASSUME NEW a \in Nat, NEW b \in Nat \ {0}
  PROVE  a \div b \in Nat /\ (a \div b) * b <= a /\ a < (a \div b) * b + b
<1>1. a = b * (a \div b) + (a % b) /\ a % b \in 0..(b - 1) /\ a \div b \in Int
  OBVIOUS
<1> DEFINE q == a \div b
           r == a % b
<1>2. q \in Int /\ r \in Nat /\ r < b /\ a = b * q + r
  BY <1>1
<1> HIDE DEF q, r
<1>3. b * q = q * b
  BY <1>2
<1>4. q \in Nat
  <2>1. ASSUME q <= -1 PROVE b * q <= -b
    BY <1>2, <2>1
  <2> QED
    BY <1>2, <2>1
<1> QED
  BY <1>2, <1>3, <1>4 DEF q

LEMMA Products ==
  ASSUME NEW b \in Nat, NEW i \in Nat, NEW j \in Nat, i < j
  PROVE  i * b \in Nat /\ j * b \in Nat /\ i * b + b <= j * b
<1> DEFINE d == j - i - 1
<1>1. d \in Nat /\ j = i + 1 + d
  OBVIOUS
<1> HIDE DEF d
<1>2. j * b = i * b + b + d * b /\ d * b \in Nat /\ i * b \in Nat /\ j * b \in Nat
  BY <1>1
<1> QED
  BY <1>2
-----------------------------------------------------------------------------
\* can_socket_send: the bytes in CAN frames, each of them in one, in their order, none empty.
LEMMA ChunksFit ==
  ASSUME NEW s \in Seq(Byte), Ascending(s)
  PROVE  LET t == F!Chunks(s) IN
         t \in Seq(CanFrame) /\ Ordered(t) /\ OnBus(t) = Read(s) /\ \A k \in DOMAIN t : t[k] # <<>>
<1> DEFINE n == (Len(s) + ChunkSize - 1) \div ChunkSize
           at(k) == (k - 1) * ChunkSize
           to(k) == IF k * ChunkSize < Len(s) THEN k * ChunkSize ELSE Len(s)
           chunk(k) == SubSeq(s, at(k) + 1, to(k))
           t == [k \in 1..n |-> chunk(k)]
<1>1. Len(s) \in Nat /\ ChunkSize \in Nat \ {0} /\ DOMAIN s = 1..Len(s)
  BY LinksAssumption, LenProperties DEF LinksAssumption
<1>2. /\ n \in Nat /\ n * ChunkSize <= Len(s) + ChunkSize - 1
      /\ Len(s) + ChunkSize - 1 < n * ChunkSize + ChunkSize
  <2> DEFINE a == Len(s) + ChunkSize - 1
  <2>1. a \in Nat
    BY <1>1
  <2> HIDE DEF a
  <2>2. (a \div ChunkSize) \in Nat /\ (a \div ChunkSize) * ChunkSize <= a
        /\ a < (a \div ChunkSize) * ChunkSize + ChunkSize
    BY <1>1, <2>1, Quotient
  <2> QED
    BY <2>2 DEF a
<1> HIDE DEF n
<1>3. ASSUME NEW k \in 1..n
      PROVE  /\ at(k) \in Nat /\ k * ChunkSize = at(k) + ChunkSize /\ at(k) < Len(s)
  <2>1. k - 1 \in Nat /\ k \in Nat
    BY <1>2
  <2>2. (k - 1) * ChunkSize \in Nat /\ k * ChunkSize = (k - 1) * ChunkSize + ChunkSize
    BY <1>1, <2>1
  <2>3. k * ChunkSize <= n * ChunkSize
    <3>1. CASE k < n
      <4>1. k * ChunkSize \in Nat /\ n * ChunkSize \in Nat /\ k * ChunkSize + ChunkSize <= n * ChunkSize
        BY <1>1, <1>2, <2>1, <3>1, Products
      <4> QED
        BY <1>1, <4>1
    <3>2. CASE k = n
      <4>1. n * ChunkSize \in Nat
        BY <1>1, <1>2
      <4> QED
        BY <3>2, <4>1
    <3> QED
      BY <1>2, <3>1, <3>2
  <2> DEFINE u == k * ChunkSize
             v == n * ChunkSize
             w == (k - 1) * ChunkSize
  <2>4. v \in Nat
    BY <1>1, <1>2
  <2>5. w \in Nat /\ u = w + ChunkSize /\ u <= v /\ v <= Len(s) + ChunkSize - 1
    BY <1>2, <2>2, <2>3
  <2> HIDE DEF u, v, w
  <2>6. w < Len(s)
    BY <1>1, <2>4, <2>5
  <2> QED
    BY <2>5, <2>6 DEF u, w
<1>4. ASSUME NEW k \in 1..n
      PROVE  /\ to(k) \in Nat /\ at(k) < to(k) /\ to(k) <= at(k) + ChunkSize /\ to(k) <= Len(s)
  <2>1. at(k) \in Nat /\ k * ChunkSize = at(k) + ChunkSize /\ at(k) < Len(s)
    BY <1>3
  <2> DEFINE a == at(k)
             b == k * ChunkSize
  <2> HIDE DEF a, b
  <2>2. a \in Nat /\ b = a + ChunkSize /\ a < Len(s)
    BY <2>1 DEF a, b
  <2>3. to(k) = IF b < Len(s) THEN b ELSE Len(s)
    BY DEF b
  <2> HIDE DEF to
  <2>4. to(k) \in Nat /\ a < to(k) /\ to(k) <= a + ChunkSize /\ to(k) <= Len(s)
    BY <1>1, <2>2, <2>3
  <2> QED
    BY <2>4 DEF a
<1>5. ASSUME NEW k \in 1..n, NEW l \in 1..n, k < l PROVE to(k) <= at(l)
  <2>1. k - 1 \in Nat /\ l - 1 \in Nat /\ k - 1 < l - 1
    BY <1>2, <1>5
  <2>2. (k - 1) * ChunkSize \in Nat /\ (l - 1) * ChunkSize \in Nat
        /\ (k - 1) * ChunkSize + ChunkSize <= (l - 1) * ChunkSize
    BY <1>1, <2>1, Products
  <2>3. at(k) \in Nat /\ at(l) \in Nat /\ at(k) + ChunkSize <= at(l)
    BY <2>2
  <2>4. to(k) \in Nat /\ to(k) <= at(k) + ChunkSize
    BY <1>4
  <2> HIDE DEF at, to
  <2> QED
    BY <1>1, <2>3, <2>4
<1>6. ASSUME NEW k \in 1..n
      PROVE  /\ chunk(k) \in CanFrame /\ Len(chunk(k)) = to(k) - at(k)
             /\ DOMAIN chunk(k) = 1..Len(chunk(k))
             /\ \A i \in 1..Len(chunk(k)) : chunk(k)[i] = s[at(k) + i]
  <2> DEFINE a == at(k)
             b == to(k)
             c == SubSeq(s, a + 1, b)
  <2>1. a \in Nat /\ b \in Nat /\ a < b /\ b <= a + ChunkSize /\ b <= Len(s)
    BY <1>3, <1>4
  <2> HIDE DEF a, b
  <2>2. c \in Seq(Byte) /\ Len(c) = b - a /\ \A i \in 1..Len(c) : c[i] = s[a + i]
    <3> DEFINE m == a + 1
    <3>1. m \in Nat /\ m = a + 1 /\ m \in 1..Len(s) /\ m <= b
      BY <1>1, <2>1
    <3> HIDE DEF m
    <3>2. SubSeq(s, m, b) \in Seq(Byte)
      BY <1>1, <2>1, <3>1
    <3>3. Len(SubSeq(s, m, b)) = b - m + 1
      BY <1>1, <2>1, <3>1
    <3>4. \A i \in 1..(b - m + 1) : SubSeq(s, m, b)[i] = s[m + i - 1]
      BY <1>1, <2>1, <3>1
    <3> QED
      BY <2>1, <3>1, <3>2, <3>3, <3>4, SMTT(30) DEF m
  <2>3. Len(c) <= ChunkSize
    BY <1>1, <2>1, <2>2
  <2> HIDE DEF c
  <2>4. c \in CanFrame /\ DOMAIN c = 1..Len(c)
    BY <2>2, <2>3, LenProperties DEF CanFrame
  <2> QED
    BY <2>2, <2>4 DEF a, b, c
<1> HIDE DEF at, to, chunk
<1>7. t \in Seq(CanFrame) /\ DOMAIN t = 1..n /\ \A k \in 1..n : t[k] = chunk(k)
  BY <1>2, <1>6
<1> HIDE DEF t
\* The byte i of frame k is the one at place(k, i) of the packet.
<1> DEFINE place(k, i) == at(k) + i
<1>8. ASSUME NEW k \in DOMAIN t, NEW i \in DOMAIN t[k]
      PROVE  /\ place(k, i) \in DOMAIN s /\ t[k][i] = s[place(k, i)]
             /\ at(k) < place(k, i) /\ place(k, i) <= to(k)
             /\ place(k, i) \in Nat /\ i \in Nat
  <2>1. k \in 1..n /\ t[k] = chunk(k)
    BY <1>7
  <2>2. i \in 1..Len(chunk(k)) /\ Len(chunk(k)) = to(k) - at(k) /\ chunk(k)[i] = s[at(k) + i]
    BY <1>6, <2>1
  <2>3. at(k) \in Nat /\ to(k) \in Nat /\ to(k) <= Len(s)
    BY <1>3, <1>4, <2>1
  <2>4. i \in 1..(to(k) - at(k))
    BY <2>2
  <2>5. i \in Nat /\ 1 <= i /\ i <= to(k) - at(k)
    BY <2>3, <2>4
  <2> DEFINE j == at(k) + i
  <2>6. j \in 1..Len(s) /\ at(k) < j /\ j <= to(k)
    BY <1>1, <2>3, <2>5
  <2> QED
    BY <1>1, <2>1, <2>2, <2>5, <2>6
<1>9. Ordered(t)
  <2>1. ASSUME NEW k \in DOMAIN t PROVE Ascending(t[k])
    <3>1. ASSUME NEW i \in DOMAIN t[k], NEW j \in DOMAIN t[k], i < j PROVE Before(t[k][i], t[k][j])
      <4>1. i \in Nat /\ j \in Nat /\ at(k) \in Nat
        BY <1>3, <1>7, <1>8
      <4>2. place(k, i) < place(k, j)
        BY <3>1, <4>1
      <4> QED
        BY <1>8, <4>2 DEF Ascending
    <3> QED
      BY <3>1 DEF Ascending
  <2>2. ASSUME NEW k \in DOMAIN t, NEW l \in DOMAIN t, k < l PROVE Precedes(t[k], t[l])
    <3>1. ASSUME NEW i \in DOMAIN t[k], NEW j \in DOMAIN t[l] PROVE Before(t[k][i], t[l][j])
      <4>1. /\ place(k, i) \in Nat /\ place(k, i) <= to(k) /\ to(k) <= at(l)
            /\ at(l) < place(l, j) /\ place(l, j) \in Nat /\ to(k) \in Nat /\ at(l) \in Nat
        BY <1>3, <1>4, <1>5, <1>7, <1>8, <2>2
      <4>2. place(k, i) < place(l, j)
        <5> HIDE DEF place
        <5> QED
          BY <4>1
      <4> QED
        BY <1>8, <4>2 DEF Ascending
    <3> QED
      BY <3>1 DEF Precedes
  <2> QED
    BY <2>1, <2>2 DEF Ordered
<1>10. OnBus(t) \subseteq Read(s)
  BY <1>8 DEF OnBus, Read
<1>11. ASSUME NEW j \in DOMAIN s PROVE s[j] \in OnBus(t)
  <2> DEFINE q == (j - 1) \div ChunkSize
             k == q + 1
             i == j - at(k)
  <2>1. j - 1 \in Nat /\ j \in Nat /\ j <= Len(s) /\ 1 <= j
    BY <1>1
  <2>2. q \in Nat /\ q * ChunkSize <= j - 1 /\ j - 1 < q * ChunkSize + ChunkSize
    BY <1>1, <2>1, Quotient
  <2> HIDE DEF q
  <2>3. k \in 1..n
    <3>1. k \in Nat /\ 1 <= k
      BY <2>2
    <3>2. ASSUME n < k PROVE FALSE
      <4>1. n < q \/ n = q
        BY <1>2, <2>2, <3>2
      <4>2. n * ChunkSize <= q * ChunkSize
        <5>1. CASE n < q
          <6>1. n * ChunkSize \in Nat /\ q * ChunkSize \in Nat /\ n * ChunkSize + ChunkSize <= q * ChunkSize
            BY <1>1, <1>2, <2>2, <5>1, Products
          <6> QED
            BY <1>1, <6>1
        <5>2. CASE n = q
          <6>1. q * ChunkSize \in Nat
            BY <1>1, <2>2
          <6> QED
            BY <5>2, <6>1
        <5> QED
          BY <4>1, <5>1, <5>2
      <4> DEFINE u == n * ChunkSize
                 v == q * ChunkSize
      <4>3. u \in Nat /\ v \in Nat
        BY <1>1, <1>2, <2>2
      <4>4. Len(s) + ChunkSize - 1 < u + ChunkSize /\ u <= v /\ v <= j - 1
        BY <1>2, <2>2, <4>2
      <4> HIDE DEF u, v
      <4> QED
        BY <1>1, <2>1, <4>3, <4>4
    <3> QED
      BY <1>2, <3>1, <3>2
  <2>4. at(k) = q * ChunkSize
    BY <2>2 DEF at
  <2>5. to(k) = IF at(k) + ChunkSize < Len(s) THEN at(k) + ChunkSize ELSE Len(s)
    BY <1>3, <2>3 DEF to
  <2>6. at(k) \in Nat /\ to(k) \in Nat /\ at(k) <= j - 1 /\ j - 1 < at(k) + ChunkSize
    BY <1>3, <1>4, <2>2, <2>3, <2>4
  <2> HIDE DEF k
  <2>7. i \in 1..(to(k) - at(k)) /\ at(k) + i = j
    BY <1>1, <2>1, <2>5, <2>6
  <2>8. i \in DOMAIN chunk(k) /\ chunk(k)[i] = s[j]
    <3> HIDE DEF i
    <3> QED
      BY <1>6, <2>3, <2>7
  <2> HIDE DEF i
  <2>9. k \in DOMAIN t /\ s[j] \in Read(t[k])
    BY <1>7, <2>3, <2>8 DEF Read
  <2> QED
    BY <2>9 DEF OnBus
<1>12. ASSUME NEW k \in DOMAIN t PROVE t[k] # <<>>
  <2>1. Len(t[k]) = to(k) - at(k) /\ to(k) \in Nat /\ at(k) \in Nat /\ at(k) < to(k)
    BY <1>3, <1>4, <1>6, <1>7
  <2>2. ASSUME t[k] = <<>> PROVE FALSE
    <3>1. Len(t[k]) = 0
      BY <2>2
    <3> QED
      BY <2>1, <3>1
  <2> QED
    BY <2>2
<1>13. F!Chunks(s) = t
  BY DEF F!Chunks, t, chunk, at, to, n
<1> QED
  <2>1. Read(s) \subseteq OnBus(t)
    BY <1>11 DEF Read
  <2> QED
    BY <1>7, <1>9, <1>10, <1>12, <1>13, <2>1
-----------------------------------------------------------------------------
\* A CAN frame is lost: the others keep their order, and its first byte is in none of them.
LEMMA FrameLost ==
  ASSUME NEW t \in Seq(CanFrame), Ordered(t), NEW c \in DOMAIN t, t[c] # <<>>
  PROVE  LET u == F!RemoveAt(t, c) IN
         /\ u \in Seq(CanFrame) /\ Ordered(u) /\ OnBus(u) \subseteq OnBus(t)
         /\ \E x \in OnBus(t) : \A y \in OnBus(u) : Before(x, y) \/ Before(y, x)
<1> DEFINE u == F!RemoveAt(t, c)
           n == Len(t)
           from(k) == IF k < c THEN k ELSE k + 1
<1>1. n \in Nat /\ DOMAIN t = 1..n /\ c \in 1..n
  BY LenProperties
<1>2. /\ u \in Seq(CanFrame) /\ DOMAIN u = 1..(n - 1)
      /\ \A k \in 1..(n - 1) : u[k] = t[from(k)]
  <2> DEFINE a == SubSeq(t, 1, c - 1)
             b == SubSeq(t, c + 1, n)
  <2>1. a \in Seq(CanFrame) /\ Len(a) = c - 1 /\ \A k \in 1..(c - 1) : a[k] = t[k]
    BY <1>1
  <2>2. b \in Seq(CanFrame) /\ Len(b) = n - c /\ \A k \in 1..(n - c) : b[k] = t[c + k]
    BY <1>1
  <2>3. u = a \o b
    BY DEF F!RemoveAt
  <2> HIDE DEF a, b, u, n
  <2>4. /\ u \in Seq(CanFrame) /\ Len(u) = (c - 1) + (n - c)
        /\ \A k \in 1..Len(u) : u[k] = IF k <= c - 1 THEN a[k] ELSE b[k - (c - 1)]
    <3>1. /\ a \o b \in Seq(CanFrame) /\ Len(a \o b) = Len(a) + Len(b)
          /\ \A k \in 1..(Len(a) + Len(b)) : (a \o b)[k] = IF k <= Len(a) THEN a[k] ELSE b[k - Len(a)]
      BY <2>1, <2>2, ConcatProperties
    <3> QED
      BY <2>1, <2>2, <2>3, <3>1, Zenon
  <2>5. Len(u) = n - 1 /\ DOMAIN u = 1..(n - 1)
    BY <1>1, <2>4, LenProperties
  <2>6. ASSUME NEW k \in 1..(n - 1) PROVE u[k] = t[from(k)]
    <3>1. CASE k < c
      <4>1. k \in 1..(c - 1) /\ k <= c - 1
        BY <1>1, <3>1
      <4> QED
        BY <2>1, <2>4, <2>5, <3>1, <4>1
    <3>2. CASE ~(k < c)
      <4>1. ~(k <= c - 1) /\ k - (c - 1) \in 1..(n - c) /\ c + (k - (c - 1)) = k + 1
        BY <1>1, <3>2
      <4> QED
        BY <2>2, <2>4, <2>5, <3>2, <4>1
    <3> QED
      BY <3>1, <3>2
  <2> QED
    BY <2>4, <2>5, <2>6
<1> HIDE DEF u, n
<1>3. \A k \in DOMAIN u : from(k) \in DOMAIN t /\ from(k) # c /\ u[k] = t[from(k)]
  BY <1>1, <1>2
<1>4. \A k, l \in DOMAIN u : k < l => from(k) < from(l)
  BY <1>1, <1>2
<1> HIDE DEF from
<1>5. Ordered(u)
  BY <1>3, <1>4 DEF Ordered
<1>6. OnBus(u) \subseteq OnBus(t)
  BY <1>3 DEF OnBus
<1>7. \E x \in OnBus(t) : \A y \in OnBus(u) : Before(x, y) \/ Before(y, x)
  <2> DEFINE x == t[c][1]
  <2>1. t[c] \in Seq(Byte)
    BY <1>1 DEF CanFrame
  <2>2. 1 \in DOMAIN t[c]
    BY <2>1, EmptySeq, LenProperties
  <2>3. x \in OnBus(t)
    BY <2>2 DEF OnBus, Read
  <2>4. ASSUME NEW k \in DOMAIN u, NEW i \in DOMAIN u[k] PROVE Before(x, u[k][i]) \/ Before(u[k][i], x)
    <3>1. from(k) < c \/ c < from(k)
      BY <1>1, <1>3
    <3> QED
      BY <1>3, <2>2, <3>1 DEF Ordered, Precedes
  <2> QED
    BY <2>3, <2>4 DEF OnBus, Read
<1> QED
  BY <1>2, <1>5, <1>6, <1>7 DEF u

\* The gimbal sends a packet, of which a CAN frame may be lost.
LEMMA BusSends ==
  ASSUME BusInv, NEW n \in {MinSize, MaxSize}, NEW plain \in BOOLEAN, NEW f \in Nat, f # 1, NEW c \in Nat,
         F!GimbalSends(n, plain, f, c)
  PROVE  BusInv'
<1> DEFINE p == f_sent + 1
           s == F!Packet(p, n, plain, f, c)
           t == F!Chunks(s)
           way == Read(f_rx) \cup OnBus(f_bus)
<1>1. /\ f_sent \in Nat /\ f_rx \in Seq(Byte) /\ f_bus \in Seq(CanFrame) /\ Len(f_rx) <= MaxSize - 1 + ChunkSize
      /\ Sequel(f_rx, f_bus) /\ WayInv(way, f_delivered, f_expected, f_sent)
  BY DEF BusInv, BusTyping
<1>2. n \in MinSize..MaxSize /\ n \in Nat
  BY LinksAssumption DEF LinksAssumption
<1>3. /\ s \in Seq(Byte) /\ DOMAIN s = 1..n
      /\ \A i \in 1..n : /\ s[i].packet = p /\ s[i].at = i /\ s[i].size = n /\ s[i].plain = plain
                         /\ s[i].at = 1 => s[i].claim = n
  <2>1. \A i \in 1..n : [packet |-> p, at |-> i, size |-> n, plain |-> plain,
                         claim |-> IF i = 1 THEN n ELSE IF i = f THEN c ELSE 0] \in Byte
    BY <1>1, <1>2 DEF Byte
  <2> QED
    BY <1>2, <2>1 DEF F!Packet, F!NoClaim
<1> HIDE DEF p, s
<1>4. Ascending(s)
  <2>1. \A i, j \in DOMAIN s : i < j => s[i].packet = s[j].packet /\ s[i].at < s[j].at
    BY <1>3
  <2> QED
    BY <2>1, Zenon DEF Ascending, Before
<1>5. t \in Seq(CanFrame) /\ Ordered(t) /\ OnBus(t) = Read(s) /\ \A k \in DOMAIN t : t[k] # <<>>
  BY <1>3, <1>4, ChunksFit
<1> HIDE DEF t
<1>6. \A x \in Read(s) : /\ x.packet = p /\ x.at \in 1..n /\ x.size = n /\ x.plain = plain
                         /\ x.at = 1 => x.claim = n
  BY <1>3 DEF Read
<1>7. \A i \in 1..n : \E x \in Read(s) : x.at = i
  BY <1>3 DEF Read
<1>8. Read(s) \in SUBSET Byte /\ way \in SUBSET Byte
  BY <1>1, <1>3, WayTyping
<1> HIDE DEF way
<1>9. /\ f_sent' = p /\ f_rx' = f_rx /\ f_delivered' = f_delivered
      /\ \/ /\ f_bus' = f_bus \o t
            /\ f_expected' = IF plain THEN Append(f_expected, p) ELSE f_expected
         \/ /\ \E i \in DOMAIN t : f_bus' = f_bus \o F!RemoveAt(t, i)
            /\ f_expected' = f_expected
  BY DEF F!GimbalSends, t, s, p
<1>10. ASSUME NEW u \in Seq(CanFrame), Ordered(u), OnBus(u) \subseteq Read(s), f_bus' = f_bus \o u,
              \/ /\ plain /\ \A i \in 1..n : \E x \in OnBus(u) : x.at = i
                 /\ f_expected' = Append(f_expected, p)
              \/ f_expected' = f_expected /\ (~plain \/ \E i \in 1..n : \A x \in OnBus(u) : x.at # i)
       PROVE  BusInv'
  <2>1. \A x \in OnBus(u) : /\ x.packet = f_sent + 1 /\ x.at \in 1..n /\ x.size = n /\ x.plain = plain
                            /\ x.at = 1 => x.claim = n
    BY <1>6, <1>10 DEF p
  <2>2. WayInv(way \cup OnBus(u), f_delivered, f_expected', p)
    <3>1. OnBus(u) \in SUBSET Byte
      BY <1>8, <1>10
    <3> DEFINE new == OnBus(u)
    <3>2. \/ /\ plain /\ \A i \in 1..n : \E x \in new : x.at = i
             /\ f_expected' = Append(f_expected, f_sent + 1)
          \/ f_expected' = f_expected /\ (~plain \/ \E i \in 1..n : \A x \in new : x.at # i)
      BY <1>10 DEF p
    <3> HIDE DEF new
    <3>3. \A x \in new : /\ x.packet = f_sent + 1 /\ x.at \in 1..n /\ x.size = n /\ x.plain = plain
                         /\ x.at = 1 => x.claim = n
      BY <2>1 DEF new
    <3>4. new \in SUBSET Byte
      BY <3>1 DEF new
    <3>5. WayInv(way \cup new, f_delivered, f_expected', f_sent + 1)
      BY <1>1, <1>2, <1>8, <3>2, <3>3, <3>4, WayGrows, ZenonT(40)
    <3> QED
      BY <3>5 DEF p, new
  <2>3. \A x \in way, y \in OnBus(u) : Before(x, y)
    <3>1. \A x \in way : x.packet \in 1..f_sent
      BY <1>1 DEF WayInv, Genuine
    <3>2. \A x \in way, y \in OnBus(u) : x.packet < y.packet
      BY <1>1, <2>1, <3>1
    <3> QED
      BY <3>2, Zenon DEF Before
  <2>4. Sequel(f_rx, f_bus \o u) /\ OnBus(f_bus \o u) = OnBus(f_bus) \cup OnBus(u)
    BY <1>1, <1>10, <2>3, BusGrows DEF way
  <2>5. f_bus' \in Seq(CanFrame) /\ f_sent' \in Nat
    <3>1. f_bus \o u \in Seq(CanFrame)
      BY <1>1, <1>10, ConcatProperties
    <3> QED
      BY <1>1, <1>9, <1>10, <3>1 DEF p
  <2>6. Read(f_rx) \cup OnBus(f_bus') = way \cup OnBus(u)
    BY <1>10, <2>4 DEF way
  <2> QED
    BY <1>1, <1>9, <1>10, <2>2, <2>4, <2>5, <2>6 DEF BusInv, BusTyping
<1>11. CASE /\ f_bus' = f_bus \o t
            /\ f_expected' = IF plain THEN Append(f_expected, p) ELSE f_expected
  <2>1. OnBus(t) \subseteq Read(s) /\ \A i \in 1..n : \E x \in OnBus(t) : x.at = i
    BY <1>5, <1>7
  <2> QED
    BY <1>5, <1>10, <1>11, <2>1
<1>12. ASSUME NEW i \in DOMAIN t, f_bus' = f_bus \o F!RemoveAt(t, i), f_expected' = f_expected
       PROVE  BusInv'
  <2> DEFINE u == F!RemoveAt(t, i)
  <2>1. /\ u \in Seq(CanFrame) /\ Ordered(u) /\ OnBus(u) \subseteq OnBus(t)
        /\ \E x \in OnBus(t) : \A y \in OnBus(u) : Before(x, y) \/ Before(y, x)
    BY <1>5, FrameLost
  <2> HIDE DEF u
  <2>2. PICK x \in OnBus(t) : \A y \in OnBus(u) : Before(x, y) \/ Before(y, x)
    BY <2>1
  <2>3. x.packet = p /\ x.at \in 1..n
    BY <1>5, <1>6
  <2>4. ASSUME NEW y \in OnBus(u) PROVE y.at # x.at
    <3>1. y.packet = p /\ y.at \in 1..n /\ p \in Nat
      BY <1>1, <1>5, <1>6, <2>1 DEF p
    <3>2. Before(x, y) \/ Before(y, x)
      BY <2>2
    <3> QED
      BY <1>2, <2>3, <3>1, <3>2 DEF Before
  <2>5. \E k \in 1..n : \A y \in OnBus(u) : y.at # k
    BY <2>3, <2>4
  <2>6. OnBus(u) \subseteq Read(s)
    BY <1>5, <2>1
  <2> QED
    BY <1>10, <1>12, <2>1, <2>5, <2>6 DEF u
<1> QED
  BY <1>9, <1>11, <1>12

LEMMA BusInit == F!Init => BusInv
<1> SUFFICES ASSUME F!Init PROVE BusInv
  OBVIOUS
<1>1. /\ f_bus = <<>> /\ f_rx = <<>> /\ f_delivered = <<>> /\ f_expected = <<>> /\ f_sent = 0
  BY DEF F!Init
<1>2. MaxSize \in Nat /\ 1 <= MaxSize /\ ChunkSize \in Nat
  BY LinksAssumption DEF LinksAssumption
<1>3. BusTyping
  BY <1>1, <1>2 DEF BusTyping
<1>4. Sequel(<<>>, <<>>)
  BY DEF Sequel, Ascending, Ordered
<1>5. Read(<<>>) = {} /\ OnBus(<<>>) = {}
  BY DEF Read, OnBus
<1>6. WayInv({}, <<>>, <<>>, 0)
  BY DEF WayInv, Genuine, ExpectsWhole, DeliversInOrder
<1> QED
  BY <1>1, <1>3, <1>4, <1>5, <1>6 DEF BusInv

LEMMA BusKept == BusInv /\ [F!Next]_f_vars => BusInv'
<1> SUFFICES ASSUME BusInv, [F!Next]_f_vars PROVE BusInv'
  OBVIOUS
<1>1. CASE F!Next
  <2>1. MinSize \in Nat /\ MaxSize \in Nat
    BY LinksAssumption DEF LinksAssumption
  <2>2. F!Claims \subseteq Nat /\ F!NoClaim \in Nat /\ F!NoClaim # 1
    BY <2>1 DEF F!Claims, F!NoClaim
  <2>3. \A n \in {MinSize, MaxSize} : \A f \in 2..n : f \in Nat /\ f # 1
    BY <2>1
  <2>4. \A n \in {MinSize, MaxSize} : \A plain \in BOOLEAN : \A f \in Nat : \A c \in Nat :
          f # 1 /\ F!GimbalSends(n, plain, f, c) => BusInv'
    BY BusSends
  <2> QED
    BY <1>1, <2>2, <2>3, <2>4, BusExtracts, BusReceives, Zenon DEF F!Next
<1>2. CASE UNCHANGED f_vars
  BY <1>2 DEF f_vars, BusInv, BusTyping
<1> QED
  BY <1>1, <1>2

-----------------------------------------------------------------------------
(***************************************************************************)
(* The settings of the gimbal. It keeps, byte by byte, what was set last;  *)
(* so whatever is read from it, by inquiry or by report, is that. Of the   *)
(* stiffness of the motors this is so for the pitch axis.                  *)
(***************************************************************************)
Settings ==
  [angles : I!Reach, limits : I!LimitRanges, stiffness : [I!Axis -> I!StiffnessRange],
   focus : I!FocusRange, recording : BOOLEAN]

\* The bytes that are sent for the stiffness of the motors.
StiffnessBytes(s) == <<s["pitch"], s["roll"], s["yaw"]>>

\* The bytes the gimbal keeps for settings.
Coded(s) ==
  [angles |-> [a \in I!Axis |-> I!Word(s.angles[a])], limits |-> I!LimitBytes(s.limits),
   stiffness |-> StiffnessBytes(s.stiffness), focus |-> I!Word(s.focus),
   recording |-> IF s.recording THEN 2 ELSE 0]

ItemsInv ==
  /\ i_asked \in Settings
  /\ i_held = Coded(i_asked)
  /\ I!SettingsReadBack

\* A word has two bytes.
LEMMA WordIsRow ==
  ASSUME NEW v \in Int
  PROVE  I!Word(v) \in Seq(Int) /\ Len(I!Word(v)) = 2
BY DEF I!Word

\* They are the low one and the high one; and holds every number of 16 bits with its sign.
LEMMA WordBytes ==
  ASSUME NEW v \in Int
  PROVE  /\ I!Word(v)[1] = (v % 65536) % 256 /\ I!Word(v)[2] = (v % 65536) \div 256
BY DEF I!Word

LEMMA WordReadsBack ==
  ASSUME NEW v \in Int, -32768 <= v, v <= 32767, NEW b, NEW k \in Nat,
         b[k + 1] = I!Word(v)[1], b[k + 2] = I!Word(v)[2]
  PROVE  I!ReadSigned(b, k) = v
<1> DEFINE u == v % 65536
<1>1. v >= 0 => u = v
  OBVIOUS
<1>2. v < 0 => u = v + 65536
  OBVIOUS
<1>3. b[k + 1] = u % 256 /\ b[k + 2] = u \div 256
  BY WordBytes
<1> HIDE DEF u
<1>4. u \in Int
  BY <1>1, <1>2
<1>5. (u % 256) + 256 * (u \div 256) = u
  BY <1>4
<1>6. I!ReadWord(b, k) = u
  BY <1>3, <1>5 DEF I!ReadWord
<1>7. CASE v >= 0
  BY <1>1, <1>6, <1>7 DEF I!ReadSigned
<1>8. CASE v < 0
  <2>1. u >= 32768 /\ u - 65536 = v
    BY <1>2, <1>8
  <2> QED
    BY <1>6, <2>1 DEF I!ReadSigned
<1> QED
  BY <1>7, <1>8

\* A number of 16 bits without a sign.
LEMMA WordReadsUnsigned ==
  ASSUME NEW v \in Nat, v < 65536, NEW b, NEW k \in Nat,
         b[k + 1] = I!Word(v)[1], b[k + 2] = I!Word(v)[2]
  PROVE  I!ReadWord(b, k) = v
<1>1. v % 65536 = v
  OBVIOUS
<1>2. b[k + 1] = v % 256 /\ b[k + 2] = v \div 256
  <2>1. v \in Int
    OBVIOUS
  <2>2. b[k + 1] = (v % 65536) % 256 /\ b[k + 2] = (v % 65536) \div 256
    BY <2>1, WordBytes
  <2> QED
    BY <1>1, <2>2
<1>3. (v % 256) + 256 * (v \div 256) = v
  OBVIOUS
<1> QED
  BY <1>2, <1>3 DEF I!ReadWord

\* An angle in range is a number of 16 bits.
LEMMA AngleRange ==
  ASSUME NEW p \in I!Reach, NEW a \in I!Axis
  PROVE  p[a] \in Int /\ -32768 <= p[a] /\ p[a] <= 32767
<1>1. p[a] \in (-1800)..1800
  BY DEF I!Reach
<1>2. ASSUME NEW x, x \in (-1800)..1800 PROVE x \in Int
  BY <1>2
<1>3. ASSUME NEW x, x \in (-1800)..1800 PROVE -1800 <= x
  BY <1>3
<1>4. ASSUME NEW x, x \in (-1800)..1800 PROVE x <= 1800
  BY <1>4
<1>5. p[a] \in Int
  BY <1>1, <1>2
<1>6. -1800 <= p[a]
  BY <1>1, <1>3
<1>7. p[a] <= 1800
  BY <1>1, <1>4
<1> HIDE <1>1
<1> QED
  BY <1>5, <1>6, <1>7

\* Two rows of bytes, one behind the other.
LEMMA RowOfTwo ==
  ASSUME NEW s \in Seq(Int), NEW t \in Seq(Int)
  PROVE  /\ s \o t \in Seq(Int) /\ Len(s \o t) = Len(s) + Len(t)
         /\ \A i \in 1..Len(s) : (s \o t)[i] = s[i]
         /\ \A i \in 1..Len(t) : (s \o t)[Len(s) + i] = t[i]
<1>1. s \o t \in Seq(Int) /\ Len(s \o t) = Len(s) + Len(t)
  BY ConcatProperties
<1>2. Len(s) \in Nat /\ Len(t) \in Nat
  BY LenProperties
<1>3. ASSUME NEW i \in 1..Len(s) PROVE (s \o t)[i] = s[i]
  <2>1. i \in 1..(Len(s) + Len(t)) /\ i <= Len(s)
    BY <1>2
  <2> QED
    BY <2>1, ConcatProperties
<1>4. ASSUME NEW i \in 1..Len(t) PROVE (s \o t)[Len(s) + i] = t[i]
  <2>1. Len(s) + i \in 1..(Len(s) + Len(t)) /\ ~(Len(s) + i <= Len(s)) /\ (Len(s) + i) - Len(s) = i
    BY <1>2
  <2>2. (s \o t)[Len(s) + i] = t[(Len(s) + i) - Len(s)]
    BY <2>1, ConcatProperties
  <2> QED
    BY <2>1, <2>2
<1> QED
  BY <1>1, <1>3, <1>4

\* The words of the three axes, one behind the other.
WordRow(p) == I!Word(p["yaw"]) \o I!Word(p["roll"]) \o I!Word(p["pitch"])

LEMMA RowBytes ==
  ASSUME NEW p \in I!Reach
  PROVE  /\ WordRow(p) \in Seq(Int) /\ Len(WordRow(p)) = 6
         /\ \A a \in I!Axis : /\ WordRow(p)[I!AxisOffset(a) + 1] = I!Word(p[a])[1]
                              /\ WordRow(p)[I!AxisOffset(a) + 2] = I!Word(p[a])[2]
<1> DEFINE Y == I!Word(p["yaw"])
           R2 == I!Word(p["roll"])
           P2 == I!Word(p["pitch"])
           yr == Y \o R2
           yrp == yr \o P2
<1>1. /\ Y \in Seq(Int) /\ Len(Y) = 2 /\ R2 \in Seq(Int) /\ Len(R2) = 2
      /\ P2 \in Seq(Int) /\ Len(P2) = 2
  <2>1. p["yaw"] \in Int /\ p["roll"] \in Int /\ p["pitch"] \in Int
    BY AngleRange DEF I!Axis
  <2> HIDE DEF Y, R2, P2
  <2>2. Y \in Seq(Int) /\ Len(Y) = 2
    BY <2>1, WordIsRow DEF Y
  <2>3. R2 \in Seq(Int) /\ Len(R2) = 2
    BY <2>1, WordIsRow DEF R2
  <2>4. P2 \in Seq(Int) /\ Len(P2) = 2
    BY <2>1, WordIsRow DEF P2
  <2> QED
    BY <2>2, <2>3, <2>4
<1>2. yrp = WordRow(p)
  BY DEF WordRow
<1> HIDE DEF Y, R2, P2
<1>3. /\ yr \in Seq(Int) /\ Len(yr) = 4
      /\ yr[1] = Y[1] /\ yr[2] = Y[2] /\ yr[3] = R2[1] /\ yr[4] = R2[2]
  <2>1. /\ yr \in Seq(Int) /\ Len(yr) = Len(Y) + Len(R2)
        /\ \A i \in 1..Len(Y) : yr[i] = Y[i]
        /\ \A i \in 1..Len(R2) : yr[Len(Y) + i] = R2[i]
    BY <1>1, RowOfTwo, Zenon
  <2> HIDE DEF yr
  <2>2. /\ \A i \in 1..2 : yr[i] = Y[i]
        /\ \A i \in 1..2 : yr[2 + i] = R2[i]
    BY <1>1, <2>1
  <2> QED
    BY <1>1, <2>1, <2>2
<1> HIDE DEF yr
<1>4. /\ yrp \in Seq(Int) /\ Len(yrp) = 6
      /\ yrp[1] = Y[1] /\ yrp[2] = Y[2] /\ yrp[3] = R2[1] /\ yrp[4] = R2[2]
      /\ yrp[5] = P2[1] /\ yrp[6] = P2[2]
  <2>1. /\ yrp \in Seq(Int) /\ Len(yrp) = Len(yr) + Len(P2)
        /\ \A i \in 1..Len(yr) : yrp[i] = yr[i]
        /\ \A i \in 1..Len(P2) : yrp[Len(yr) + i] = P2[i]
    BY <1>1, <1>3, RowOfTwo, Zenon
  <2> HIDE DEF yrp
  <2>2. /\ \A i \in 1..4 : yrp[i] = yr[i]
        /\ \A i \in 1..2 : yrp[4 + i] = P2[i]
    BY <1>1, <1>3, <2>1
  <2> QED
    BY <1>1, <1>3, <2>1, <2>2
<1> HIDE DEF yrp
<1>5. ASSUME NEW a \in I!Axis
      PROVE  /\ yrp[I!AxisOffset(a) + 1] = I!Word(p[a])[1]
             /\ yrp[I!AxisOffset(a) + 2] = I!Word(p[a])[2]
  <2>1. CASE a = "yaw"
    <3>1. I!AxisOffset(a) = 0
      BY <2>1 DEF I!AxisOffset, I!AxisPlace
    <3> QED
      BY <1>4, <2>1, <3>1 DEF Y
  <2>2. CASE a = "roll"
    <3>1. I!AxisOffset(a) = 2
      BY <2>2 DEF I!AxisOffset, I!AxisPlace
    <3> QED
      BY <1>4, <2>2, <3>1 DEF R2
  <2>3. CASE a = "pitch"
    <3>1. I!AxisOffset(a) = 4
      BY <2>3 DEF I!AxisOffset, I!AxisPlace
    <3> QED
      BY <1>4, <2>3, <3>1 DEF P2
  <2> QED
    BY <2>1, <2>2, <2>3 DEF I!Axis
<1> QED
  BY <1>2, <1>4, <1>5

LEMMA OffsetRange ==
  ASSUME NEW a \in I!Axis
  PROVE  I!AxisOffset(a) \in {0, 2, 4}
BY DEF I!Axis, I!AxisOffset, I!AxisPlace

\* Wherever the row is in the bytes that come, it is read as the angles.
LEMMA RowReadsBack ==
  ASSUME NEW p \in I!Reach, NEW b, NEW k \in Nat,
         \A i \in 1..6 : b[k + i] = WordRow(p)[i]
  PROVE  I!Angles(b, k) = p
<1>1. ASSUME NEW a \in I!Axis PROVE I!ReadSigned(b, k + I!AxisOffset(a)) = p[a]
  <2> DEFINE o == I!AxisOffset(a)
  <2>1. o \in {0, 2, 4}
    BY OffsetRange
  <2>2. WordRow(p)[o + 1] = I!Word(p[a])[1] /\ WordRow(p)[o + 2] = I!Word(p[a])[2]
    BY RowBytes
  <2> HIDE DEF o
  <2>3. /\ o + 1 \in 1..6 /\ o + 2 \in 1..6 /\ k + o \in Nat
        /\ k + (o + 1) = (k + o) + 1 /\ k + (o + 2) = (k + o) + 2
    BY <2>1
  <2>4. b[k + (o + 1)] = WordRow(p)[o + 1] /\ b[k + (o + 2)] = WordRow(p)[o + 2]
    BY <2>3
  <2>5. b[(k + o) + 1] = I!Word(p[a])[1] /\ b[(k + o) + 2] = I!Word(p[a])[2]
    BY <2>2, <2>3, <2>4
  <2>6. p[a] \in Int /\ -32768 <= p[a] /\ p[a] <= 32767
    BY AngleRange
  <2>7. I!ReadSigned(b, k + o) = p[a]
    BY <2>3, <2>5, <2>6, WordReadsBack
  <2> QED
    BY <2>7 DEF o
<1>2. p = [a \in I!Axis |-> p[a]]
  BY DEF I!Reach
<1> QED
  BY <1>1, <1>2, Zenon DEF I!Angles

\* The bytes of a position in a command.
Flags(absolute, enabled) ==
  I!Flag(1, absolute) + I!Flag(2, "yaw" \notin enabled) + I!Flag(4, "roll" \notin enabled)
  + I!Flag(8, "pitch" \notin enabled)

LEMMA CommandBytes ==
  ASSUME NEW p \in I!Reach, NEW absolute \in BOOLEAN, NEW enabled \in SUBSET I!Axis
  PROVE  LET c == I!dji_rsdk_set_position(p, absolute, enabled) IN
         /\ c \in Seq(Int) /\ Len(c) = 8
         /\ \A i \in 1..6 : c[i] = WordRow(p)[i]
         /\ c[7] = Flags(absolute, enabled)
<1> DEFINE row == WordRow(p)
           last == <<Flags(absolute, enabled), 0>>
           c == row \o last
<1>1. c = I!dji_rsdk_set_position(p, absolute, enabled)
  BY DEF I!dji_rsdk_set_position, Flags, WordRow
<1>2. Flags(absolute, enabled) \in Int
  <2>1. /\ I!Flag(1, absolute) \in {0, 1} /\ I!Flag(2, "yaw" \notin enabled) \in {0, 2}
        /\ I!Flag(4, "roll" \notin enabled) \in {0, 4}
        /\ I!Flag(8, "pitch" \notin enabled) \in {0, 8}
    BY DEF I!Flag
  <2> QED
    BY <2>1 DEF Flags
<1>3. last \in Seq(Int) /\ Len(last) = 2 /\ last[1] = Flags(absolute, enabled)
  BY <1>2
<1>4. row \in Seq(Int) /\ Len(row) = 6
  BY RowBytes
<1> HIDE DEF row, last
<1>5. /\ c \in Seq(Int) /\ Len(c) = Len(row) + Len(last)
      /\ \A i \in 1..Len(row) : c[i] = row[i]
      /\ \A i \in 1..Len(last) : c[Len(row) + i] = last[i]
  BY <1>3, <1>4, RowOfTwo, Zenon
<1> HIDE DEF c
<1>6. Len(c) = 8 /\ (\A i \in 1..6 : c[i] = row[i]) /\ c[7] = last[1]
  <2>1. 1 \in 1..Len(last) /\ Len(row) + 1 = 7
    BY <1>3, <1>4
  <2>2. c[7] = last[1]
    BY <1>5, <2>1
  <2> QED
    BY <1>3, <1>4, <1>5, <2>2
<1>7. c \in Seq(Int) /\ Len(c) = 8 /\ (\A i \in 1..6 : c[i] = WordRow(p)[i])
  BY <1>5, <1>6 DEF row
<1> QED
  BY <1>1, <1>3, <1>6, <1>7

\* The bits that say which axes stay, and whether the position is absolute.
LEMMA CommandBits ==
  ASSUME NEW absolute \in BOOLEAN, NEW enabled \in SUBSET I!Axis
  PROVE  LET flags == Flags(absolute, enabled) IN
         /\ flags % 2 = 1 <=> absolute
         /\ \A a \in I!Axis : (flags \div I!AxisBit(a)) % 2 = 1 <=> a \notin enabled
<1> DEFINE y == I!Flag(2, "yaw" \notin enabled)
           r == I!Flag(4, "roll" \notin enabled)
           p == I!Flag(8, "pitch" \notin enabled)
           s == I!Flag(1, absolute)
           flags == Flags(absolute, enabled)
<1>1. /\ y \in {0, 2} /\ (y = 2 <=> "yaw" \notin enabled)
      /\ r \in {0, 4} /\ (r = 4 <=> "roll" \notin enabled)
      /\ p \in {0, 8} /\ (p = 8 <=> "pitch" \notin enabled)
      /\ s \in {0, 1} /\ (s = 1 <=> absolute)
  BY DEF I!Flag
<1>2. flags = s + y + r + p
  BY DEF Flags
<1> HIDE DEF y, r, p, s, flags
<1>3. /\ flags % 2 = 1 <=> s = 1
      /\ (flags \div 2) % 2 = 1 <=> y = 2
      /\ (flags \div 4) % 2 = 1 <=> r = 4
      /\ (flags \div 8) % 2 = 1 <=> p = 8
  <2>1. s \in Int /\ y \in Int /\ r \in Int /\ p \in Int
    BY <1>1
  <2>2. flags % 2 = 1 <=> s = 1
    BY <1>1, <1>2
  <2>3. (flags \div 2) % 2 = 1 <=> y = 2
    BY <1>1, <1>2
  <2>4. (flags \div 4) % 2 = 1 <=> r = 4
    BY <1>1, <1>2
  <2>5. (flags \div 8) % 2 = 1 <=> p = 8
    BY <1>1, <1>2
  <2> QED
    BY <2>2, <2>3, <2>4, <2>5
<1>4. ASSUME NEW a \in I!Axis PROVE (flags \div I!AxisBit(a)) % 2 = 1 <=> a \notin enabled
  <2>1. CASE a = "yaw"
    BY <1>1, <1>3, <2>1 DEF I!AxisBit
  <2>2. CASE a = "roll"
    BY <1>1, <1>3, <2>2 DEF I!AxisBit
  <2>3. CASE a = "pitch"
    BY <1>1, <1>3, <2>3 DEF I!AxisBit
  <2> QED
    BY <2>1, <2>2, <2>3 DEF I!Axis
<1> QED
  BY <1>1, <1>3, <1>4 DEF flags

\* A part of a row of bytes.
LEMMA PartOf ==
  ASSUME NEW b \in Seq(Int), NEW k \in Nat, NEW n \in Nat, k + n <= Len(b)
  PROVE  /\ I!At(b, k, n) \in Seq(Int) /\ Len(I!At(b, k, n)) = n
         /\ \A i \in 1..n : I!At(b, k, n)[i] = b[k + i]
<1> DEFINE t == SubSeq(b, k + 1, k + n)
<1>1. Len(b) \in Nat
  BY LenProperties
<1>2. t \in Seq(Int) /\ Len(t) = n
  BY <1>1
<1>3. ASSUME NEW i \in 1..n PROVE t[i] = b[k + i]
  <2>1. i \in Nat /\ 1 <= i /\ i <= n
    OBVIOUS
  <2>2. (k + 1) + i - 1 = k + i /\ i <= (k + n) - (k + 1) + 1
    BY <2>1
  <2>3. k + 1 \in Int /\ k + n \in Int /\ i \in 1..((k + n) - (k + 1) + 1)
    BY <2>1, <2>2
  <2>4. \A j \in (k + 1)..(k + n) : b[j] \in Int
    BY <1>1
  <2>5. t[i] = b[(k + 1) + i - 1]
    BY <2>3, <2>4, SubSeqProperties
  <2> QED
    BY <2>2, <2>5
<1> QED
  BY <1>2, <1>3, Zenon DEF I!At

LEMMA SameRow ==
  ASSUME NEW s \in Seq(Int), NEW t \in Seq(Int), Len(s) = Len(t),
         \A i \in 1..Len(s) : s[i] = t[i]
  PROVE  s = t
BY SeqEqual

\* A word that is cut out of a row is that word.
LEMMA WordCut ==
  ASSUME NEW v \in Int, NEW b \in Seq(Int), NEW k \in Nat, k + 2 <= Len(b),
         b[k + 1] = I!Word(v)[1], b[k + 2] = I!Word(v)[2]
  PROVE  I!At(b, k, 2) = I!Word(v)
<1> DEFINE w == I!Word(v)
           s == I!At(b, k, 2)
<1>1. w \in Seq(Int) /\ Len(w) = 2
  BY WordIsRow
<1>2. s \in Seq(Int) /\ Len(s) = 2 /\ \A i \in 1..2 : s[i] = b[k + i]
  <2>1. 2 \in Nat
    OBVIOUS
  <2> QED
    BY <2>1, PartOf, Zenon
<1>3. b[k + 1] = w[1] /\ b[k + 2] = w[2]
  OBVIOUS
<1> HIDE DEF w, s
<1>4. \A i \in 1..2 : s[i] = w[i]
  <2>1. ASSUME NEW i \in 1..2 PROVE s[i] = w[i]
    <3>1. CASE i = 1
      BY <1>2, <1>3, <3>1
    <3>2. CASE i = 2
      BY <1>2, <1>3, <3>2
    <3> QED
      BY <3>1, <3>2
  <2> QED
    BY <2>1
<1>5. s = w
  BY <1>1, <1>2, <1>4, SameRow
<1> QED
  BY <1>5 DEF s, w

\* The limits of the axes are bytes, in the same order in both directions.
LEMMA LimitsAreRow ==
  ASSUME NEW l \in I!LimitRanges
  PROVE  I!LimitBytes(l) \in Seq(Int) /\ Len(I!LimitBytes(l)) = 6
BY DEF I!LimitRanges, I!LimitBytes

LEMMA LimitsReadBack ==
  ASSUME NEW l \in I!LimitRanges, NEW b, \A i \in 1..6 : b[i] = I!LimitBytes(l)[i]
  PROVE  I!LimitsFrom(b) = l
<1>1. /\ b[1] = l.pitch_max /\ b[2] = l.pitch_min /\ b[3] = l.yaw_max
      /\ b[4] = l.yaw_min /\ b[5] = l.roll_max /\ b[6] = l.roll_min
  BY DEF I!LimitBytes
<1> QED
  BY <1>1 DEF I!LimitsFrom, I!LimitRanges

\* The stiffness of the motors is three bytes, that of the pitch axis first.
LEMMA StiffnessIsRow ==
  ASSUME NEW s \in [I!Axis -> I!StiffnessRange]
  PROVE  /\ StiffnessBytes(s) \in Seq(Int) /\ Len(StiffnessBytes(s)) = 3
         /\ \A i \in 1..3 : StiffnessBytes(s)[i] \in I!StiffnessRange
         /\ StiffnessBytes(s)[1] = s["pitch"]
<1>1. "yaw" \in I!Axis /\ "roll" \in I!Axis /\ "pitch" \in I!Axis
  BY DEF I!Axis
<1>2. s["yaw"] \in I!StiffnessRange /\ s["roll"] \in I!StiffnessRange /\ s["pitch"] \in I!StiffnessRange
  BY <1>1
<1> QED
  BY <1>2 DEF StiffnessBytes, I!StiffnessRange

LEMMA PitchStiffness ==
  ASSUME NEW b PROVE I!StiffnessFrom(b)["pitch"] = b[1]
BY DEF I!StiffnessFrom, I!Axis
-----------------------------------------------------------------------------
LEMMA ItemsInit == I!Init => ItemsInv
<1> SUFFICES ASSUME I!Init PROVE ItemsInv
  OBVIOUS
<1>1. [a \in I!Axis |-> 0] \in I!Reach
  <2>1. ASSUME NEW a \in I!Axis PROVE 0 \in (-1800)..1800
    OBVIOUS
  <2>2. 0 \in (-300)..300
    OBVIOUS
  <2>3. 0 \in (-560)..1460
    OBVIOUS
  <2>4. "roll" \in I!Axis /\ "pitch" \in I!Axis
    BY DEF I!Axis
  <2> QED
    BY <2>1, <2>2, <2>3, <2>4 DEF I!Reach
<1>2. I!NoLimits \in I!LimitRanges
  BY DEF I!NoLimits, I!LimitRanges
<1>3. I!Word(0) = <<0, 0>>
  BY DEF I!Word
<1>4. /\ i_asked = [angles |-> [a \in I!Axis |-> 0], limits |-> I!NoLimits,
                    stiffness |-> [a \in I!Axis |-> 0], focus |-> 0, recording |-> FALSE]
      /\ i_held = [angles |-> [a \in I!Axis |-> <<0, 0>>], limits |-> I!LimitBytes(I!NoLimits),
                   stiffness |-> <<0, 0, 0>>, focus |-> <<0, 0>>, recording |-> 0]
  BY DEF I!Init
<1>5. i_asked \in Settings
  <2>1. 0 \in I!FocusRange
    BY DEF I!FocusRange
  <2>2. [a \in I!Axis |-> 0] \in [I!Axis -> I!StiffnessRange]
    BY DEF I!StiffnessRange
  <2> QED
    BY <1>1, <1>2, <1>4, <2>1, <2>2 DEF Settings
<1>6. i_held = Coded(i_asked)
  <2>1. StiffnessBytes([a \in I!Axis |-> 0]) = <<0, 0, 0>>
    BY DEF StiffnessBytes, I!Axis
  <2> QED
    BY <1>3, <1>4, <2>1 DEF Coded
<1>7. I!SettingsReadBack
  BY DEF I!Init, I!SettingsReadBack
<1> QED
  BY <1>5, <1>6, <1>7 DEF ItemsInv

\* The gimbal moves to where it is told, and keeps the other axes.
LEMMA MovesToGoal ==
  ASSUME ItemsInv, NEW p \in I!Reach, NEW absolute \in BOOLEAN, NEW enabled \in SUBSET I!Axis,
         I!Goal(p, absolute, enabled) \in I!Reach
  PROVE  I!Moved(I!dji_rsdk_set_position(p, absolute, enabled))
           = [a \in I!Axis |-> I!Word(I!Goal(p, absolute, enabled)[a])]
<1> DEFINE c == I!dji_rsdk_set_position(p, absolute, enabled)
           g == I!Goal(p, absolute, enabled)
           now == i_asked.angles
<1>1. now \in I!Reach /\ \A a \in I!Axis : i_held.angles[a] = I!Word(now[a])
  BY DEF ItemsInv, Settings, Coded
<1>2. /\ c \in Seq(Int) /\ Len(c) = 8
      /\ \A i \in 1..6 : c[i] = WordRow(p)[i]
      /\ c[7] = Flags(absolute, enabled)
  BY CommandBytes
<1>3. /\ c[7] % 2 = 1 <=> absolute
      /\ \A a \in I!Axis : (c[7] \div I!AxisBit(a)) % 2 = 1 <=> a \notin enabled
  BY <1>2, CommandBits
<1>4. \A a \in I!Axis : g[a] = IF a \notin enabled THEN now[a]
                              ELSE IF absolute THEN p[a] ELSE now[a] + p[a]
  BY DEF I!Goal
<1> HIDE DEF c, g, now
<1>5. ASSUME NEW a \in I!Axis
      PROVE  /\ I!At(c, I!AxisOffset(a), 2) = I!Word(p[a])
             /\ I!ReadSigned(c, I!AxisOffset(a)) = p[a]
             /\ I!ReadSigned(i_held.angles[a], 0) = now[a]
  <2> DEFINE o == I!AxisOffset(a)
  <2>1. o \in {0, 2, 4}
    BY OffsetRange
  <2>2. WordRow(p)[o + 1] = I!Word(p[a])[1] /\ WordRow(p)[o + 2] = I!Word(p[a])[2]
    BY RowBytes
  <2> HIDE DEF o
  <2>3. o + 1 \in 1..6 /\ o + 2 \in 1..6 /\ o \in Nat /\ o + 2 <= Len(c)
    BY <1>2, <2>1
  <2>4. c[o + 1] = I!Word(p[a])[1] /\ c[o + 2] = I!Word(p[a])[2]
    BY <1>2, <2>2, <2>3
  <2>5. p[a] \in Int /\ -32768 <= p[a] /\ p[a] <= 32767
    BY AngleRange
  <2>6. I!At(c, o, 2) = I!Word(p[a])
    <3>1. c \in Seq(Int)
      BY <1>2
    <3> QED
      BY <2>3, <2>4, <2>5, <3>1, WordCut
  <2>7. I!ReadSigned(c, o) = p[a]
    BY <2>3, <2>4, <2>5, WordReadsBack
  <2>8. now[a] \in Int /\ -32768 <= now[a] /\ now[a] <= 32767
    BY <1>1, AngleRange
  <2>9. I!ReadSigned(i_held.angles[a], 0) = now[a]
    <3>1. i_held.angles[a][0 + 1] = I!Word(now[a])[1] /\ i_held.angles[a][0 + 2] = I!Word(now[a])[2]
      BY <1>1
    <3> QED
      BY <2>8, <3>1, WordReadsBack
  <2> QED
    BY <2>6, <2>7, <2>9 DEF o
<1>6. ASSUME NEW a \in I!Axis
      PROVE  (IF (c[7] \div I!AxisBit(a)) % 2 = 1 THEN i_held.angles[a]
              ELSE IF c[7] % 2 = 1 THEN I!At(c, I!AxisOffset(a), 2)
              ELSE I!Word(I!ReadSigned(i_held.angles[a], 0) + I!ReadSigned(c, I!AxisOffset(a))))
             = I!Word(g[a])
  <2>1. CASE a \notin enabled
    BY <1>1, <1>3, <1>4, <2>1
  <2>2. CASE a \in enabled /\ absolute
    BY <1>3, <1>4, <1>5, <2>2
  <2>3. CASE a \in enabled /\ ~absolute
    BY <1>3, <1>4, <1>5, <2>3
  <2> QED
    BY <2>1, <2>2, <2>3
<1>7. I!Moved(c) = [a \in I!Axis |-> I!Word(g[a])]
  BY <1>6, Zenon DEF I!Moved
<1> QED
  BY <1>7 DEF c, g

\* The position of the focus is the last word of the command.
LEMMA FocusIsKept ==
  ASSUME NEW p \in I!FocusRange
  PROVE  I!At(I!dji_rsdk_set_focus_position(p), 3, 2) = I!Word(p)
<1> DEFINE w == I!Word(p)
           h == <<1, 0, 2>>
           c == h \o w
<1>1. p \in Int /\ w \in Seq(Int) /\ Len(w) = 2
  <2>1. p \in Int
    BY DEF I!FocusRange
  <2> QED
    BY <2>1, WordIsRow
<1>2. h \in Seq(Int) /\ Len(h) = 3
  OBVIOUS
<1>3. c = I!dji_rsdk_set_focus_position(p)
  BY DEF I!dji_rsdk_set_focus_position
<1> HIDE DEF h, w
<1>4. /\ c \in Seq(Int) /\ Len(c) = Len(h) + Len(w)
      /\ \A i \in 1..Len(h) : c[i] = h[i]
      /\ \A i \in 1..Len(w) : c[Len(h) + i] = w[i]
  BY <1>1, <1>2, RowOfTwo, Zenon
<1> HIDE DEF c
<1>5. 3 \in Nat /\ 3 + 2 <= Len(c) /\ c[3 + 1] = w[1] /\ c[3 + 2] = w[2]
  BY <1>1, <1>2, <1>4
<1>6. c[3 + 1] = I!Word(p)[1] /\ c[3 + 2] = I!Word(p)[2]
  BY <1>5 DEF w
<1>7. I!At(c, 3, 2) = I!Word(p)
  <2>1. p \in Int /\ c \in Seq(Int) /\ 3 \in Nat /\ 3 + 2 <= Len(c)
    BY <1>1, <1>4, <1>5
  <2> QED
    BY <2>1, <1>6, WordCut
<1> QED
  BY <1>3, <1>7

LEMMA LimitsAreKept ==
  ASSUME NEW l \in I!LimitRanges
  PROVE  Tail(I!dji_rsdk_set_angle_limits(l)) = I!LimitBytes(l)
<1> DEFINE b == I!LimitBytes(l)
<1>1. b \in Seq(Int)
  BY LimitsAreRow
<1> HIDE DEF b
<1>2. Tail(<<1>> \o b) = b
  BY <1>1
<1> QED
  BY <1>2 DEF b, I!dji_rsdk_set_angle_limits

LEMMA ActionIsWord ==
  ASSUME NEW on \in BOOLEAN
  PROVE  (I!dji_rsdk_camera_action(on) = <<3, 0>>) <=> on
<1>1. I!Word(3) = <<3, 0>> /\ I!Word(4) = <<4, 0>>
  BY DEF I!Word
<1>2. <<4, 0>> # <<3, 0>>
  OBVIOUS
<1> QED
  BY <1>1, <1>2 DEF I!dji_rsdk_camera_action

\* The angles as the gimbal puts them into an answer.
LEMMA AnglesAreRow ==
  ASSUME ItemsInv
  PROVE  /\ i_asked.angles \in I!Reach /\ i_asked.limits \in I!LimitRanges
         /\ I!AngleBytes = WordRow(i_asked.angles)
         /\ i_held.limits = I!LimitBytes(i_asked.limits)
         /\ i_asked.stiffness \in [I!Axis -> I!StiffnessRange]
         /\ i_held.stiffness = StiffnessBytes(i_asked.stiffness)
<1>1. /\ i_asked.angles \in I!Reach /\ i_asked.limits \in I!LimitRanges
      /\ i_held.limits = I!LimitBytes(i_asked.limits)
      /\ i_asked.stiffness \in [I!Axis -> I!StiffnessRange]
      /\ i_held.stiffness = StiffnessBytes(i_asked.stiffness)
      /\ \A a \in I!Axis : i_held.angles[a] = I!Word(i_asked.angles[a])
  BY DEF ItemsInv, Settings, Coded
<1>2. "yaw" \in I!Axis /\ "roll" \in I!Axis /\ "pitch" \in I!Axis
  BY DEF I!Axis
<1> QED
  BY <1>1, <1>2 DEF I!AngleBytes, WordRow

\* The answer to an inquiry of the angles.
LEMMA AnglesAreRead ==
  ASSUME ItemsInv, NEW type \in 0..2
  PROVE  I!dji_rsdk_get_angles(<<type>> \o I!AngleBytes) = i_asked.angles
<1> DEFINE row == WordRow(i_asked.angles)
           h == <<type>>
           d == h \o row
<1>1. row \in Seq(Int) /\ Len(row) = 6
  BY AnglesAreRow, RowBytes
<1>2. h \in Seq(Int) /\ Len(h) = 1
  OBVIOUS
<1>3. d = <<type>> \o I!AngleBytes
  BY AnglesAreRow
<1> HIDE DEF row, h
<1>4. \A i \in 1..Len(row) : d[Len(h) + i] = row[i]
  BY <1>1, <1>2, RowOfTwo, Zenon
<1> HIDE DEF d
<1>5. \A i \in 1..6 : d[1 + i] = WordRow(i_asked.angles)[i]
  BY <1>1, <1>2, <1>4 DEF row
<1>6. 1 \in Nat
  OBVIOUS
<1>7. I!Angles(d, 1) = i_asked.angles
  BY <1>5, <1>6, AnglesAreRow, RowReadsBack, Zenon
<1> QED
  BY <1>3, <1>7 DEF I!dji_rsdk_get_angles

\* The report: the attitude, the joint angles, the limits and the stiffness, each where it
\* is looked for.
LEMMA ReportIsRead ==
  ASSUME ItemsInv
  PROVE  LET data == <<0>> \o I!AngleBytes \o I!AngleBytes \o i_held.limits \o i_held.stiffness IN
         /\ I!Angles(data, 1) = i_asked.angles
         /\ I!Angles(data, 7) = i_asked.angles
         /\ I!LimitsFrom(I!At(data, 13, 6)) = i_asked.limits
         /\ I!StiffnessFrom(I!At(data, 19, 3))["pitch"] = i_asked.stiffness["pitch"]
<1> DEFINE row == WordRow(i_asked.angles)
           lim == I!LimitBytes(i_asked.limits)
           h == <<0>>
           z == StiffnessBytes(i_asked.stiffness)
           d1 == h \o row
           d2 == d1 \o row
           d3 == d2 \o lim
           d == d3 \o z
<1>1. /\ row \in Seq(Int) /\ Len(row) = 6 /\ lim \in Seq(Int) /\ Len(lim) = 6
  BY AnglesAreRow, RowBytes, LimitsAreRow
<1>2. h \in Seq(Int) /\ Len(h) = 1 /\ z \in Seq(Int) /\ Len(z) = 3
  BY AnglesAreRow, StiffnessIsRow
<1>3. d = <<0>> \o I!AngleBytes \o I!AngleBytes \o i_held.limits \o i_held.stiffness
  BY AnglesAreRow
<1> HIDE DEF row, lim, h, z
<1>4. /\ d1 \in Seq(Int) /\ Len(d1) = 7 /\ \A i \in 1..6 : d1[1 + i] = row[i]
  <2>1. /\ d1 \in Seq(Int) /\ Len(d1) = Len(h) + Len(row)
        /\ \A i \in 1..Len(row) : d1[Len(h) + i] = row[i]
    BY <1>1, <1>2, RowOfTwo, Zenon
  <2> HIDE DEF d1
  <2> QED
    BY <1>1, <1>2, <2>1
<1> HIDE DEF d1
<1>5. /\ d2 \in Seq(Int) /\ Len(d2) = 13
      /\ \A i \in 1..7 : d2[i] = d1[i]
      /\ \A i \in 1..6 : d2[7 + i] = row[i]
  <2>1. /\ d2 \in Seq(Int) /\ Len(d2) = Len(d1) + Len(row)
        /\ \A i \in 1..Len(d1) : d2[i] = d1[i]
        /\ \A i \in 1..Len(row) : d2[Len(d1) + i] = row[i]
    BY <1>1, <1>4, RowOfTwo, Zenon
  <2> HIDE DEF d2
  <2> QED
    BY <1>1, <1>4, <2>1
<1> HIDE DEF d2
<1>6. /\ d3 \in Seq(Int) /\ Len(d3) = 19
      /\ \A i \in 1..13 : d3[i] = d2[i]
      /\ \A i \in 1..6 : d3[13 + i] = lim[i]
  <2>1. /\ d3 \in Seq(Int) /\ Len(d3) = Len(d2) + Len(lim)
        /\ \A i \in 1..Len(d2) : d3[i] = d2[i]
        /\ \A i \in 1..Len(lim) : d3[Len(d2) + i] = lim[i]
    BY <1>1, <1>5, RowOfTwo, Zenon
  <2> HIDE DEF d3
  <2> QED
    BY <1>1, <1>5, <2>1
<1> HIDE DEF d3
<1>7. /\ d \in Seq(Int) /\ Len(d) = 22
      /\ \A i \in 1..19 : d[i] = d3[i]
      /\ \A i \in 1..3 : d[19 + i] = z[i]
  <2>1. /\ d \in Seq(Int) /\ Len(d) = Len(d3) + Len(z)
        /\ \A i \in 1..Len(d3) : d[i] = d3[i]
        /\ \A i \in 1..Len(z) : d[Len(d3) + i] = z[i]
    BY <1>2, <1>6, RowOfTwo, Zenon
  <2> HIDE DEF d
  <2> QED
    BY <1>2, <1>6, <2>1
<1> HIDE DEF d
<1>8. /\ \A i \in 1..6 : d[1 + i] = row[i]
      /\ \A i \in 1..6 : d[7 + i] = row[i]
      /\ \A i \in 1..6 : d[13 + i] = lim[i]
  <2>1. ASSUME NEW i \in 1..6 PROVE d[1 + i] = row[i]
    <3>1. 1 + i \in 1..7 /\ 1 + i \in 1..13 /\ 1 + i \in 1..19
      OBVIOUS
    <3>2. d[1 + i] = d3[1 + i]
      BY <1>7, <3>1
    <3>3. d3[1 + i] = d2[1 + i]
      BY <1>6, <3>1
    <3>4. d2[1 + i] = d1[1 + i]
      BY <1>5, <3>1
    <3>5. d1[1 + i] = row[i]
      BY <1>4
    <3> QED
      BY <3>2, <3>3, <3>4, <3>5
  <2>2. ASSUME NEW i \in 1..6 PROVE d[7 + i] = row[i]
    <3>1. 7 + i \in 1..13 /\ 7 + i \in 1..19
      OBVIOUS
    <3> QED
      BY <1>5, <1>6, <1>7, <3>1
  <2>3. ASSUME NEW i \in 1..6 PROVE d[13 + i] = lim[i]
    <3>1. 13 + i \in 1..19
      OBVIOUS
    <3> QED
      BY <1>6, <1>7, <3>1
  <2> QED
    BY <2>1, <2>2, <2>3
<1>9. I!Angles(d, 1) = i_asked.angles /\ I!Angles(d, 7) = i_asked.angles
  <2>1. 1 \in Nat /\ 7 \in Nat
    OBVIOUS
  <2>2. /\ \A i \in 1..6 : d[1 + i] = WordRow(i_asked.angles)[i]
        /\ \A i \in 1..6 : d[7 + i] = WordRow(i_asked.angles)[i]
    BY <1>8 DEF row
  <2> QED
    BY <2>1, <2>2, AnglesAreRow, RowReadsBack, Zenon
<1>10. I!LimitsFrom(I!At(d, 13, 6)) = i_asked.limits
  <2> DEFINE t == I!At(d, 13, 6)
  <2>1. 13 \in Nat /\ 6 \in Nat /\ 13 + 6 <= Len(d)
    BY <1>7
  <2>2. \A i \in 1..6 : t[i] = d[13 + i]
    BY <1>7, <2>1, PartOf, Zenon
  <2> HIDE DEF t
  <2>3. \A i \in 1..6 : t[i] = I!LimitBytes(i_asked.limits)[i]
    BY <1>8, <2>2 DEF lim
  <2>4. I!LimitsFrom(t) = i_asked.limits
    BY <2>3, AnglesAreRow, LimitsReadBack, Zenon
  <2> QED
    BY <2>4 DEF t
<1>11. I!StiffnessFrom(I!At(d, 19, 3))["pitch"] = i_asked.stiffness["pitch"]
  <2> DEFINE t == I!At(d, 19, 3)
  <2>1. 19 \in Nat /\ 3 \in Nat /\ 19 + 3 <= Len(d)
    BY <1>7
  <2>2. \A i \in 1..3 : t[i] = d[19 + i]
    BY <1>7, <2>1, PartOf, Zenon
  <2> HIDE DEF t
  <2>3. t[1] = z[1]
    BY <1>7, <2>2
  <2>4. z[1] = i_asked.stiffness["pitch"]
    BY AnglesAreRow, StiffnessIsRow DEF z
  <2> QED
    BY <2>3, <2>4, PitchStiffness DEF t
<1> QED
  BY <1>3, <1>9, <1>10, <1>11

LEMMA StiffnessIsRead ==
  ASSUME ItemsInv
  PROVE  I!dji_rsdk_get_motor_stiffness(i_held.stiffness)["pitch"] = i_asked.stiffness["pitch"]
<1> DEFINE b == StiffnessBytes(i_asked.stiffness)
<1>1. /\ b \in Seq(Int) /\ Len(b) = 3 /\ b[1] = i_asked.stiffness["pitch"]
      /\ \A i \in 1..3 : b[i] \in I!StiffnessRange
  BY AnglesAreRow, StiffnessIsRow
<1>2. i_held.stiffness = b
  BY AnglesAreRow
<1> HIDE DEF b
<1>3. DOMAIN b = 1..3
  BY <1>1
<1>4. I!dji_rsdk_get_motor_stiffness(b) = I!StiffnessFrom(b)
  BY <1>1, <1>3 DEF I!dji_rsdk_get_motor_stiffness
<1> QED
  BY <1>1, <1>2, <1>4, PitchStiffness

\* The position of the focus comes with four bytes, behind three others.
LEMMA FocusIsRead ==
  ASSUME ItemsInv, NEW state \in 1..3
  PROVE  I!dji_rsdk_get_focus_position(<<21, 0, state>> \o i_held.focus \o <<0, 0>>) = i_asked.focus
<1> DEFINE p == i_asked.focus
           w == I!Word(p)
           h == <<21, 0, state>>
           z == <<0, 0>>
           d1 == h \o w
           d == d1 \o z
<1>1. p \in I!FocusRange /\ i_held.focus = w
  BY DEF ItemsInv, Settings, Coded
<1> HIDE DEF p
<1>2. p \in Nat /\ p < 65536 /\ p \in Int /\ ~(p > 4095)
  <2>1. p \in I!FocusRange
    BY <1>1
  <2> HIDE DEF w
  <2> QED
    BY <2>1 DEF I!FocusRange
<1>3. w \in Seq(Int) /\ Len(w) = 2
  BY <1>2, WordIsRow
<1>4. h \in Seq(Int) /\ Len(h) = 3 /\ h[1] = 21 /\ h[2] = 0 /\ h[3] = state
  OBVIOUS
<1>5. z \in Seq(Int) /\ Len(z) = 2 /\ z[1] = 0 /\ z[2] = 0
  OBVIOUS
<1>6. d = <<21, 0, state>> \o i_held.focus \o <<0, 0>>
  BY <1>1
<1> HIDE DEF w, h, z
<1>7. /\ d1 \in Seq(Int) /\ Len(d1) = 5 /\ d1[1] = 21 /\ d1[2] = 0 /\ d1[3] = state
      /\ d1[4] = w[1] /\ d1[5] = w[2]
  <2>1. /\ d1 \in Seq(Int) /\ Len(d1) = Len(h) + Len(w)
        /\ \A i \in 1..Len(h) : d1[i] = h[i]
        /\ \A i \in 1..Len(w) : d1[Len(h) + i] = w[i]
    BY <1>3, <1>4, RowOfTwo, Zenon
  <2> HIDE DEF d1
  <2>2. \A i \in 1..3 : d1[i] = h[i]
    BY <1>4, <2>1
  <2>3. \A i \in 1..2 : d1[3 + i] = w[i]
    BY <1>3, <1>4, <2>1
  <2> QED
    BY <1>3, <1>4, <2>1, <2>2, <2>3
<1> HIDE DEF d1
<1>8. /\ d[1] = 21 /\ d[2] = 0 /\ d[3] = state /\ d[4] = w[1] /\ d[5] = w[2]
      /\ d[6] = 0 /\ d[7] = 0
  <2>1. /\ \A i \in 1..Len(d1) : d[i] = d1[i]
        /\ \A i \in 1..Len(z) : d[Len(d1) + i] = z[i]
    BY <1>5, <1>7, RowOfTwo, Zenon
  <2> HIDE DEF d
  <2>2. \A i \in 1..5 : d[i] = d1[i]
    BY <1>7, <2>1
  <2>3. \A i \in 1..2 : d[5 + i] = z[i]
    BY <1>5, <1>7, <2>1
  <2> QED
    BY <1>5, <1>7, <2>2, <2>3
<1> HIDE DEF d
<1>9. I!ReadWord(d, 3) = p
  <2>1. d[3 + 1] = I!Word(p)[1] /\ d[3 + 2] = I!Word(p)[2] /\ 3 \in Nat
    BY <1>8 DEF w
  <2> QED
    BY <1>2, <2>1, WordReadsUnsigned
<1>10. I!ReadWord(d, 5) = 0
  BY <1>8 DEF I!ReadWord
<1>11. I!ReadWord(d, 3) + 65536 * I!ReadWord(d, 5) = p
  BY <1>2, <1>9, <1>10
<1>12. I!dji_rsdk_get_focus_position(d) = p
  BY <1>2, <1>8, <1>11 DEF I!dji_rsdk_get_focus_position
<1> QED
  BY <1>6, <1>12 DEF p

LEMMA RecordingIsRead ==
  ASSUME ItemsInv
  PROVE  I!dji_rsdk_camera_get_recording(<<i_held.recording>>) = i_asked.recording
<1>1. /\ i_asked.recording \in BOOLEAN
      /\ i_held.recording = IF i_asked.recording THEN 2 ELSE 0
  BY DEF ItemsInv, Settings, Coded
<1> QED
  BY <1>1 DEF I!dji_rsdk_camera_get_recording

\* What is answered is what was asked for, if it is so when the answer is read.
LEMMA AnswerIsSetting ==
  ASSUME ItemsInv, NEW item, NEW value, I!Answer(item, value),
         item = "angles" => value = i_asked.angles,
         item = "limits" => value = i_asked.limits,
         item = "focus" => value = i_asked.focus,
         item = "recording" => value = i_asked.recording,
         item = "stiffness" => value["pitch"] = i_asked.stiffness["pitch"]
  PROVE  ItemsInv'
<1>1. i_asked' = i_asked /\ i_held' = i_held /\ i_got' = {[item |-> item, value |-> value]}
  BY DEF I!Answer
<1>2. I!SettingsReadBack'
  BY <1>1 DEF I!SettingsReadBack
<1>3. (i_asked \in Settings)' /\ (i_held = Coded(i_asked))'
  BY <1>1 DEF ItemsInv, Settings, Coded
<1> QED
  BY <1>2, <1>3 DEF ItemsInv

LEMMA ItemsKept == ItemsInv /\ [I!Next]_i_vars => ItemsInv'
<1> SUFFICES ASSUME ItemsInv, [I!Next]_i_vars PROVE ItemsInv'
  OBVIOUS
<1>1. CASE I!Commands
  <2>1. i_got' = {} /\ I!SettingsReadBack'
    BY <1>1 DEF I!Commands, I!Send, I!SettingsReadBack
  <2>2. /\ i_asked \in Settings /\ i_held = Coded(i_asked)
    BY DEF ItemsInv
  <2>3. ASSUME NEW p \in Positions, NEW absolute \in BOOLEAN, NEW enabled \in SUBSET I!Axis,
               p \in I!Reach, I!Goal(p, absolute, enabled) \in I!Reach,
               i_held' = [i_held EXCEPT !.angles =
                            I!Moved(I!dji_rsdk_set_position(p, absolute, enabled))],
               i_asked' = [i_asked EXCEPT !.angles = I!Goal(p, absolute, enabled)]
        PROVE  i_asked' \in Settings /\ i_held' = Coded(i_asked')
    <3> DEFINE g == I!Goal(p, absolute, enabled)
               m == I!Moved(I!dji_rsdk_set_position(p, absolute, enabled))
    <3>1. m = [a \in I!Axis |-> I!Word(g[a])]
      BY <2>3, MovesToGoal
    <3>2. g \in I!Reach /\ i_held' = [i_held EXCEPT !.angles = m]
          /\ i_asked' = [i_asked EXCEPT !.angles = g]
      BY <2>3
    <3> HIDE DEF g, m
    <3> QED
      BY <2>2, <3>1, <3>2 DEF Settings, Coded
  <2>4. ASSUME NEW l \in Limits, l \in I!LimitRanges,
               i_held' = [i_held EXCEPT !.limits = Tail(I!dji_rsdk_set_angle_limits(l))],
               i_asked' = [i_asked EXCEPT !.limits = l]
        PROVE  i_asked' \in Settings /\ i_held' = Coded(i_asked')
    <3> DEFINE t == Tail(I!dji_rsdk_set_angle_limits(l))
    <3>1. t = I!LimitBytes(l)
      BY <2>4, LimitsAreKept
    <3>2. /\ l \in I!LimitRanges /\ i_held' = [i_held EXCEPT !.limits = t]
          /\ i_asked' = [i_asked EXCEPT !.limits = l]
      BY <2>4
    <3> HIDE DEF t
    <3> QED
      BY <2>2, <3>1, <3>2 DEF Settings, Coded
  <2>5. ASSUME NEW s \in [I!Axis -> Stiffness], \A a \in I!Axis : s[a] \in I!StiffnessRange,
                i_held' = [i_held EXCEPT !.stiffness = Tail(I!dji_rsdk_set_motor_stiffness(s))],
                i_asked' = [i_asked EXCEPT !.stiffness = s]
        PROVE  i_asked' \in Settings /\ i_held' = Coded(i_asked')
    <3> DEFINE t == Tail(I!dji_rsdk_set_motor_stiffness(s))
    <3>1. t = StiffnessBytes(s)
      BY DEF I!dji_rsdk_set_motor_stiffness, StiffnessBytes
    <3>2. /\ s \in [I!Axis -> I!StiffnessRange] /\ i_held' = [i_held EXCEPT !.stiffness = t]
          /\ i_asked' = [i_asked EXCEPT !.stiffness = s]
      BY <2>5
    <3> HIDE DEF t
    <3> QED
      BY <2>2, <3>1, <3>2 DEF Settings, Coded
  <2>6. ASSUME NEW p \in FocusPositions, p \in I!FocusRange,
               i_held' = [i_held EXCEPT !.focus = I!At(I!dji_rsdk_set_focus_position(p), 3, 2)],
               i_asked' = [i_asked EXCEPT !.focus = p]
        PROVE  i_asked' \in Settings /\ i_held' = Coded(i_asked')
    <3> DEFINE t == I!At(I!dji_rsdk_set_focus_position(p), 3, 2)
    <3>1. t = I!Word(p)
      BY <2>6, FocusIsKept
    <3>2. /\ p \in I!FocusRange /\ i_held' = [i_held EXCEPT !.focus = t]
          /\ i_asked' = [i_asked EXCEPT !.focus = p]
      BY <2>6
    <3> HIDE DEF t
    <3> QED
      BY <2>2, <3>1, <3>2 DEF Settings, Coded
  <2>7. ASSUME NEW on \in BOOLEAN,
               i_held' = [i_held EXCEPT !.recording =
                            IF I!dji_rsdk_camera_action(on) = <<3, 0>> THEN 2 ELSE 0],
               i_asked' = [i_asked EXCEPT !.recording = on]
        PROVE  i_asked' \in Settings /\ i_held' = Coded(i_asked')
    <3>1. i_held' = [i_held EXCEPT !.recording = IF on THEN 2 ELSE 0]
      BY <2>7, ActionIsWord
    <3> QED
      BY <2>2, <2>7, <3>1 DEF Settings, Coded
  <2>8. ASSUME UNCHANGED <<i_held, i_asked>>
        PROVE  i_asked' \in Settings /\ i_held' = Coded(i_asked')
    BY <2>2, <2>8
  <2>9. i_asked' \in Settings /\ i_held' = Coded(i_asked')
    BY <1>1, <2>3, <2>4, <2>5, <2>6, <2>7, <2>8, ZenonT(60) DEF I!Commands
  <2>10. (i_asked \in Settings)' /\ (i_held = Coded(i_asked))'
    BY <2>9 DEF Settings, Coded
  <2> QED
    BY <2>1, <2>10 DEF ItemsInv
<1>2. CASE I!Inquiries
  <2>1. ASSUME NEW type \in 0..2,
               I!Answer("angles", I!dji_rsdk_get_angles(<<type>> \o I!AngleBytes))
        PROVE  ItemsInv'
    BY <2>1, AnglesAreRead, AnswerIsSetting
  <2>2. ASSUME I!Answer("limits", I!dji_rsdk_get_angle_limits(i_held.limits)) PROVE ItemsInv'
    <3>1. I!dji_rsdk_get_angle_limits(i_held.limits) = i_asked.limits
      BY AnglesAreRow, LimitsReadBack DEF I!dji_rsdk_get_angle_limits
    <3> QED
      BY <2>2, <3>1, AnswerIsSetting
  <2>3. ASSUME NEW state \in 1..3,
               I!Answer("focus", I!dji_rsdk_get_focus_position(
                                   <<21, 0, state>> \o i_held.focus \o <<0, 0>>))
        PROVE  ItemsInv'
    BY <2>3, FocusIsRead, AnswerIsSetting
  <2>4. ASSUME I!Answer("recording", I!dji_rsdk_camera_get_recording(<<i_held.recording>>))
        PROVE  ItemsInv'
    BY <2>4, RecordingIsRead, AnswerIsSetting
  <2>5. ASSUME I!Answer("stiffness", I!dji_rsdk_get_motor_stiffness(i_held.stiffness))
        PROVE  ItemsInv'
    BY <2>5, StiffnessIsRead, AnswerIsSetting
  <2> QED
    BY <1>2, <2>1, <2>2, <2>3, <2>4, <2>5, Zenon DEF I!Inquiries
<1>3. CASE I!dji_rsdk_parse_gimbal_push
  <2> DEFINE data == <<0>> \o I!AngleBytes \o I!AngleBytes \o i_held.limits \o i_held.stiffness
  <2>1. /\ I!Angles(data, 1) = i_asked.angles /\ I!Angles(data, 7) = i_asked.angles
        /\ I!LimitsFrom(I!At(data, 13, 6)) = i_asked.limits
        /\ I!StiffnessFrom(I!At(data, 19, 3))["pitch"] = i_asked.stiffness["pitch"]
    BY ReportIsRead
  <2>2. \/ \E offset \in {1, 7} : I!Answer("angles", I!Angles(data, offset))
        \/ I!Answer("limits", I!LimitsFrom(I!At(data, 13, 6)))
        \/ I!Answer("stiffness", I!StiffnessFrom(I!At(data, 19, 3)))
    BY <1>3 DEF I!dji_rsdk_parse_gimbal_push
  <2> HIDE DEF data
  <2>3. CASE \E offset \in {1, 7} : I!Answer("angles", I!Angles(data, offset))
    BY <2>1, <2>3, AnswerIsSetting
  <2>4. CASE I!Answer("limits", I!LimitsFrom(I!At(data, 13, 6)))
    BY <2>1, <2>4, AnswerIsSetting
  <2>5. CASE I!Answer("stiffness", I!StiffnessFrom(I!At(data, 19, 3)))
    BY <2>1, <2>5, AnswerIsSetting
  <2> QED
    BY <2>2, <2>3, <2>4, <2>5
<1>4. CASE I!dji_rsdk_get_user_parameters
  <2>1. PICK data : I!Answer("list", [data |-> data,
                       valid |-> data = <<>> \/ I!dji_rsdk_commands_tlv_valid(data)])
    BY <1>4, Zenon DEF I!dji_rsdk_get_user_parameters
  <2> QED
    BY <2>1, AnswerIsSetting, Zenon
<1>5. CASE UNCHANGED i_vars
  BY <1>5 DEF ItemsInv, i_vars, I!SettingsReadBack, Settings, Coded
<1> QED
  BY <1>1, <1>2, <1>3, <1>4, <1>5, Zenon DEF I!Next
=============================================================================
