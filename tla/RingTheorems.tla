---------------------------- MODULE RingTheorems ----------------------------
(***************************************************************************)
(* Facts about the ring arithmetic of module Ring, for every capacity: the *)
(* elements of a queue lie in different slots, and writing a slot at the   *)
(* tail or advancing the head appends to, or takes from, the sequence the  *)
(* ring stands for.                                                        *)
(***************************************************************************)
EXTENDS Ring, Integers, Sequences, TLAPS

\* Every element of the queue is in V.
RingHolds(slots, head, count, size, V) ==
  \A i \in 0..(count - 1) : slots[RingSlot(head, i, size)] \in V

\* Two arrays agree on the slots of the queue.
RingAgrees(other, slots, head, count, size) ==
  \A i \in 0..(count - 1) :
    other[RingSlot(head, i, size)] = slots[RingSlot(head, i, size)]

LEMMA ModSmall ==
  ASSUME NEW n \in Nat, n > 0, NEW x \in Nat, x < n
  PROVE  x % n = x
BY SMT

LEMMA ModLarge ==
  ASSUME NEW n \in Nat, n > 0, NEW x \in Nat, x >= n, x < 2 * n
  PROVE  x % n = x - n
BY SMT

\* An index wraps at most once: (head + i) % size without the division.
LEMMA RingSlotValue ==
  ASSUME NEW size \in Nat, size > 0,
         NEW head \in 0..(size - 1), NEW i \in 0..size
  PROVE  /\ RingSlot(head, i, size) =
              IF head + i < size THEN head + i ELSE head + i - size
         /\ RingSlot(head, i, size) \in 0..(size - 1)
<1>1. CASE head + i < size
  BY <1>1, ModSmall DEF RingSlot
<1>2. CASE head + i >= size
  BY <1>2, ModLarge DEF RingSlot
<1>3. QED
  BY <1>1, <1>2

\* Different elements of a queue lie in different slots.
LEMMA RingSlotInjective ==
  ASSUME NEW size \in Nat, size > 0, NEW head \in 0..(size - 1),
         NEW i \in 0..(size - 1), NEW j \in 0..(size - 1),
         RingSlot(head, i, size) = RingSlot(head, j, size)
  PROVE  i = j
<1>1. i \in 0..size /\ j \in 0..size
  OBVIOUS
<1>2. RingSlot(head, i, size) = IF head + i < size THEN head + i ELSE head + i - size
  BY <1>1, RingSlotValue
<1>3. RingSlot(head, j, size) = IF head + j < size THEN head + j ELSE head + j - size
  BY <1>1, RingSlotValue
<1>4. RingSlot(head, i, size) \in Int
  BY <1>1, RingSlotValue
<1>5. (IF head + i < size THEN head + i ELSE head + i - size) =
      (IF head + j < size THEN head + j ELSE head + j - size)
  BY <1>2, <1>3
<1>6. QED
  BY <1>5

LEMMA RingSlotZero ==
  ASSUME NEW size \in Nat, size > 0, NEW head \in 0..(size - 1)
  PROVE  RingSlot(head, 0, size) = head
BY RingSlotValue

\* Advancing the head by one and counting from there.
LEMMA RingSlotNext ==
  ASSUME NEW size \in Nat, size > 0, NEW head \in 0..(size - 1),
         NEW i \in 0..(size - 1)
  PROVE  RingSlot(RingSlot(head, 1, size), i, size) =
         RingSlot(head, i + 1, size)
<1> DEFINE next == RingSlot(head, 1, size)
<1>1. next = IF head + 1 < size THEN head + 1 ELSE head + 1 - size
  BY RingSlotValue
<1>2. next \in 0..(size - 1)
  BY RingSlotValue
<1> HIDE DEF next
<1>3. RingSlot(next, i, size) =
        IF next + i < size THEN next + i ELSE next + i - size
  BY <1>2, RingSlotValue
<1>4. RingSlot(head, i + 1, size) =
        IF head + (i + 1) < size THEN head + (i + 1) ELSE head + (i + 1) - size
  <2>1. i + 1 \in 0..size
    OBVIOUS
  <2>2. QED
    BY <2>1, RingSlotValue
<1>5. RingSlot(next, i, size) = RingSlot(head, i + 1, size)
  BY <1>1, <1>3, <1>4
<1>6. QED
  BY <1>5 DEF next

\* The queue as a sequence, with its elements.
LEMMA RingContentsType ==
  ASSUME NEW size \in Nat, size > 0, NEW head \in 0..(size - 1),
         NEW count \in 0..size, NEW V, NEW slots,
         RingHolds(slots, head, count, size, V)
  PROVE  /\ RingContents(slots, head, count, size) \in Seq(V)
         /\ Len(RingContents(slots, head, count, size)) = count
         /\ \A i \in 1..count :
              RingContents(slots, head, count, size)[i] =
                slots[RingSlot(head, i - 1, size)]
<1>1. RingContents(slots, head, count, size) \in [1..count -> V]
  <2>1. \A i \in 1..count : slots[RingSlot(head, i - 1, size)] \in V
    <3>1. TAKE i \in 1..count
    <3>2. i - 1 \in 0..(count - 1)
      OBVIOUS
    <3>3. QED
      BY <3>2 DEF RingHolds
  <2>2. QED
    BY <2>1 DEF RingContents
<1>2. QED
  BY <1>1 DEF RingContents

\* Only the slots of the window matter.
LEMMA RingContentsFrame ==
  ASSUME NEW size \in Nat, size > 0, NEW head \in 0..(size - 1),
         NEW count \in 0..size, NEW slots, NEW other,
         RingAgrees(other, slots, head, count, size)
  PROVE  RingContents(other, head, count, size) =
         RingContents(slots, head, count, size)
<1>1. \A i \in 1..count :
        other[RingSlot(head, i - 1, size)] = slots[RingSlot(head, i - 1, size)]
  <2>1. TAKE i \in 1..count
  <2>2. i - 1 \in 0..(count - 1)
    OBVIOUS
  <2>3. QED
    BY <2>2 DEF RingAgrees
<1>2. QED
  BY <1>1 DEF RingContents

LEMMA RingContentsEmpty ==
  ASSUME NEW slots, NEW head, NEW size
  PROVE  RingContents(slots, head, 0, size) = <<>>
BY DEF RingContents

\* Writing the slot behind the newest element appends to the queue.
LEMMA RingPush ==
  ASSUME NEW size \in Nat, size > 0, NEW head \in 0..(size - 1),
         NEW count \in 0..(size - 1), NEW V, NEW slots, NEW v \in V, NEW other,
         RingHolds(slots, head, count, size, V),
         RingAgrees(other, slots, head, count, size),
         other[RingSlot(head, count, size)] = v
  PROVE  /\ RingContents(other, head, count + 1, size) =
              Append(RingContents(slots, head, count, size), v)
         /\ RingHolds(other, head, count + 1, size, V)
<1> DEFINE before == RingContents(slots, head, count, size)
           after  == RingContents(other, head, count + 1, size)
<1>1. RingHolds(other, head, count + 1, size, V)
  <2>1. ASSUME NEW i \in 0..((count + 1) - 1)
        PROVE  other[RingSlot(head, i, size)] \in V
    <3>1. CASE i = count
      BY <3>1
    <3>2. CASE i \in 0..(count - 1)
      BY <3>2 DEF RingHolds, RingAgrees
    <3>3. QED
      BY <3>1, <3>2
  <2>2. QED
    BY <2>1 DEF RingHolds
<1>2. count \in 0..size /\ count + 1 \in 0..size
  OBVIOUS
<1>3. /\ before \in Seq(V)
      /\ Len(before) = count
      /\ \A i \in 1..count : before[i] = slots[RingSlot(head, i - 1, size)]
  BY <1>2, RingContentsType
<1>4. /\ after \in Seq(V)
      /\ Len(after) = count + 1
      /\ \A i \in 1..(count + 1) : after[i] = other[RingSlot(head, i - 1, size)]
  BY <1>1, <1>2, RingContentsType
<1>5. \A i \in 1..count : after[i] = before[i]
  <2>1. TAKE i \in 1..count
  <2>2. i - 1 \in 0..(count - 1) /\ i \in 1..(count + 1)
    OBVIOUS
  <2>3. QED
    BY <2>2, <1>3, <1>4 DEF RingAgrees
<1>6. after[count + 1] = v
  <2>1. count + 1 \in 1..(count + 1) /\ (count + 1) - 1 = count
    OBVIOUS
  <2>2. QED
    BY <2>1, <1>4
<1> HIDE DEF before, after
<1>7. /\ Append(before, v) \in Seq(V)
      /\ Len(Append(before, v)) = count + 1
      /\ \A i \in 1..count : Append(before, v)[i] = before[i]
      /\ Append(before, v)[count + 1] = v
  BY <1>3
<1>8. \A i \in 1..(count + 1) : after[i] = Append(before, v)[i]
  BY <1>5, <1>6, <1>7
<1>9. after = Append(before, v)
  BY <1>4, <1>7, <1>8
<1>10. QED
  BY <1>1, <1>9 DEF before, after

\* Advancing the head takes the oldest element from the queue.
LEMMA RingPop ==
  ASSUME NEW size \in Nat, size > 0, NEW head \in 0..(size - 1),
         NEW count \in 1..size, NEW V, NEW slots,
         RingHolds(slots, head, count, size, V)
  PROVE  /\ RingContents(slots, head, count, size) # <<>>
         /\ Head(RingContents(slots, head, count, size)) = slots[head]
         /\ slots[head] \in V
         /\ RingContents(slots, RingSlot(head, 1, size), count - 1, size) =
              Tail(RingContents(slots, head, count, size))
         /\ RingHolds(slots, RingSlot(head, 1, size), count - 1, size, V)
<1> DEFINE next   == RingSlot(head, 1, size)
           before == RingContents(slots, head, count, size)
           after  == RingContents(slots, next, count - 1, size)
<1>1. /\ count \in 0..size /\ count - 1 \in 0..size
      /\ next \in 0..(size - 1)
  <2>1. count \in 0..size /\ count - 1 \in 0..size /\ 1 \in 0..size
    OBVIOUS
  <2>2. QED
    BY <2>1, RingSlotValue
<1>2. /\ before \in Seq(V)
      /\ Len(before) = count
      /\ \A i \in 1..count : before[i] = slots[RingSlot(head, i - 1, size)]
  BY <1>1, RingContentsType
<1>3. \A i \in 0..((count - 1) - 1) :
        /\ RingSlot(next, i, size) = RingSlot(head, i + 1, size)
        /\ slots[RingSlot(next, i, size)] \in V
  <2>1. TAKE i \in 0..((count - 1) - 1)
  <2>2. i \in 0..(size - 1) /\ i + 1 \in 0..(count - 1)
    OBVIOUS
  <2>3. RingSlot(next, i, size) = RingSlot(head, i + 1, size)
    BY <2>2, RingSlotNext
  <2>4. QED
    BY <2>2, <2>3 DEF RingHolds
<1>4. RingHolds(slots, next, count - 1, size, V)
  BY <1>3 DEF RingHolds
<1>5. /\ after \in Seq(V)
      /\ Len(after) = count - 1
      /\ \A i \in 1..(count - 1) : after[i] = slots[RingSlot(next, i - 1, size)]
  <2> HIDE DEF next
  <2>1. QED
    BY <1>1, <1>4, RingContentsType
<1>6. \A i \in 1..(count - 1) : after[i] = before[i + 1]
  <2>1. TAKE i \in 1..(count - 1)
  <2>2. /\ i - 1 \in 0..((count - 1) - 1)
        /\ i + 1 \in 1..count
        /\ (i - 1) + 1 = i /\ (i + 1) - 1 = i
    OBVIOUS
  <2>3. RingSlot(next, i - 1, size) = RingSlot(head, i, size)
    BY <2>2, <1>3
  <2>4. after[i] = slots[RingSlot(next, i - 1, size)]
    BY <1>5
  <2>5. before[i + 1] = slots[RingSlot(head, i, size)]
    BY <2>2, <1>2
  <2>6. QED
    BY <2>3, <2>4, <2>5
<1>7. before[1] = slots[head] /\ slots[head] \in V
  <2>1. 1 \in 1..count /\ 1 - 1 = 0 /\ 0 \in 0..(count - 1)
    OBVIOUS
  <2>2. RingSlot(head, 0, size) = head
    BY RingSlotZero
  <2>3. QED
    BY <2>1, <2>2, <1>2 DEF RingHolds
<1> HIDE DEF before, after, next
<1>8. before # <<>> /\ Head(before) = before[1]
  BY <1>2
<1>9. /\ Tail(before) \in Seq(V)
      /\ Len(Tail(before)) = count - 1
      /\ \A i \in 1..(count - 1) : Tail(before)[i] = before[i + 1]
  BY <1>2, <1>8
<1>10. after = Tail(before)
  BY <1>5, <1>6, <1>9, SMTT(30)
<1>11. QED
  BY <1>4, <1>7, <1>8, <1>10 DEF before, after, next

-----------------------------------------------------------------------------
\* The slots of the queue once one more element is behind the newest one.
LEMMA RingWindowPush ==
  ASSUME NEW size \in Nat, size > 0, NEW head \in 0..(size - 1),
         NEW count \in 0..(size - 1), NEW k
  PROVE  k \in RingWindow(head, count + 1, size) <=>
         k \in RingWindow(head, count, size) \/ k = RingSlot(head, count, size)
<1>1. 0..((count + 1) - 1) = 0..(count - 1) \cup {count}
  OBVIOUS
<1>2. QED
  BY <1>1 DEF RingWindow

\* The slot behind the newest element is not one of the queue.
LEMMA RingWindowTail ==
  ASSUME NEW size \in Nat, size > 0, NEW head \in 0..(size - 1),
         NEW count \in 0..(size - 1)
  PROVE  RingSlot(head, count, size) \notin RingWindow(head, count, size)
<1>1. ASSUME NEW i \in 0..(count - 1), RingSlot(head, i, size) = RingSlot(head, count, size)
      PROVE  FALSE
  <2>1. i \in 0..(size - 1) /\ i # count
    OBVIOUS
  <2>2. QED
    BY <1>1, <2>1, RingSlotInjective
<1>2. QED
  BY <1>1 DEF RingWindow

\* The slots of the queue once the oldest element is gone.
LEMMA RingWindowPop ==
  ASSUME NEW size \in Nat, size > 0, NEW head \in 0..(size - 1),
         NEW count \in 1..size, NEW k
  PROVE  /\ head \in RingWindow(head, count, size)
         /\ k \in RingWindow(RingSlot(head, 1, size), count - 1, size) <=>
              k \in RingWindow(head, count, size) /\ k # head
<1> DEFINE next == RingSlot(head, 1, size)
<1>1. RingSlot(head, 0, size) = head /\ 0 \in 0..(count - 1)
  BY RingSlotZero
<1>2. head \in RingWindow(head, count, size)
  BY <1>1 DEF RingWindow
<1>3. ASSUME NEW i \in 0..((count - 1) - 1)
      PROVE  /\ RingSlot(next, i, size) = RingSlot(head, i + 1, size)
             /\ i + 1 \in 0..(count - 1)
             /\ RingSlot(head, i + 1, size) # head
  <2>1. /\ i \in 0..(size - 1) /\ i + 1 \in 0..(count - 1)
        /\ i + 1 \in 0..(size - 1) /\ 0 \in 0..(size - 1) /\ i + 1 # 0
    OBVIOUS
  <2>2. RingSlot(next, i, size) = RingSlot(head, i + 1, size)
    BY <2>1, RingSlotNext
  <2>3. RingSlot(head, i + 1, size) # RingSlot(head, 0, size)
    BY <2>1, RingSlotInjective
  <2>4. QED
    BY <1>1, <2>1, <2>2, <2>3
<1>4. ASSUME NEW j \in 0..(count - 1), RingSlot(head, j, size) # head
      PROVE  /\ j - 1 \in 0..((count - 1) - 1)
             /\ RingSlot(next, j - 1, size) = RingSlot(head, j, size)
  <2>1. j # 0
    BY <1>1, <1>4
  <2>2. /\ j - 1 \in 0..((count - 1) - 1)
        /\ (j - 1) + 1 = j
    BY <2>1
  <2>3. QED
    BY <1>3, <2>2
<1> HIDE DEF next
<1>5. k \in RingWindow(next, count - 1, size) =>
        k \in RingWindow(head, count, size) /\ k # head
  BY <1>3 DEF RingWindow
<1>6. k \in RingWindow(head, count, size) /\ k # head =>
        k \in RingWindow(next, count - 1, size)
  BY <1>4 DEF RingWindow
<1>7. QED
  BY <1>2, <1>5, <1>6 DEF next

LEMMA RingWindowEmpty ==
  ASSUME NEW head, NEW size
  PROVE  RingWindow(head, 0, size) = {}
<1>1. 0..(0 - 1) = {}
  OBVIOUS
<1>2. QED
  BY <1>1 DEF RingWindow

\* The elements of the queue are in V when its slots are.
LEMMA RingWindowHolds ==
  ASSUME NEW slots, NEW head, NEW count, NEW size, NEW V,
         \A k \in RingWindow(head, count, size) : slots[k] \in V
  PROVE  RingHolds(slots, head, count, size, V)
BY DEF RingWindow, RingHolds

\* Two arrays that agree on the window agree on the queue.
LEMMA RingWindowAgrees ==
  ASSUME NEW slots, NEW other, NEW head, NEW count, NEW size,
         \A k \in RingWindow(head, count, size) : other[k] = slots[k]
  PROVE  RingAgrees(other, slots, head, count, size)
BY DEF RingWindow, RingAgrees

LEMMA RingWindowInRange ==
  ASSUME NEW size \in Nat, size > 0, NEW head \in 0..(size - 1),
         NEW count \in 0..size, NEW k \in RingWindow(head, count, size)
  PROVE  k \in 0..(size - 1)
<1>1. PICK i \in 0..(count - 1) : k = RingSlot(head, i, size)
  BY DEF RingWindow
<1>2. i \in 0..size
  OBVIOUS
<1>3. QED
  BY <1>1, <1>2, RingSlotValue
=============================================================================
