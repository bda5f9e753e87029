-------------------------------- MODULE Ring --------------------------------
(***************************************************************************)
(* The ring arithmetic that every fixed-capacity queue of the program      *)
(* repeats: the frame queues (video_pipeline_queue.c), the request queue   *)
(* of the control worker (video_pipeline_control.c) and the queues of the  *)
(* device services keep an array, the index `head` of the oldest element   *)
(* and a `count`, and reach element number i at (head + i) % capacity.     *)
(***************************************************************************)
LOCAL INSTANCE Integers

\* The slot of element number i (0 is the oldest): (q->head + i) % VP_QUEUE_SIZE.
RingSlot(head, i, size) == (head + i) % size

\* The slots that hold the elements of the queue.
RingWindow(head, count, size) ==
  {RingSlot(head, i, size) : i \in 0..(count - 1)}

\* The queue as a sequence, oldest element first.
RingContents(slots, head, count, size) ==
  [i \in 1..count |-> slots[RingSlot(head, i - 1, size)]]
=============================================================================
