----------------------------- MODULE FrameQueue -----------------------------
(***************************************************************************)
(* src/process/video/video_pipeline_queue.c: the ring of AVFrame           *)
(* references between a capture thread and its record thread (rec_q), and  *)
(* between the capture threads and the stream thread (stream_q). Every     *)
(* operation runs under the pipeline lock, so each is one action.          *)
(*                                                                         *)
(* A slot is NotAllocated (the pointer is NULL), NoFrame (an AVFrame that  *)
(* references nothing) or the frame it references. av_frame_alloc and      *)
(* av_frame_ref allocate, so each may fail.                                *)
(***************************************************************************)
EXTENDS Naturals, Sequences, Ring

CONSTANTS
  Frame,         \* the frames producers push
  NoFrame,       \* an AVFrame that references nothing
  NotAllocated,  \* a NULL AVFrame pointer
  Size,          \* VP_QUEUE_SIZE (16 in the code)
  MaxDropped     \* bound on the `dropped` counter

ASSUME QueueAssumption ==
  /\ Size \in Nat \ {0}
  /\ MaxDropped \in Nat
  /\ NoFrame \notin Frame
  /\ NotAllocated \notin Frame \cup {NoFrame}

VARIABLES
  frames,     \* q->frames
  head,       \* q->head
  count,      \* q->count
  max_count,  \* q->max_count
  dropped,    \* q->dropped
  dst,        \* the consumer's AVFrame
  freed       \* vp_queue_free has run

vars == <<frames, head, count, max_count, dropped, dst, freed>>

Index == 0..(Size - 1)
Content == Frame \cup {NoFrame}
Slot == Content \cup {NotAllocated}
Contents == RingContents(frames, head, count, Size)
-----------------------------------------------------------------------------
Init ==
  /\ frames = [i \in Index |-> NotAllocated]
  /\ head = 0
  /\ count = 0
  /\ max_count = 0
  /\ dropped = 0
  /\ dst = NoFrame
  /\ freed = FALSE

\* The array once one slot's AVFrame references nothing any more.
Unref(fs, slot) ==
  [fs EXCEPT ![slot] = IF @ = NotAllocated THEN NotAllocated ELSE NoFrame]

\* The array after vp_queue_clear_locked's loop.
UnrefAll(fs) == [i \in Index |-> IF fs[i] = NotAllocated THEN NotAllocated ELSE NoFrame]

\* A mutant: a frame that could not be referenced still counts as queued.
PutFrameCountsRefusals(fs, h, n, f) ==
  /\ head' = h
  /\ count' = n + 1
  /\ max_count' = IF n + 1 > max_count THEN n + 1 ELSE max_count
  /\ frames' \in {[fs EXCEPT ![RingSlot(h, n, Size)] = g] : g \in {f, NoFrame}}

\* A mutant: making room forgets to shorten the queue.
PushWithoutRoom(f) ==
  /\ ~freed
  /\ dropped' = IF count = Size THEN dropped + 1 ELSE dropped
  /\ dropped < MaxDropped
  /\ frames' = [frames EXCEPT ![RingSlot(head, count, Size)] = f]
  /\ count' = count + 1
  /\ max_count' = IF count + 1 > max_count THEN count + 1 ELSE max_count
  /\ UNCHANGED <<head, dst, freed>>

\* The tail of vp_queue_push_locked: put f behind the n frames from slot h on, in
\* the array fs. Allocating the slot's AVFrame or referencing f may fail.
PutFrame(fs, h, n, f) ==
  LET slot == RingSlot(h, n, Size)
  IN /\ head' = h
     /\ \/ /\ frames' = [fs EXCEPT ![slot] = f]
           /\ count' = n + 1
           /\ max_count' = IF n + 1 > max_count THEN n + 1 ELSE max_count
        \/ /\ frames' = [fs EXCEPT ![slot] = NoFrame]
           /\ count' = n
           /\ UNCHANGED max_count
        \/ /\ fs[slot] = NotAllocated
           /\ frames' = fs
           /\ count' = n
           /\ UNCHANGED max_count

vp_queue_push_locked(f) ==
  /\ ~freed
  /\ \/ /\ count = Size
        /\ dropped < MaxDropped
        /\ dropped' = dropped + 1
        /\ PutFrame(Unref(frames, head), RingSlot(head, 1, Size), count - 1, f)
     \/ /\ count < Size
        /\ UNCHANGED dropped
        /\ PutFrame(frames, head, count, f)
  /\ UNCHANGED <<dst, freed>>

\* Clears only when something is queued, then pushes: the queue is never full here.
vp_queue_push_latest_locked(f) ==
  /\ ~freed
  /\ dropped + count <= MaxDropped
  /\ dropped' = dropped + count
  /\ IF count > 0 THEN PutFrame(UnrefAll(frames), 0, 0, f)
                  ELSE PutFrame(frames, head, 0, f)
  /\ UNCHANGED <<dst, freed>>

\* A mutant: the slot keeps its reference when its frame is taken.
PopKeepsReference ==
  /\ ~freed
  /\ count > 0
  /\ dst' = frames[head]
  /\ head' = RingSlot(head, 1, Size)
  /\ count' = count - 1
  /\ UNCHANGED <<frames, max_count, dropped, freed>>

\* dst drops what it referenced first, so a failing av_frame_ref leaves it empty
\* and the frame queued.
vp_queue_pop_locked ==
  /\ ~freed
  /\ count > 0
  /\ \/ /\ dst' = frames[head]
        /\ frames' = Unref(frames, head)
        /\ head' = RingSlot(head, 1, Size)
        /\ count' = count - 1
     \/ /\ dst' = NoFrame
        /\ UNCHANGED <<frames, head, count>>
  /\ UNCHANGED <<max_count, dropped, freed>>

vp_queue_clear_locked ==
  /\ ~freed
  /\ frames' = UnrefAll(frames)
  /\ head' = 0
  /\ count' = 0
  /\ UNCHANGED <<max_count, dropped, dst, freed>>

\* vp_deinit frees the AVFrames and then the queue itself.
vp_queue_free ==
  /\ ~freed
  /\ freed' = TRUE
  /\ frames' = [i \in Index |-> NotAllocated]
  /\ UNCHANGED <<head, count, max_count, dropped, dst>>

Next ==
  \/ \E f \in Frame : vp_queue_push_locked(f)
  \/ \E f \in Frame : vp_queue_push_latest_locked(f)
  \/ vp_queue_pop_locked
  \/ vp_queue_clear_locked
  \/ vp_queue_free

Spec == Init /\ [][Next]_vars
-----------------------------------------------------------------------------
TypeOK ==
  /\ frames \in [Index -> Slot]
  /\ head \in Index
  /\ count \in 0..Size
  /\ max_count \in 0..Size
  /\ dropped \in 0..MaxDropped
  /\ dst \in Content
  /\ freed \in BOOLEAN

(***************************************************************************)
(* The queue references a frame exactly in the slots between head and      *)
(* head + count: a pop never meets an empty slot, and no frame (an MPP     *)
(* buffer of the decoder's small pool) stays referenced once it has left   *)
(* the queue, on any path of push, pop, clear and their failures.          *)
(***************************************************************************)
Pins(fs, h, n) == \A i \in Index : fs[i] \in Frame <=> i \in RingWindow(h, n, Size)
PinsExactlyTheQueued == ~freed => Pins(frames, head, count)

(***************************************************************************)
(* The ring implements the promise of FrameFifo: first in first out, drop  *)
(* oldest, and an exact count of the frames that gave way.                 *)
(***************************************************************************)
Fifo == INSTANCE FrameFifo WITH
          contents <- IF freed THEN <<>> ELSE Contents, Capacity <- Size
ImplementsFifo == Fifo!FifoSpec
=============================================================================
