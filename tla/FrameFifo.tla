----------------------------- MODULE FrameFifo ------------------------------
(***************************************************************************)
(* What a frame queue promises its two users (the record thread and the    *)
(* stream thread): frames come out in the order they went in, the oldest   *)
(* frame gives way when the queue is full, a "latest" offer leaves only    *)
(* the new frame, and every frame that gave way is counted in `dropped`.   *)
(* A frame whose reference cannot be taken (no memory) is refused, after   *)
(* room has been made for it.                                              *)
(***************************************************************************)
EXTENDS Naturals, Sequences

CONSTANTS
  Frame,     \* the frames producers offer
  NoFrame,   \* an AVFrame that references nothing
  Capacity   \* VP_QUEUE_SIZE

VARIABLES
  contents,  \* the queued frames, oldest first
  dropped,   \* how many frames gave way to newer ones
  dst        \* the consumer's AVFrame: the frame it got last, or NoFrame

fifoVars == <<contents, dropped, dst>>

FifoInit ==
  /\ contents = <<>>
  /\ dropped = 0
  /\ dst = NoFrame

IsFull == Len(contents) = Capacity

\* What is left of the queue once there is room for one more frame.
Room == IF IsFull THEN Tail(contents) ELSE contents

Offer(f) ==
  /\ contents' \in {Append(Room, f), Room}
  /\ dropped' = IF IsFull THEN dropped + 1 ELSE dropped
  /\ UNCHANGED dst

OfferLatest(f) ==
  /\ contents' \in {<<f>>, <<>>}
  /\ dropped' = dropped + Len(contents)
  /\ UNCHANGED dst

\* The consumer takes the oldest frame.
Take ==
  /\ contents # <<>>
  /\ dst' = Head(contents)
  /\ contents' = Tail(contents)
  /\ UNCHANGED dropped

\* The reference to the oldest frame cannot be taken: the frame stays queued.
TakeFails ==
  /\ contents # <<>>
  /\ dst' = NoFrame
  /\ UNCHANGED <<contents, dropped>>

Discard ==
  /\ contents' = <<>>
  /\ UNCHANGED <<dropped, dst>>

FifoNext ==
  \/ \E f \in Frame : Offer(f) \/ OfferLatest(f)
  \/ Take
  \/ TakeFails
  \/ Discard

FifoSpec == FifoInit /\ [][FifoNext]_fifoVars
=============================================================================
