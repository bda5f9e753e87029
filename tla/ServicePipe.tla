---------------------------- MODULE ServicePipe -----------------------------
(***************************************************************************)
(* What a device service promises the threads that use it: while it is     *)
(* open it takes requests up to a limit and starts them one at a time, in  *)
(* the order it took them, each at most once; closed, it takes and starts  *)
(* nothing more and drops what it had not started.                         *)
(***************************************************************************)
EXTENDS Naturals, Sequences

CONSTANTS
  Request,
  NoRequest,
  Depth       \* how many requests may wait

VARIABLES
  pending,    \* taken and not started, oldest first
  inHand,     \* the request being served, or NoRequest
  open

Init == pending = <<>> /\ inHand = NoRequest /\ open = FALSE

Take(r) ==
  /\ open
  /\ Len(pending) < Depth
  /\ pending' = Append(pending, r)
  /\ UNCHANGED <<inHand, open>>

Begin ==
  /\ open
  /\ inHand = NoRequest
  /\ pending # <<>>
  /\ inHand' = Head(pending)
  /\ pending' = Tail(pending)
  /\ UNCHANGED open

Finish == inHand # NoRequest /\ inHand' = NoRequest /\ UNCHANGED <<pending, open>>

Open == open' = TRUE /\ inHand = NoRequest /\ UNCHANGED <<pending, inHand>>
Close == open' = FALSE /\ UNCHANGED <<pending, inHand>>
Drop == ~open /\ pending' = <<>> /\ UNCHANGED <<inHand, open>>

Next == (\E r \in Request : Take(r)) \/ Begin \/ Finish \/ Open \/ Close \/ Drop

Spec == Init /\ [][Next]_<<pending, inHand, open>>
=============================================================================
