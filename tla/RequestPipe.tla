----------------------------- MODULE RequestPipe ----------------------------
(***************************************************************************)
(* What the asynchronous control API promises its callers                  *)
(* (include/control/video_pipeline/video_pipeline_control.h: "APP_OK means *)
(* the request was queued. Completion is reported through callback"):      *)
(* accepted requests are executed one at a time, in the order they were    *)
(* accepted, each of them completes exactly once, and closing the control  *)
(* refuses new requests but still completes the accepted ones.             *)
(***************************************************************************)
EXTENDS Naturals, Sequences

CONSTANTS
  Request,    \* what callers submit
  NoRequest,
  Depth       \* how many requests may wait

VARIABLES
  pending,    \* accepted and not started, oldest first
  inHand,     \* the request being executed, or NoRequest
  completed,  \* how many requests have completed
  last,       \* the request that completed last
  closed      \* no request is accepted any more

pipeVars == <<pending, inHand, completed, last, closed>>

PipeInit ==
  /\ pending = <<>>
  /\ inHand = NoRequest
  /\ completed = 0
  /\ last = NoRequest
  /\ closed = FALSE

Accept(r) ==
  /\ ~closed
  /\ Len(pending) < Depth
  /\ pending' = Append(pending, r)
  /\ UNCHANGED <<inHand, completed, last, closed>>

Begin ==
  /\ inHand = NoRequest
  /\ pending # <<>>
  /\ inHand' = Head(pending)
  /\ pending' = Tail(pending)
  /\ UNCHANGED <<completed, last, closed>>

Complete ==
  /\ inHand # NoRequest
  /\ last' = inHand
  /\ completed' = completed + 1
  /\ inHand' = NoRequest
  /\ UNCHANGED <<pending, closed>>

Close ==
  /\ closed' = TRUE
  /\ UNCHANGED <<pending, inHand, completed, last>>

PipeNext == (\E r \in Request : Accept(r)) \/ Begin \/ Complete \/ Close

PipeSpec == PipeInit /\ [][PipeNext]_pipeVars
=============================================================================
