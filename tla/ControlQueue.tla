---------------------------- MODULE ControlQueue ----------------------------
(***************************************************************************)
(* src/control/video_pipeline/video_pipeline_control.c: the request queue  *)
(* and the worker thread behind the asynchronous control API, beside the   *)
(* synchronous API that calls the pipeline on the caller's own thread.     *)
(* queue_lock guards the queue, so each of its critical sections is one    *)
(* action; control->lock is held over a whole call into the pipeline (a    *)
(* recording start or stop takes seconds), so taking and releasing it are  *)
(* separate actions.                                                       *)
(***************************************************************************)
EXTENDS Naturals, Sequences, Ring

CONSTANTS
  Caller,      \* threads that use the synchronous API
  Channel,     \* the pipeline's channels
  Capacity,    \* VP_CONTROL_QUEUE_CAPACITY (32 in the code)
  IdLimit,     \* 2^64: the width of next_request_id
  MaxRequests, \* bound on the number of requests accepted
  NoRequest,
  Free         \* control->lock has no holder

ASSUME ControlAssumption ==
  /\ Capacity \in Nat \ {0}
  /\ IdLimit \in Nat
  /\ IdLimit > Capacity + 1
  /\ MaxRequests \in Nat
  /\ Free \notin Caller \cup {"worker"}
  /\ "worker" \notin Caller

VARIABLES
  queue,            \* control->queue, the array
  queue_head,
  queue_count,
  next_request_id,
  stop_requested,
  worker,           \* where the worker thread is
  request,          \* the worker's copy of the request it executes
  unreported,       \* channels the request changed and has not reported yet
  lock,             \* the holder of control->lock
  accepted,         \* requests accepted so far
  completed,        \* completion events emitted so far
  last,             \* the request whose completion event came last
  freed             \* vp_control_deinit has returned

queueVars == <<queue, queue_head, queue_count, next_request_id, accepted>>
vars == <<queueVars, stop_requested, worker, request, unreported, lock,
          completed, last, freed>>

\* RECORD_START_ALL and RECORD_STOP_ALL report each channel they changed before
\* their own completion event; the other seven types emit the completion alone.
Kind == {"one_event", "all_channels"}
Id == 1..(IdLimit - 1)
Request == [id : Id, kind : Kind]
Index == 0..(Capacity - 1)
Pending == RingContents(queue, queue_head, queue_count, Capacity)

ASSUME NoRequestAssumption == NoRequest \notin Request

Executing == worker \in {"execute", "locked", "emit"}
-----------------------------------------------------------------------------
Init ==
  /\ queue = [i \in Index |-> NoRequest]
  /\ queue_head = 0
  /\ queue_count = 0
  /\ next_request_id = 1
  /\ stop_requested = FALSE
  /\ worker = "check"
  /\ request = NoRequest
  /\ unreported = {}
  /\ lock = Free
  /\ accepted = 0
  /\ completed = 0
  /\ last = NoRequest
  /\ freed = FALSE

\* A mutant: the counter wraps to 1 as soon as one more id than the queue holds
\* is in use, so an id is used again while its request is outstanding.
NextIdTooNarrow(id) == IF id >= Capacity THEN 1 ELSE id + 1

\* next_request_id++ wraps at its width, and 0 ("no request") is skipped.
NextId(id) == IF (id + 1) % IdLimit = 0 THEN 1 ELSE id + 1

\* A mutant: the condition variable is not signalled.
WakeWorkerForgotten == UNCHANGED worker

\* pthread_cond_signal and _broadcast on queue_cond: only the worker waits there.
WakeWorker == worker' = IF worker = "asleep" THEN "check" ELSE worker

\* A mutant: the queue is taken for full only when one more element is in it.
SubmitWhenFull(kind) ==
  /\ ~freed /\ ~stop_requested /\ queue_count <= Capacity /\ accepted < MaxRequests
  /\ queue' = [queue EXCEPT ![RingSlot(queue_head, queue_count, Capacity)] =
                 [id |-> next_request_id, kind |-> kind]]
  /\ queue_count' = queue_count + 1
  /\ next_request_id' = NextId(next_request_id)
  /\ accepted' = accepted + 1
  /\ WakeWorker
  /\ UNCHANGED <<queue_head, stop_requested, request, unreported, lock, completed, last, freed>>

\* Any thread submits a request. A stopped or full control answers APP_ERR_BUSY
\* and an argument that does not fit APP_ERR_PARAM, changing nothing.
vp_control_submit(kind) ==
  /\ ~freed
  /\ accepted < MaxRequests
  /\ ~stop_requested
  /\ queue_count # Capacity
  /\ queue' = [queue EXCEPT ![RingSlot(queue_head, queue_count, Capacity)] =
                 [id |-> next_request_id, kind |-> kind]]
  /\ queue_count' = queue_count + 1
  /\ next_request_id' = NextId(next_request_id)
  /\ accepted' = accepted + 1
  /\ WakeWorker
  /\ UNCHANGED <<queue_head, stop_requested, request, unreported, lock,
                 completed, last, freed>>
-----------------------------------------------------------------------------
\* A mutant: the worker leaves as soon as it is asked to, with requests queued.
WorkerCheckStopsEarly ==
  /\ worker = "check"
  /\ \/ /\ stop_requested
        /\ worker' = "exited"
        /\ UNCHANGED <<queue_head, queue_count, request>>
     \/ /\ ~stop_requested
        /\ queue_count = 0
        /\ worker' = "asleep"
        /\ UNCHANGED <<queue_head, queue_count, request>>
     \/ /\ ~stop_requested
        /\ queue_count > 0
        /\ request' = queue[queue_head]
        /\ queue_head' = RingSlot(queue_head, 1, Capacity)
        /\ queue_count' = queue_count - 1
        /\ worker' = "execute"
  /\ UNCHANGED <<queue, next_request_id, accepted, stop_requested, unreported,
                 lock, completed, last, freed>>

\* vp_control_worker under queue_lock: wait, leave, or take the oldest request.
\* A stop is obeyed only once the queue is empty.
WorkerCheck ==
  /\ worker = "check"
  /\ \/ /\ queue_count = 0
        /\ worker' = IF stop_requested THEN "exited" ELSE "asleep"
        /\ UNCHANGED <<queue_head, queue_count, request>>
     \/ /\ queue_count > 0
        /\ request' = queue[queue_head]
        /\ queue_head' = RingSlot(queue_head, 1, Capacity)
        /\ queue_count' = queue_count - 1
        /\ worker' = "execute"
  /\ UNCHANGED <<queue, next_request_id, accepted, stop_requested, unreported,
                 lock, completed, last, freed>>

\* pthread_cond_wait may return without a signal; the loop tests again.
SpuriousWakeup ==
  /\ worker = "asleep"
  /\ worker' = "check"
  /\ UNCHANGED <<queueVars, stop_requested, request, unreported, lock,
                 completed, last, freed>>

\* vp_control_execute_request calls the synchronous operation of the request's
\* type, which takes control->lock.
WorkerLock ==
  /\ worker = "execute"
  /\ lock = Free
  /\ lock' = "worker"
  /\ worker' = "locked"
  /\ UNCHANGED <<queueVars, stop_requested, request, unreported, completed, last, freed>>

\* The pipeline has done what it could and control->lock is released. Which
\* channels an all-channels request changed is the recorder's business.
WorkerUnlock ==
  /\ worker = "locked"
  /\ lock' = Free
  /\ worker' = "emit"
  /\ unreported' \in IF request.kind = "all_channels" THEN SUBSET Channel ELSE {{}}
  /\ UNCHANGED <<queueVars, stop_requested, request, completed, last, freed>>

\* RECORD_STOP_ALL without memory for its statistics skips the pipeline call and
\* completes with APP_ERR_NOMEM.
WorkerNoMemory ==
  /\ worker = "execute"
  /\ request.kind = "all_channels"
  /\ worker' = "emit"
  /\ UNCHANGED <<queueVars, stop_requested, request, unreported, lock,
                 completed, last, freed>>

\* One channel's own event, before the completion of the whole request.
EmitChannel(c) ==
  /\ worker = "emit"
  /\ c \in unreported
  /\ unreported' = unreported \ {c}
  /\ UNCHANGED <<queueVars, stop_requested, worker, request, lock,
                 completed, last, freed>>

EmitCompletion ==
  /\ worker = "emit"
  /\ unreported = {}
  /\ completed' = completed + 1
  /\ last' = request
  /\ request' = NoRequest
  /\ worker' = "check"
  /\ UNCHANGED <<queueVars, stop_requested, unreported, lock, freed>>
-----------------------------------------------------------------------------
\* A synchronous call, from any caller's thread: control->lock over the whole
\* pipeline call. video_pipeline_main.c stops these callers before deinit.
SyncBegin(c) ==
  /\ ~freed
  /\ ~stop_requested
  /\ lock = Free
  /\ lock' = c
  /\ UNCHANGED <<queueVars, stop_requested, worker, request, unreported,
                 completed, last, freed>>

SyncEnd(c) ==
  /\ lock = c
  /\ lock' = Free
  /\ UNCHANGED <<queueVars, stop_requested, worker, request, unreported,
                 completed, last, freed>>

\* vp_control_deinit up to its pthread_join.
vp_control_deinit ==
  /\ ~stop_requested
  /\ lock \notin Caller
  /\ stop_requested' = TRUE
  /\ WakeWorker
  /\ UNCHANGED <<queueVars, request, unreported, lock, completed, last, freed>>

\* The worker has been joined and the control is freed.
DeinitJoined ==
  /\ stop_requested
  /\ worker = "exited"
  /\ ~freed
  /\ freed' = TRUE
  /\ UNCHANGED <<queueVars, stop_requested, worker, request, unreported, lock,
                 completed, last>>

Terminated == freed /\ UNCHANGED vars

WorkerStep ==
  \/ WorkerCheck
  \/ WorkerLock
  \/ WorkerUnlock
  \/ WorkerNoMemory
  \/ \E c \in Channel : EmitChannel(c)
  \/ EmitCompletion

Next ==
  \/ \E k \in Kind : vp_control_submit(k)
  \/ WorkerStep
  \/ SpuriousWakeup
  \/ \E c \in Caller : SyncBegin(c) \/ SyncEnd(c)
  \/ vp_control_deinit
  \/ DeinitJoined
  \/ Terminated

Spec == Init /\ [][Next]_vars

(***************************************************************************)
(* Every thread the scheduler can run is run, and a caller leaves the      *)
(* pipeline call it is in. The worker competes for control->lock with      *)
(* callers that come and go, so it gets the lock when the lock is free     *)
(* again and again (strong fairness). Nobody has to submit or to deinit.   *)
(***************************************************************************)
Fairness ==
  /\ WF_vars(WorkerStep)
  /\ SF_vars(WorkerLock)
  /\ \A c \in Caller : WF_vars(SyncEnd(c))
  /\ WF_vars(DeinitJoined)

FairSpec == Spec /\ Fairness
-----------------------------------------------------------------------------
TypeOK ==
  /\ queue \in [Index -> Request \cup {NoRequest}]
  /\ queue_head \in Index
  /\ queue_count \in 0..Capacity
  /\ next_request_id \in Id
  /\ stop_requested \in BOOLEAN
  /\ worker \in {"check", "asleep", "execute", "locked", "emit", "exited"}
  /\ request \in Request \cup {NoRequest}
  /\ unreported \in SUBSET Channel
  /\ lock \in Caller \cup {"worker", Free}
  /\ accepted \in Nat
  /\ completed \in Nat
  /\ last \in Request \cup {NoRequest}
  /\ freed \in BOOLEAN

(***************************************************************************)
(* No lost wake-up: the worker sleeps in pthread_cond_wait only while      *)
(* there is nothing for it to do, however submit, deinit and spurious      *)
(* wake-ups interleave with its test of the queue.                         *)
(***************************************************************************)
NoLostWakeup ==
  worker = "asleep" => queue_count = 0 /\ ~stop_requested

(***************************************************************************)
(* Nothing is lost or done twice: the accepted requests are those          *)
(* completed, the one being executed and those queued; and when deinit has *)
(* joined the worker, every accepted request has completed.                *)
(***************************************************************************)
NothingLost ==
  /\ accepted = completed + queue_count + (IF Executing THEN 1 ELSE 0)
  /\ worker = "exited" => stop_requested /\ accepted = completed

(***************************************************************************)
(* A caller tells its requests apart by id: no two outstanding requests    *)
(* (queued or executing) carry the same id, across the wrap of the counter.*)
(***************************************************************************)
OutstandingIdsDistinct ==
  LET outstanding == (IF Executing THEN 0 ELSE 1)..queue_count
      id(k) == IF k = 0 THEN request.id ELSE Pending[k].id
  IN \A i, j \in outstanding : id(i) = id(j) => i = j

\* Request ids are handed out in a circle: the id that was handed out d ids ago.
IdBefore(id, d) == IF id > d THEN id - d ELSE id - d + (IdLimit - 1)

(***************************************************************************)
(* Why NothingLost and OutstandingIdsDistinct hold: the outstanding        *)
(* requests carry the ids handed out last, oldest request first, and the   *)
(* worker has a request in hand exactly while it executes one.             *)
(***************************************************************************)
OutstandingIdsConsecutive ==
  /\ \A i \in 0..(queue_count - 1) :
       LET r == queue[RingSlot(queue_head, i, Capacity)]
       IN r \in Request /\ r.id = IdBefore(next_request_id, queue_count - i)
  /\ IF Executing THEN /\ request \in Request
                       /\ request.id = IdBefore(next_request_id, queue_count + 1)
                  ELSE request = NoRequest

\* The ring and the worker implement the promise of RequestPipe.
Pipe == INSTANCE RequestPipe WITH
          pending <- Pending, inHand <- request, closed <- stop_requested,
          Depth <- Capacity
ImplementsPipe == Pipe!PipeSpec

(***************************************************************************)
(* Every accepted request completes, also when callers of the synchronous  *)
(* API keep the pipeline busy and when deinit comes in between.            *)
(***************************************************************************)
AcceptedCompletes ==
  \A n \in 1..MaxRequests : (accepted >= n) ~> (completed >= n)

\* vp_control_deinit returns, however many requests are queued.
DeinitReturns == stop_requested ~> freed
=============================================================================
