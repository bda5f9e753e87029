------------------------------ MODULE Recorder ------------------------------
(***************************************************************************)
(* src/output/file/mp4/video_pipeline_record.c with the capture threads of *)
(* video_pipeline_input.c and vp_deinit of video_pipeline.c: who may touch *)
(* a channel's MP4 output, and when a recording is over.                   *)
(*                                                                         *)
(* Actors: one capture thread per channel, one record thread per           *)
(* recording, and one caller: whoever holds control->lock (ControlQueue),  *)
(* and in the end the main thread, which calls vp_deinit after it joined   *)
(* the control worker. A critical section of p->lock is one action; so is  *)
(* a stretch between two of them.                                          *)
(*                                                                         *)
(* The record queue is its length here: FrameQueue shows that it hands     *)
(* frames over in order. Allocations at thread start and references are    *)
(* assumed to succeed.                                                     *)
(***************************************************************************)
EXTENDS Naturals

CONSTANTS
  Channel,      \* the channel indices
  NoChannel,    \* no channel (VP_CHANNEL_INVALID)
  Reconnecting, \* the channels with capture_reconnect: HDMI and USB inputs
  Hdmi,         \* those that cannot record without an input signal
  QueueSize,    \* VP_QUEUE_SIZE
  MaxThreads    \* bound on the record threads a run creates

ASSUME RecorderAssumption ==
  /\ Channel \subseteq Nat
  /\ NoChannel \notin Channel
  /\ Reconnecting \subseteq Channel
  /\ Hdmi \subseteq Reconnecting
  /\ QueueSize \in Nat \ {0}
  /\ MaxThreads \in Nat

VARIABLES
  stop,         \* p->stop
  freed,        \* vp_deinit has freed the context
  opened,       \* ch->is_opened
  has_signal,   \* ch->input_has_signal
  initializing, \* ch->record_initializing
  wanted,       \* ch->record_wanted
  recording,    \* ch->recording
  queue,        \* ch->rec_q.count
  output,       \* the muxer, the encoder and the file of the channel
  handle,       \* ch->rec_thread
  capture_at,   \* where the channel's capture thread is
  started,      \* how many record threads were created
  thread_at,    \* where a record thread is
  thread_of,    \* the channel a record thread was created for
  caller_at,    \* where the caller is
  target,       \* the channel the caller works on
  todo          \* the channels its loop has not reached

flags == <<initializing, wanted, recording>>
captureVars == <<opened, has_signal, capture_at>>
threadVars == <<started, thread_at, thread_of>>
callerVars == <<caller_at, target, todo>>
vars == <<stop, freed, flags, captureVars, queue, output, handle, threadVars, callerVars>>

Thread == 1..MaxThreads
NoThread == 0

\* The lowest channel of a loop `for (i = 0; i < p->channel_count; ++i)`.
First(cs) == {c \in cs : \A d \in cs : c <= d}

\* A mutant: nobody is woken.
WakeForgotten(cs) == thread_at

\* The record threads, once those that wait on the rec_cond of cs are woken.
Woken(cs) ==
  [t \in Thread |-> IF thread_at[t] = "waiting" /\ thread_of[t] \in cs
                    THEN "check" ELSE thread_at[t]]
-----------------------------------------------------------------------------
\* vp_init has opened what it could; a channel that neither opened nor reconnects
\* has no capture thread.
Init ==
  /\ stop = FALSE
  /\ freed = FALSE
  /\ opened \in [Channel -> BOOLEAN]
  /\ has_signal = [c \in Channel |-> FALSE]
  /\ initializing = [c \in Channel |-> FALSE]
  /\ wanted = [c \in Channel |-> FALSE]
  /\ recording = [c \in Channel |-> FALSE]
  /\ queue = [c \in Channel |-> 0]
  /\ output = [c \in Channel |-> "closed"]
  /\ handle = [c \in Channel |-> NoThread]
  /\ capture_at = [c \in Channel |->
                     IF opened[c] \/ c \in Reconnecting THEN "loop" ELSE "done"]
  /\ started = 0
  /\ thread_at = [t \in Thread |-> "none"]
  /\ thread_of = [t \in Thread |-> NoChannel]
  /\ caller_at = "idle"
  /\ target = NoChannel
  /\ todo = {}
-----------------------------------------------------------------------------
(***************************************************************************)
(* vp_capture_thread. p->stop and ch->is_opened are read without the lock. *)
(***************************************************************************)
CaptureMoves(c, pc) == capture_at' = [capture_at EXCEPT ![c] = pc]

\* A mutant: the loop misses p->stop.
CaptureIgnoresStop(c) ==
  /\ ~freed /\ capture_at[c] = "loop"
  /\ opened[c]
  /\ CaptureMoves(c, "have_frame")
  /\ UNCHANGED <<stop, freed, flags, opened, has_signal, queue, output, handle,
                 threadVars, callerVars>>

\* One turn of the loop: leave it, reopen the input, get a frame, lose the input, or
\* show colour bars for an HDMI input that is gone. A read that fails otherwise
\* changes nothing.
CaptureTurn(c) ==
  /\ ~freed /\ capture_at[c] = "loop"
  /\ \/ /\ stop
        /\ CaptureMoves(c, "done")
        /\ UNCHANGED opened
     \/ /\ ~stop /\ ~opened[c]
        /\ c \in Reconnecting
        /\ opened' = [opened EXCEPT ![c] = TRUE]
        /\ UNCHANGED capture_at
     \/ /\ ~stop /\ opened[c]
        /\ CaptureMoves(c, "have_frame")
        /\ UNCHANGED opened
     \/ /\ ~stop /\ opened[c] /\ c \in Reconnecting
        /\ opened' = [opened EXCEPT ![c] = FALSE]
        /\ CaptureMoves(c, "lost")
     \/ /\ ~stop /\ ~opened[c] /\ c \in Hdmi
        /\ CaptureMoves(c, "lost")
        /\ UNCHANGED opened
  /\ UNCHANGED <<stop, freed, flags, has_signal, queue, output, handle,
                 threadVars, callerVars>>

\* The input is gone (a read error, or HDMI falling back to its colour bars): a
\* recording of it ends.
LoseSignal(c) ==
  /\ ~freed /\ capture_at[c] = "lost"
  /\ has_signal' = [has_signal EXCEPT ![c] = FALSE]
  /\ wanted' = [wanted EXCEPT ![c] = FALSE]
  /\ thread_at' = IF wanted[c] THEN Woken({c}) ELSE thread_at
  /\ CaptureMoves(c, "loop")
  /\ UNCHANGED <<stop, freed, initializing, recording, opened, queue, output, handle,
                 started, thread_of, callerVars>>

\* A mutant: a full queue grows.
PushUnbounded(n) == n + 1

\* The length of a queue of n frames after vp_queue_push_locked.
Pushed(n) == IF n = QueueSize THEN n ELSE n + 1

\* The frame reaches the record queue if a recording wants it; a full queue drops
\* its oldest frame for it.
PublishFrame(c) ==
  /\ ~freed /\ capture_at[c] = "have_frame"
  /\ has_signal' = [has_signal EXCEPT ![c] = TRUE]
  /\ IF wanted[c]
     THEN /\ queue' = [queue EXCEPT ![c] = Pushed(@)]
          /\ thread_at' = Woken({c})
     ELSE UNCHANGED <<queue, thread_at>>
  /\ CaptureMoves(c, "loop")
  /\ UNCHANGED <<stop, freed, flags, opened, output, handle, started, thread_of, callerVars>>

\* The frame rate limit skips the frame.
SkipFrame(c) ==
  /\ ~freed /\ capture_at[c] = "have_frame"
  /\ CaptureMoves(c, "loop")
  /\ UNCHANGED <<stop, freed, flags, opened, has_signal, queue, output, handle,
                 threadVars, callerVars>>
-----------------------------------------------------------------------------
(***************************************************************************)
(* vp_record_thread.                                                       *)
(***************************************************************************)
ThreadMoves(t, pc) == thread_at' = [thread_at EXCEPT ![t] = pc]

\* A mutant: the end of a recording is noticed before its queue is empty.
DrainedOrUnwanted(c) == queue[c] = 0 \/ ~wanted[c]

Drained(c) == queue[c] = 0

\* Wait for a frame or for the end of the recording, then take the frame.
RecordCheck(t) ==
  LET c == thread_of[t] IN
  /\ ~freed /\ thread_at[t] = "check"
  /\ \/ /\ Drained(c) /\ wanted[c] /\ ~stop
        /\ ThreadMoves(t, "waiting")
        /\ UNCHANGED queue
     \/ /\ Drained(c) /\ ~(wanted[c] /\ ~stop)
        /\ ThreadMoves(t, "closing")
        /\ UNCHANGED queue
     \/ /\ ~Drained(c)
        /\ ThreadMoves(t, "encode")
        /\ queue' = [queue EXCEPT ![c] = @ - 1]
  /\ UNCHANGED <<stop, freed, flags, captureVars, output, handle, started, thread_of,
                 callerVars>>

\* pthread_cond_wait may return although nobody signalled.
SpuriousWake(t) ==
  /\ ~freed /\ thread_at[t] = "waiting"
  /\ ThreadMoves(t, "check")
  /\ UNCHANGED <<stop, freed, flags, captureVars, queue, output, handle, started, thread_of,
                 callerVars>>

\* vp_record_encode_frame; an error is logged and the loop goes on.
RecordEncode(t) ==
  /\ ~freed /\ thread_at[t] = "encode"
  /\ ThreadMoves(t, "check")
  /\ UNCHANGED <<stop, freed, flags, captureVars, queue, output, handle, started, thread_of,
                 callerVars>>

\* vp_record_close_output, without the lock.
RecordClose(t) ==
  /\ ~freed /\ thread_at[t] = "closing"
  /\ output' = [output EXCEPT ![thread_of[t]] = "closed"]
  /\ ThreadMoves(t, "ending")
  /\ UNCHANGED <<stop, freed, flags, captureVars, queue, handle, started, thread_of,
                 callerVars>>

\* ch->recording = 0 under the lock, and the thread function returns.
RecordEnd(t) ==
  /\ ~freed /\ thread_at[t] = "ending"
  /\ recording' = [recording EXCEPT ![thread_of[t]] = FALSE]
  /\ ThreadMoves(t, "done")
  /\ UNCHANGED <<stop, freed, initializing, wanted, captureVars, queue, output, handle,
                 started, thread_of, callerVars>>
-----------------------------------------------------------------------------
(***************************************************************************)
(* vp_record_start, of one channel or, in a loop, of all of them.          *)
(***************************************************************************)
CallerMoves(pc) == caller_at' = pc

StartRequest(cs) ==
  /\ ~freed /\ caller_at = "idle"
  /\ CallerMoves("next")
  /\ todo' = cs
  /\ UNCHANGED <<stop, freed, flags, captureVars, queue, output, handle, threadVars, target>>

\* is_opened is read before the lock is taken.
StartNext ==
  /\ ~freed /\ caller_at = "next"
  /\ \/ /\ todo = {}
        /\ CallerMoves("idle")
        /\ target' = NoChannel
        /\ UNCHANGED todo
     \/ \E c \in First(todo) :
          /\ todo' = todo \ {c}
          /\ IF opened[c] THEN target' = c /\ CallerMoves("begin")
                          ELSE UNCHANGED <<target, caller_at>>
  /\ UNCHANGED <<stop, freed, flags, captureVars, queue, output, handle, threadVars>>

\* A mutant: the flag of a recording that is ending is not looked at.
BusyWithoutRecording(c) == initializing[c] \/ wanted[c]

Busy(c) == initializing[c] \/ wanted[c] \/ recording[c]

\* The locked checks. The path or the copy of the latest frame may not be had, and
\* the size of the output may be wrong, which is noticed after the flag is set.
BeginStart ==
  /\ ~freed /\ caller_at = "begin"
  /\ \/ /\ CallerMoves("next")
        /\ UNCHANGED initializing
     \/ /\ target \in Hdmi => has_signal[target]
        /\ ~Busy(target)
        /\ initializing' = [initializing EXCEPT ![target] = TRUE]
        /\ caller_at' \in {"open", "withdraw"}
  /\ UNCHANGED <<stop, freed, wanted, recording, captureVars, queue, output, handle,
                 threadVars, target, todo>>

\* vp_record_open_output; what a failed one opened is closed by the "abort" step.
OpenOutput ==
  /\ ~freed /\ caller_at = "open"
  /\ output' = [output EXCEPT ![target] = "open"]
  /\ caller_at' \in {"warmup", "abort"}
  /\ UNCHANGED <<stop, freed, flags, captureVars, queue, handle, threadVars, target, todo>>

\* The latest frame is converted and encoded once, to warm the encoder up.
Warmup ==
  /\ ~freed /\ caller_at = "warmup"
  /\ caller_at' \in {"commit", "abort"}
  /\ UNCHANGED <<stop, freed, flags, captureVars, queue, output, handle, threadVars,
                 target, todo>>

AbortStart ==
  /\ ~freed /\ caller_at = "abort"
  /\ output' = [output EXCEPT ![target] = "closed"]
  /\ CallerMoves("withdraw")
  /\ UNCHANGED <<stop, freed, flags, captureVars, queue, handle, threadVars, target, todo>>

WithdrawStart ==
  /\ ~freed /\ caller_at = "withdraw"
  /\ initializing' = [initializing EXCEPT ![target] = FALSE]
  /\ CallerMoves("next")
  /\ UNCHANGED <<stop, freed, wanted, recording, captureVars, queue, output, handle,
                 threadVars, target, todo>>

\* The locked end of vp_record_start. The queue is cleared, the record thread is
\* created and the flags change together; pthread_create may fail.
CommitStart ==
  /\ ~freed /\ caller_at = "commit"
  /\ initializing' = [initializing EXCEPT ![target] = FALSE]
  /\ queue' = [queue EXCEPT ![target] = IF stop THEN @ ELSE 0]
  /\ \/ /\ CallerMoves("undo")
        /\ UNCHANGED <<wanted, recording, handle, threadVars>>
     \/ /\ ~stop /\ started < MaxThreads
        /\ started' = started + 1
        /\ thread_of' = [thread_of EXCEPT ![started + 1] = target]
        /\ ThreadMoves(started + 1, "check")
        /\ handle' = [handle EXCEPT ![target] = started + 1]
        /\ wanted' = [wanted EXCEPT ![target] = TRUE]
        /\ recording' = [recording EXCEPT ![target] = TRUE]
        /\ CallerMoves("next")
  /\ UNCHANGED <<stop, freed, captureVars, output, target, todo>>

\* No thread: the output is closed after the lock was left.
UndoStart ==
  /\ ~freed /\ caller_at = "undo"
  /\ output' = [output EXCEPT ![target] = "closed"]
  /\ CallerMoves("next")
  /\ UNCHANGED <<stop, freed, flags, captureVars, queue, handle, threadVars, target, todo>>
-----------------------------------------------------------------------------
(***************************************************************************)
(* vp_record_stop_ex, vp_record_stop_all_ex and vp_deinit.                 *)
(***************************************************************************)
StopRequest(c) ==
  /\ ~freed /\ caller_at = "idle"
  /\ ~initializing[c] /\ (wanted[c] \/ recording[c])
  /\ wanted' = [wanted EXCEPT ![c] = FALSE]
  /\ thread_at' = Woken({c})
  /\ target' = c
  /\ CallerMoves("join")
  /\ UNCHANGED <<stop, freed, initializing, recording, captureVars, queue, output, handle,
                 started, thread_of, todo>>

\* A mutant: a thread that did not end in time counts as ended.
EndedOrGivenUp(h) == TRUE

Ended(h) == h # NoThread /\ thread_at[h] = "done"

StopJoins ==
  /\ ~freed /\ caller_at = "join"
  /\ Ended(handle[target])
  /\ handle' = [handle EXCEPT ![target] = NoThread]
  /\ CallerMoves("idle")
  /\ target' = NoChannel
  /\ UNCHANGED <<stop, freed, flags, captureVars, queue, output, threadVars, todo>>

StopAllRequest ==
  /\ ~freed /\ caller_at = "idle"
  /\ CallerMoves("signal")
  /\ todo' = Channel
  /\ UNCHANGED <<stop, freed, flags, captureVars, queue, output, handle, threadVars, target>>

\* The first loop: every recording is told to end before any thread is waited for.
SignalNext ==
  /\ ~freed /\ caller_at = "signal"
  /\ \/ /\ todo = {}
        /\ todo' = Channel
        /\ CallerMoves("join_all")
        /\ UNCHANGED <<wanted, thread_at>>
     \/ \E c \in First(todo) :
          /\ todo' = todo \ {c}
          /\ UNCHANGED caller_at
          /\ IF ~initializing[c] /\ (wanted[c] \/ recording[c])
             THEN /\ wanted' = [wanted EXCEPT ![c] = FALSE]
                  /\ thread_at' = Woken({c})
             ELSE UNCHANGED <<wanted, thread_at>>
  /\ UNCHANGED <<stop, freed, initializing, recording, captureVars, queue, output, handle,
                 started, thread_of, target>>

\* The second loop: each thread gets three seconds to end.
JoinNext ==
  /\ ~freed /\ caller_at = "join_all"
  /\ \/ /\ todo = {}
        /\ CallerMoves(IF stop THEN "free" ELSE "idle")
        /\ UNCHANGED <<todo, handle>>
     \/ \E c \in First(todo) :
          /\ todo' = todo \ {c}
          /\ UNCHANGED caller_at
          /\ handle' = IF Ended(handle[c]) THEN [handle EXCEPT ![c] = NoThread] ELSE handle
  /\ UNCHANGED <<stop, freed, flags, captureVars, queue, output, threadVars, target>>

\* vp_deinit sets p->stop and wakes everyone, joins the capture threads, stops the
\* recordings (SignalNext and JoinNext) and frees the context.
DeinitRequest ==
  /\ ~freed /\ caller_at = "idle"
  /\ stop' = TRUE
  /\ thread_at' = Woken(Channel)
  /\ CallerMoves("join_capture")
  /\ UNCHANGED <<freed, flags, captureVars, queue, output, handle, started, thread_of,
                 target, todo>>

DeinitJoinsCapture ==
  /\ ~freed /\ caller_at = "join_capture"
  /\ \A c \in Channel : capture_at[c] = "done"
  /\ CallerMoves("signal")
  /\ todo' = Channel
  /\ UNCHANGED <<stop, freed, flags, captureVars, queue, output, handle, threadVars, target>>

\* From here on nothing the threads would do is defined.
DeinitFrees ==
  /\ ~freed /\ caller_at = "free"
  /\ freed' = TRUE
  /\ UNCHANGED <<stop, flags, captureVars, queue, output, handle, threadVars, callerVars>>

Terminated == freed /\ UNCHANGED vars
-----------------------------------------------------------------------------
Capture(c) == CaptureTurn(c) \/ LoseSignal(c) \/ PublishFrame(c) \/ SkipFrame(c)
Record(t) == RecordCheck(t) \/ RecordEncode(t) \/ RecordClose(t) \/ RecordEnd(t)
Starting == \/ StartNext \/ BeginStart \/ OpenOutput \/ Warmup
            \/ AbortStart \/ WithdrawStart \/ CommitStart \/ UndoStart
Stopping == StopJoins \/ SignalNext \/ JoinNext \/ DeinitJoinsCapture \/ DeinitFrees

Next ==
  \/ \E c \in Channel : Capture(c)
  \/ \E t \in Thread : Record(t) \/ SpuriousWake(t)
  \/ \E c \in Channel : StartRequest({c}) \/ StopRequest(c)
  \/ StartRequest(Channel)
  \/ StopAllRequest
  \/ DeinitRequest
  \/ Starting
  \/ Stopping
  \/ Terminated

Spec == Init /\ [][Next]_vars

(***************************************************************************)
(* A running thread goes on: a capture thread that has a frame or lost its *)
(* input reaches its critical section, a record thread its next step (the  *)
(* encoder returns), the caller the next step of its request. Requests,    *)
(* input failures and spurious wake-ups need not happen.                   *)
(***************************************************************************)
FairSpec ==
  /\ Spec
  /\ \A c \in Channel : WF_vars(Capture(c))
  /\ \A t \in Thread : WF_vars(Record(t))
  /\ WF_vars(Starting \/ Stopping)
-----------------------------------------------------------------------------
FlagsTypeOK ==
  /\ stop \in BOOLEAN /\ freed \in BOOLEAN
  /\ opened \in [Channel -> BOOLEAN] /\ has_signal \in [Channel -> BOOLEAN]
  /\ initializing \in [Channel -> BOOLEAN]
  /\ wanted \in [Channel -> BOOLEAN] /\ recording \in [Channel -> BOOLEAN]

ThreadPc == {"none", "check", "waiting", "encode", "closing", "ending", "done"}
CapturePc == {"loop", "have_frame", "lost", "done"}
StartPc == {"begin", "open", "warmup", "abort", "withdraw", "commit", "undo"}
CallerPc == StartPc \cup {"idle", "next", "join", "signal", "join_all", "join_capture", "free"}

TypeOK ==
  /\ FlagsTypeOK
  /\ queue \in [Channel -> 0..QueueSize]
  /\ output \in [Channel -> {"closed", "open"}]
  /\ handle \in [Channel -> Thread \cup {NoThread}]
  /\ capture_at \in [Channel -> CapturePc]
  /\ started \in 0..MaxThreads
  /\ thread_at \in [Thread -> ThreadPc]
  /\ thread_of \in [Thread -> Channel \cup {NoChannel}]
  /\ caller_at \in CallerPc
  /\ target \in Channel \cup {NoChannel}
  /\ caller_at \in StartPc \cup {"join"} => target \in Channel
  /\ todo \subseteq Channel

\* A record thread that still has its channel's output, or still has to end.
HasOutput(t) == thread_at[t] \in {"check", "waiting", "encode", "closing"}
Alive(t) == HasOutput(t) \/ thread_at[t] = "ending"

\* The caller prepares or takes down the output of c.
CallerHasOutput(c) ==
  target = c /\ caller_at \in {"open", "warmup", "abort", "commit", "undo"}

(***************************************************************************)
(* An MP4 output is never touched by two threads: not by the record        *)
(* threads of two recordings, nor by one and a start that prepares the     *)
(* next. Nothing but the flags keeps them apart, open and close take no    *)
(* lock. And no output stays open without a thread that will close it.     *)
(***************************************************************************)
OneThreadPerOutput ==
  \A t, u \in Thread : HasOutput(t) /\ HasOutput(u) /\ thread_of[t] = thread_of[u] => t = u
NotWhileStarting ==
  \A t \in Thread : HasOutput(t) =>
    /\ output[thread_of[t]] = "open"
    /\ ~CallerHasOutput(thread_of[t])
SomeoneCloses ==
  \A c \in Channel : output[c] = "open" =>
    \/ CallerHasOutput(c)
    \/ \E t \in Thread : HasOutput(t) /\ thread_of[t] = c
FileHasOneWriter == OneThreadPerOutput /\ NotWhileStarting /\ SomeoneCloses

(***************************************************************************)
(* ch->rec_thread names the thread of the recording as long as it runs:    *)
(* vp_record_stop_ex can join it, also after a stop of all channels gave   *)
(* up on it, and a start never overwrites it.                              *)
(***************************************************************************)
HandleNamesThread == \A t \in Thread : Alive(t) => handle[thread_of[t]] = t

(***************************************************************************)
(* No lost wake-up: a record thread sleeps only while nothing is queued,   *)
(* the recording is wanted and the pipeline runs.                          *)
(***************************************************************************)
NoLostWakeup ==
  \A t \in Thread : thread_at[t] = "waiting" =>
    queue[thread_of[t]] = 0 /\ wanted[thread_of[t]] /\ ~stop

(***************************************************************************)
(* While the pipeline runs, a frame in a record queue has a thread that    *)
(* will still encode it: no recording ends with frames left behind.        *)
(* (vp_deinit sets p->stop, which lets a record thread end before the last *)
(* frame of its capture thread is queued.)                                 *)
(***************************************************************************)
NoFrameLeftBehind ==
  \A c \in Channel : queue[c] > 0 =>
    \/ stop
    \/ \E t \in Thread : thread_of[t] = c /\ thread_at[t] \in {"check", "encode"}

(***************************************************************************)
(* When vp_record_stop returns, the file is complete (video_pipeline.h:    *)
(* "the file has been written on return"): the output is closed, every     *)
(* queued frame went into it and the channel counts as idle.               *)
(***************************************************************************)
Complete(c) ==
  /\ output[c] = "closed"
  /\ queue[c] = 0
  /\ ~wanted[c] /\ ~recording[c]
StopFinishesFile ==
  [][caller_at = "join" /\ caller_at' = "idle" => Complete(target)]_vars

(***************************************************************************)
(* What vp_deinit's comment promises (video_pipeline.c, "then stop the     *)
(* record threads: there are no new frames now, they can exit cleanly"):   *)
(* the context is freed when no record thread runs any more.               *)
(***************************************************************************)
FreedAfterThreads == freed => \A t \in Thread : ~Alive(t)

(***************************************************************************)
(* A stop of one channel returns, however many frames its camera delivers  *)
(* meanwhile.                                                              *)
(***************************************************************************)
StopReturns == (caller_at = "join") ~> (caller_at = "idle")

(***************************************************************************)
(* A recording whose input is lost ends by itself, unless the pipeline is  *)
(* torn down first.                                                        *)
(***************************************************************************)
LossEndsRecording ==
  \A c \in Channel :
    (capture_at[c] = "lost" /\ wanted[c]) ~> (~recording[c] \/ freed)

(***************************************************************************)
(* vp_deinit ends: the capture threads notice p->stop, and no record       *)
(* thread can hold it up.                                                  *)
(***************************************************************************)
DeinitReturns == stop ~> freed
=============================================================================
