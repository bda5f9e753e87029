---------------------------- MODULE StreamSwitch ----------------------------
(***************************************************************************)
(* src/output/stream/video_pipeline_stream.c with the capture threads'     *)
(* side of the stream queue (video_pipeline_input.c): switching the source *)
(* of the live stream, and switching the stream off and on, while frames   *)
(* of the old source are on their way to the viewer.                       *)
(*                                                                         *)
(* Actors: one capture thread per channel, the stream thread, and one      *)
(* caller: whoever holds control->lock (ControlQueue), and in the end the  *)
(* main thread in vp_deinit. A critical section of p->lock is one action,  *)
(* with what the stream thread does to its own encoder right after it.     *)
(*                                                                         *)
(* Time: stream_generation_start_us is the time of the last switch, so a   *)
(* frame's pts is not before it exactly if the frame was captured in the   *)
(* present generation. The model keeps that generation in the frame.       *)
(* References are assumed to be had: FrameQueue covers their failure.      *)
(***************************************************************************)
EXTENDS Naturals, Sequences

CONSTANTS
  Channel,        \* the channel indices
  Selectable,     \* the channels that are open or reconnect
  Udp,            \* the transport is UDP, not RTSP or SRT
  NoFrame,        \* nothing captured, or no frame in work
  MaxGeneration,  \* bound on the switches of a run
  MaxFailures,    \* consecutive send_frame failures that reset the encoder (10)
  MaxDelay        \* frames the encoder may hold back

ASSUME StreamAssumption ==
  /\ Selectable \subseteq Channel
  /\ Selectable # {}
  /\ Udp \in BOOLEAN
  /\ MaxGeneration \in Nat
  /\ MaxFailures \in Nat \ {0}
  /\ MaxDelay \in Nat

VARIABLES
  stop,              \* p->stop
  stream_ch,         \* p->stream_ch
  stream_enabled,    \* p->stream_enabled
  switch_pending,    \* p->switch_pending
  stream_generation, \* p->stream_generation
  stream_q,          \* p->stream_q, at most one frame
  captured,          \* the frame each capture thread is about to publish
  thread_at,         \* where the stream thread is
  frame,             \* the frame it works on
  frame_generation,  \* the generation in which it took the frame
  label,             \* the channel whose name it drew on the frame
  force_idr,         \* the next frame is to be encoded as a keyframe
  wait_for_keyframe, \* packets are dropped until a keyframe comes
  encoder_open,      \* p->stream_enc is not NULL
  held,              \* the packets the encoder holds back
  primed,            \* the encoder has been sent a frame
  failures,          \* encode_fail_count
  network,           \* the publisher or socket
  output_retry,      \* next_output_retry_us is set
  encode_retry,      \* next_encode_retry_us is set
  caller_at,         \* where the caller is
  shown,             \* the generation of the packet published last
  synced             \* the viewer got a keyframe since the last switch or reconnect

control == <<stream_ch, stream_enabled, switch_pending, stream_generation>>
work == <<frame, frame_generation, label>>
keyframes == <<force_idr, wait_for_keyframe>>
codec == <<encoder_open, held, primed, failures, encode_retry>>
link == <<network, output_retry>>
viewer == <<shown, synced>>
vars == <<stop, control, stream_q, captured, thread_at, work, keyframes, codec, link,
          caller_at, viewer>>

Generation == 0..MaxGeneration
Frame == [source : Channel, born : Generation]
Packet == [generation : Generation, key : BOOLEAN]
-----------------------------------------------------------------------------
\* vp_init: the stream is enabled unless its UDP socket could not be had.
Init ==
  /\ stop = FALSE
  /\ stream_ch \in Selectable
  /\ stream_generation = 0
  /\ switch_pending = FALSE
  /\ stream_enabled \in IF Udp THEN BOOLEAN ELSE {TRUE}
  /\ network = IF Udp /\ stream_enabled THEN "open" ELSE "closed"
  /\ stream_q = <<>>
  /\ captured = [c \in Channel |-> NoFrame]
  /\ thread_at = "top"
  /\ frame = NoFrame
  /\ frame_generation = 0
  /\ label = stream_ch
  /\ force_idr = FALSE
  /\ wait_for_keyframe = FALSE
  /\ encoder_open = FALSE
  /\ held = <<>>
  /\ primed = FALSE
  /\ failures = 0
  /\ output_retry = FALSE
  /\ encode_retry = FALSE
  /\ caller_at = "idle"
  /\ shown = 0
  /\ synced = FALSE

\* A mutant: the condition variable is not signalled.
WakeStreamForgotten == UNCHANGED thread_at

\* pthread_cond_signal and _broadcast on stream_cond: only the stream thread waits.
WakeStream == thread_at' = IF thread_at = "waiting" THEN "top" ELSE thread_at
-----------------------------------------------------------------------------
(***************************************************************************)
(* vp_capture_thread.                                                      *)
(***************************************************************************)
Capture(c) ==
  /\ ~stop
  /\ captured[c] = NoFrame
  /\ captured' = [captured EXCEPT ![c] = [source |-> c, born |-> stream_generation]]
  /\ UNCHANGED <<stop, control, stream_q, thread_at, work, keyframes, codec, link,
                 caller_at, viewer>>

\* A mutant: a frame captured before the switch is not told from one after it.
WantedWhateverItsAge(f) == stream_enabled /\ f.source = stream_ch /\ ~switch_pending

Wanted(f) ==
  /\ stream_enabled
  /\ f.source = stream_ch
  /\ ~switch_pending
  /\ f.born = stream_generation

\* A mutant: the new frame is queued behind one nobody took.
PublishBehind(c) ==
  /\ captured[c] # NoFrame
  /\ captured' = [captured EXCEPT ![c] = NoFrame]
  /\ IF Wanted(captured[c])
     THEN stream_q' = Append(stream_q, captured[c]) /\ WakeStream
     ELSE UNCHANGED <<stream_q, thread_at>>
  /\ UNCHANGED <<stop, control, work, keyframes, codec, link, caller_at, viewer>>

\* vp_queue_push_latest_locked: the new frame replaces one nobody took.
Publish(c) ==
  /\ captured[c] # NoFrame
  /\ captured' = [captured EXCEPT ![c] = NoFrame]
  /\ IF Wanted(captured[c])
     THEN stream_q' = <<captured[c]>> /\ WakeStream
     ELSE UNCHANGED <<stream_q, thread_at>>
  /\ UNCHANGED <<stop, control, work, keyframes, codec, link, caller_at, viewer>>
-----------------------------------------------------------------------------
(***************************************************************************)
(* vp_stream_thread.                                                       *)
(***************************************************************************)
\* The two flags are set and cleared together.
SetKeyframes(b) == force_idr' = b /\ wait_for_keyframe' = b
ExpectKeyframe == SetKeyframes(TRUE)

\* vp_stream_reset_encoder: what the encoder held back is gone with it; the network
\* publisher stays.
ResetEncoder == encoder_open' = FALSE /\ held' = <<>> /\ primed' = FALSE

\* A mutant: the packets of the old source stay in the encoder.
AcknowledgeKeepsEncoder ==
  /\ thread_at = "top" /\ ~stop /\ switch_pending
  /\ stream_q' = <<>>
  /\ switch_pending' = FALSE
  /\ ExpectKeyframe
  /\ output_retry' = FALSE
  /\ synced' = FALSE
  /\ UNCHANGED <<stop, stream_ch, stream_enabled, stream_generation, captured, thread_at,
                 work, codec, network, caller_at, shown>>

Acknowledge ==
  /\ thread_at = "top" /\ ~stop /\ switch_pending
  /\ stream_q' = <<>>
  /\ switch_pending' = FALSE
  /\ ExpectKeyframe
  /\ ResetEncoder
  /\ output_retry' = FALSE
  /\ synced' = FALSE
  /\ UNCHANGED <<stop, stream_ch, stream_enabled, stream_generation, captured, thread_at,
                 work, failures, encode_retry, network, caller_at, shown>>

\* Leave, wait for a frame, or take it.
TakeFrame ==
  /\ thread_at = "top"
  /\ \/ /\ stop
        /\ thread_at' = "done"
        /\ UNCHANGED <<stream_q, work>>
     \/ /\ ~stop /\ ~switch_pending
        /\ stream_q = <<>> \/ ~stream_enabled
        /\ thread_at' = "waiting"
        /\ UNCHANGED <<stream_q, work>>
     \/ /\ ~stop /\ ~switch_pending
        /\ stream_q # <<>> /\ stream_enabled
        /\ frame' = Head(stream_q)
        /\ stream_q' = <<>>
        /\ frame_generation' = stream_generation
        /\ thread_at' = "draw"
        /\ UNCHANGED label
  /\ UNCHANGED <<stop, control, captured, keyframes, codec, link, caller_at, viewer>>

SpuriousWake ==
  /\ thread_at = "waiting"
  /\ thread_at' = "top"
  /\ UNCHANGED <<stop, control, stream_q, captured, work, keyframes, codec, link,
                 caller_at, viewer>>

\* Convert the frame and draw on it the name of vp_stream_current, read only now.
\* Any of it may fail, which drops the frame.
DrawLabel ==
  /\ thread_at = "draw"
  /\ \/ thread_at' = "top" /\ UNCHANGED label
     \/ thread_at' = "prepare" /\ label' = stream_ch
  /\ UNCHANGED <<stop, control, stream_q, captured, frame, frame_generation, keyframes,
                 codec, link, caller_at, viewer>>

\* vp_stream_prepare_output, not before a failed output may be tried again.
PrepareOutput ==
  /\ thread_at = "prepare"
  /\ \/ /\ output_retry
        /\ thread_at' = "top"
        /\ UNCHANGED <<encoder_open, link, keyframes, synced>>
     \/ /\ encoder_open' \in {encoder_open, TRUE}
        /\ network' = "closed"
        /\ output_retry' = TRUE
        /\ ExpectKeyframe
        /\ synced' = FALSE
        /\ thread_at' = "top"
     \/ /\ encoder_open' = TRUE
        /\ network' = "open"
        /\ output_retry' = FALSE
        /\ IF output_retry THEN ExpectKeyframe ELSE UNCHANGED keyframes
        /\ synced' = (synced /\ network = "open")
        /\ thread_at' = "check"
  /\ UNCHANGED <<stop, control, stream_q, captured, work, held, primed, failures,
                 encode_retry, caller_at, shown>>

\* A mutant: the frame is sent whatever happened since it was taken.
DiscardNothing ==
  /\ thread_at = "check"
  /\ thread_at' = "encode"
  /\ UNCHANGED <<stop, control, stream_q, captured, work, keyframes, codec, link,
                 caller_at, viewer>>

\* The last look at the generation, under the lock.
DiscardStale ==
  /\ thread_at = "check"
  /\ thread_at' = IF switch_pending \/ frame_generation # stream_generation
                  THEN "top" ELSE "encode"
  /\ UNCHANGED <<stop, control, stream_q, captured, work, keyframes, codec, link,
                 caller_at, viewer>>

\* A frame becomes a keyframe if that is asked for and if it is the encoder's first;
\* of the others the encoder makes keyframes as it likes.
Encoded == {p \in Packet : /\ p.generation = frame_generation
                           /\ force_idr \/ ~primed => p.key}

\* avcodec_send_frame, not before a failed encoder may be tried again.
SendFrame ==
  /\ thread_at = "encode"
  /\ \/ /\ encode_retry
        /\ thread_at' = "top"
        /\ UNCHANGED <<codec, keyframes>>
     \/ /\ \E p \in Encoded : held' = Append(held, p)
        /\ primed' = TRUE
        /\ failures' = 0
        /\ encode_retry' = FALSE
        /\ thread_at' = "receive"
        /\ UNCHANGED <<encoder_open, keyframes>>
     \/ /\ failures + 1 < MaxFailures
        /\ failures' = failures + 1
        /\ encode_retry' = TRUE
        /\ thread_at' = "top"
        /\ UNCHANGED <<encoder_open, held, primed, keyframes>>
     \/ /\ failures + 1 >= MaxFailures
        /\ ResetEncoder
        /\ failures' = 0
        /\ encode_retry' = TRUE
        /\ ExpectKeyframe
        /\ thread_at' = "top"
  /\ UNCHANGED <<stop, control, stream_q, captured, work, link, caller_at, viewer>>
-----------------------------------------------------------------------------
(***************************************************************************)
(* The avcodec_receive_packet loop.                                        *)
(***************************************************************************)
\* The encoder has nothing more to give for now.
ReceiveNothing ==
  /\ thread_at = "receive"
  /\ Len(held) <= MaxDelay
  /\ thread_at' = "top"
  /\ UNCHANGED <<stop, control, stream_q, captured, work, keyframes, codec, link,
                 caller_at, viewer>>

\* A mutant: nothing is dropped.
SkipsNothing(p) == FALSE

Skips(p) == wait_for_keyframe /\ ~p.key

DropPacket ==
  /\ thread_at = "receive"
  /\ held # <<>> /\ Skips(Head(held))
  /\ held' = Tail(held)
  /\ UNCHANGED <<stop, control, stream_q, captured, thread_at, work, keyframes,
                 encoder_open, primed, failures, encode_retry, link, caller_at, viewer>>

PublishPacket ==
  /\ thread_at = "receive"
  /\ held # <<>> /\ ~Skips(Head(held))
  /\ network = "open"
  /\ held' = Tail(held)
  /\ IF wait_for_keyframe THEN SetKeyframes(FALSE) ELSE UNCHANGED keyframes
  /\ shown' = Head(held).generation
  /\ synced' = (synced \/ Head(held).key)
  /\ UNCHANGED <<stop, control, stream_q, captured, thread_at, work, encoder_open, primed,
                 failures, encode_retry, link, caller_at>>

\* A mutant: the loop goes on after the output was closed.
PublishFailsGoesOn ==
  /\ thread_at = "receive"
  /\ held # <<>> /\ ~Skips(Head(held))
  /\ held' = Tail(held)
  /\ network' = "closed"
  /\ output_retry' = TRUE
  /\ ExpectKeyframe
  /\ synced' = FALSE
  /\ UNCHANGED <<stop, control, stream_q, captured, thread_at, work, encoder_open, primed,
                 failures, encode_retry, caller_at, shown>>

\* The output fails: close it, and go on with a keyframe once it is open again.
PublishFails ==
  /\ thread_at = "receive"
  /\ held # <<>> /\ ~Skips(Head(held))
  /\ held' = Tail(held)
  /\ network' = "closed"
  /\ output_retry' = TRUE
  /\ ExpectKeyframe
  /\ synced' = FALSE
  /\ thread_at' = "top"
  /\ UNCHANGED <<stop, control, stream_q, captured, work, encoder_open, primed, failures,
                 encode_retry, caller_at, shown>>
-----------------------------------------------------------------------------
(***************************************************************************)
(* vp_stream_select, vp_stream_set_enabled and the start of vp_deinit.     *)
(***************************************************************************)
NewGeneration ==
  /\ stream_generation' = stream_generation + 1
  /\ switch_pending' = TRUE
  /\ WakeStream

\* Selecting the present source changes nothing.
Select(c) ==
  /\ ~stop /\ caller_at = "idle"
  /\ stream_generation < MaxGeneration
  /\ c # stream_ch
  /\ stream_ch' = c
  /\ NewGeneration
  /\ UNCHANGED <<stop, stream_enabled, stream_q, captured, work, keyframes, codec, link,
                 caller_at, viewer>>

\* Asking for what is already so changes nothing. The unlocked stretch that follows
\* opens the UDP socket if the stream is to be enabled and has none.
SetEnabledRequest ==
  /\ ~stop /\ caller_at = "idle"
  /\ stream_generation < MaxGeneration
  /\ caller_at' = IF stream_enabled THEN "disable" ELSE IF Udp THEN "open" ELSE "enable"
  /\ UNCHANGED <<stop, control, stream_q, captured, thread_at, work, keyframes, codec,
                 link, viewer>>

OpenSocket ==
  /\ caller_at = "open"
  /\ \/ network' = "open" /\ caller_at' = "enable"
     \/ network = "closed" /\ caller_at' = "idle" /\ UNCHANGED network
  /\ UNCHANGED <<stop, control, stream_q, captured, thread_at, work, keyframes, codec,
                 output_retry, viewer>>

SetEnabled ==
  /\ caller_at \in {"enable", "disable"}
  /\ stream_enabled' = (caller_at = "enable")
  /\ stream_q' = <<>>
  /\ NewGeneration
  /\ caller_at' = "idle"
  /\ UNCHANGED <<stop, stream_ch, captured, work, keyframes, codec, link, viewer>>

DeinitRequest ==
  /\ ~stop /\ caller_at = "idle"
  /\ stop' = TRUE
  /\ WakeStream
  /\ UNCHANGED <<control, stream_q, captured, work, keyframes, codec, link, caller_at, viewer>>

Terminated == stop /\ thread_at = "done" /\ UNCHANGED vars
-----------------------------------------------------------------------------
StreamThread ==
  \/ Acknowledge \/ TakeFrame \/ DrawLabel \/ PrepareOutput \/ DiscardStale \/ SendFrame
  \/ ReceiveNothing \/ DropPacket \/ PublishPacket \/ PublishFails

Next ==
  \/ \E c \in Channel : Capture(c) \/ Publish(c)
  \/ StreamThread
  \/ SpuriousWake
  \/ \E c \in Selectable : Select(c)
  \/ SetEnabledRequest
  \/ OpenSocket
  \/ SetEnabled
  \/ DeinitRequest
  \/ Terminated

Spec == Init /\ [][Next]_vars

(***************************************************************************)
(* Every running thread goes on, and the cameras deliver frames. The       *)
(* conversion, the network and the encoder may fail now and then, even     *)
(* without end, but each of them also works again and again if it is       *)
(* tried again and again (strong fairness of their successes).             *)
(***************************************************************************)
Fairness ==
  /\ WF_vars(StreamThread)
  /\ \A c \in Channel : WF_vars(Capture(c) \/ Publish(c))
  /\ WF_vars(OpenSocket \/ SetEnabled)
  /\ SF_vars(DrawLabel /\ thread_at' = "prepare")
  /\ SF_vars(PrepareOutput /\ thread_at' = "check")
  /\ SF_vars(SendFrame /\ thread_at' = "receive")
  /\ SF_vars(PublishPacket)

FairSpec == Spec /\ Fairness
-----------------------------------------------------------------------------
ThreadPc == {"top", "waiting", "draw", "prepare", "check", "encode", "receive", "done"}

TypeOK ==
  /\ stop \in BOOLEAN
  /\ stream_ch \in Selectable
  /\ stream_enabled \in BOOLEAN /\ switch_pending \in BOOLEAN
  /\ stream_generation \in Generation
  /\ stream_q \in Seq(Frame) /\ Len(stream_q) <= 1
  /\ captured \in [Channel -> Frame \cup {NoFrame}]
  /\ thread_at \in ThreadPc
  /\ frame \in Frame \cup {NoFrame}
  /\ frame_generation \in Generation
  /\ label \in Channel
  /\ force_idr \in BOOLEAN /\ wait_for_keyframe \in BOOLEAN
  /\ encoder_open \in BOOLEAN /\ primed \in BOOLEAN
  /\ held \in Seq(Packet) /\ Len(held) <= MaxDelay + 1
  /\ failures \in 0..(MaxFailures - 1)
  /\ network \in {"open", "closed"}
  /\ output_retry \in BOOLEAN /\ encode_retry \in BOOLEAN
  /\ caller_at \in {"idle", "open", "enable", "disable"}
  /\ shown \in Generation
  /\ synced \in BOOLEAN

(***************************************************************************)
(* A frame that waits for the stream thread is from the selected source    *)
(* and was captured after the last switch, as soon as that switch is       *)
(* acknowledged: also when a source is left and selected again while a     *)
(* capture thread is between reading a frame and publishing it.            *)
(***************************************************************************)
QueueIsCurrent ==
  ~switch_pending => \A i \in 1..Len(stream_q) :
    stream_q[i].source = stream_ch /\ stream_q[i].born = stream_generation

(***************************************************************************)
(* The name drawn on a frame that goes to the encoder is that of the       *)
(* source it came from, although the name is that of the source selected   *)
(* when it is drawn and not when the frame was taken.                      *)
(***************************************************************************)
LabelMatchesSource == thread_at = "encode" => label = frame.source

(***************************************************************************)
(* The stream thread never uses an encoder or an output it closed, on any  *)
(* path through failures, resets and switches.                             *)
(***************************************************************************)
SendReady ==
  /\ thread_at \in {"check", "encode", "receive"} => encoder_open /\ network = "open"
  /\ held # <<>> => encoder_open

(***************************************************************************)
(* No lost wake-up: the stream thread sleeps only while the stream is off  *)
(* or no frame is there, no switch is to be acknowledged and no one wants  *)
(* it to end.                                                              *)
(***************************************************************************)
NoLostWakeup ==
  thread_at = "waiting" =>
    (stream_q = <<>> \/ ~stream_enabled) /\ ~switch_pending /\ ~stop

(***************************************************************************)
(* A viewer is never sent a packet it cannot decode: after a switch, and   *)
(* after the output was closed and opened again, the first packet is a     *)
(* keyframe.                                                               *)
(***************************************************************************)
KeyframeFirst == [][PublishPacket => synced \/ Head(held).key]_vars

(***************************************************************************)
(* A switch is final: once it is acknowledged nothing of the old source is *)
(* published, not even what the encoder held back; what is published       *)
(* before that is of the old source alone, never of an older one.          *)
(***************************************************************************)
OldSourceEnds ==
  [][PublishPacket => /\ Head(held).generation >= shown
                      /\ Head(held).generation = stream_generation \/ switch_pending]_vars

(***************************************************************************)
(* The viewer gets to see the source that was selected last: no failure    *)
(* of the output or the encoder, in whatever order with switches, leaves   *)
(* the stream thread dropping packets for ever.                            *)
(***************************************************************************)
NewSourceShown ==
  \A g \in Generation :
    (stream_generation = g /\ stream_enabled)
      ~> (shown = g \/ stream_generation # g \/ stop)

(***************************************************************************)
(* vp_deinit can join the stream thread, whatever that thread waits for.   *)
(***************************************************************************)
StopEndsThread == stop ~> (thread_at = "done")
=============================================================================
