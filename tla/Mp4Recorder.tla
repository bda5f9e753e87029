---------------------------- MODULE Mp4Recorder -----------------------------
(***************************************************************************)
(* The recorder that owns its camera: one thread captures, one encodes to  *)
(* an MP4 file, and callers start and stop recordings and take pictures.   *)
(*   src/output/file/mp4/mp4_recorder.c                                    *)
(* queue_lock guards the flags, but the end of a recording clears them     *)
(* without it. A frame is the number of the recording that was on when the *)
(* capture thread decided to queue it.                                     *)
(*                                                                         *)
(* A container whose opening fails half way stays open: an encoder that    *)
(* is not open refuses every frame ("unready"), one without a packet to    *)
(* fill ends the program at its next use ("headless").                     *)
(***************************************************************************)
EXTENDS Naturals, Sequences

CONSTANTS
  Depth,          \* MP4_RECORDER_QUEUE_SIZE
  MaxRecordings,  \* bound: recordings begun
  MaxStops,       \* bound: calls of record_stop
  MaxLosses,      \* bound: failing calls to the libraries
  Pictures        \* bound: whether pictures are taken

VARIABLES
  main,           \* "none", "up", or "joining" in init's error path and deinit
  stop_requested, capture_done, recording, record_start_request, record_stop_request,
  stopper,        \* a caller of record_stop holds queue_lock, having seen recording
  queue,
  capture, tag,   \* the capture thread, and the frame it is about to queue
  encode, frame,  \* the encode thread, and the frame it took
  output,         \* "none", "unready", "headless" or "open"
  encoded,        \* encoded_frames > 0
  file,           \* external: whether header, trailer and a frame of this recording are
                  \* in it, and how many frames of earlier ones
  finished,       \* external: the last recording was reported as finished
  latest, picture, \* a frame was captured; external: the last picture written
  died,           \* the program has ended in a library call
  serial,         \* history: recordings begun
  asked,          \* history: the recording for which the pending stop was asked
  spoiled,        \* history: a library call failed for this recording
  stops, losses   \* bound counters

flags == <<stop_requested, capture_done, recording, record_start_request, record_stop_request>>
queueing == <<queue, capture, tag>>
writing == <<frame, output, encoded, file>>
pictures == <<latest, picture>>
ghosts == <<serial, asked, spoiled>>
vars == <<main, flags, stopper, queueing, encode, writing, finished, pictures, died, ghosts,
          stops, losses>>

NoFile == [header |-> FALSE, own |-> FALSE, earlier |-> 0, trailer |-> FALSE]

Fresh ==
  /\ stop_requested = FALSE /\ capture_done = FALSE /\ recording = FALSE
  /\ record_start_request = FALSE /\ record_stop_request = FALSE
  /\ stopper = FALSE /\ queue = <<>> /\ tag = 0 /\ frame = 0
  /\ output = "none" /\ encoded = FALSE /\ latest = FALSE
  /\ asked = 0 /\ spoiled = FALSE

Init ==
  /\ Fresh
  /\ main = "none" /\ capture = "ended" /\ encode = "ended"
  /\ file = NoFile /\ finished = FALSE /\ picture = "none" /\ died = FALSE
  /\ serial = 0 /\ stops = 0 /\ losses = 0

Lose == losses < MaxLosses /\ losses' = losses + 1
Wake == encode' = IF encode = "asleep" THEN "pop" ELSE encode
-----------------------------------------------------------------------------
\* mp4_recorder_init; a thread that cannot be created ends the other.
InitRecorder ==
  /\ main = "none" /\ serial = 0
  /\ \/ main' = "up" /\ capture' = "start" /\ encode' = "start"
        /\ UNCHANGED <<stop_requested, losses>>
     \/ Lose /\ UNCHANGED <<main, capture, encode, stop_requested>>
     \/ Lose /\ main' = "joining" /\ capture' = "start" /\ stop_requested' = TRUE
        /\ UNCHANGED encode
  /\ UNCHANGED <<capture_done, recording, record_start_request, record_stop_request, stopper,
                 queue, tag, writing, finished, pictures, died, ghosts, stops>>

\* Up to the joins, and after them.
DeinitRecorder ==
  /\ main = "up" /\ ~stopper
  /\ main' = "joining"
  /\ stop_requested' = TRUE
  /\ Wake
  /\ UNCHANGED <<capture_done, recording, record_start_request, record_stop_request, stopper,
                 queueing, writing, finished, pictures, died, ghosts, stops, losses>>

Joined ==
  /\ main = "joining" /\ capture = "ended" /\ encode = "ended"
  /\ main' = "none"
  /\ queue' = <<>> /\ latest' = FALSE
  /\ stop_requested' = FALSE /\ capture_done' = FALSE
  /\ record_start_request' = FALSE /\ record_stop_request' = FALSE
  /\ UNCHANGED <<recording, stopper, capture, tag, encode, writing, finished, picture, died,
                 ghosts, stops, losses>>
-----------------------------------------------------------------------------
record_start ==
  /\ main = "up" /\ ~stopper /\ serial < MaxRecordings
  /\ ~recording /\ ~record_start_request
  /\ record_start_request' = TRUE
  /\ Wake
  /\ UNCHANGED <<main, stop_requested, capture_done, recording, record_stop_request, stopper,
                 queueing, writing, finished, pictures, died, ghosts, stops, losses>>

\* record_stop looks at recording and then asks, under queue_lock, which the
\* end of a recording does not take.
record_stop ==
  /\ main = "up" /\ ~stopper /\ recording /\ stops < MaxStops
  /\ stopper' = TRUE
  /\ asked' = serial
  /\ stops' = stops + 1
  /\ UNCHANGED <<main, flags, queueing, encode, writing, finished, pictures, died, serial,
                 spoiled, losses>>

RecordStopAsks ==
  /\ stopper
  /\ stopper' = FALSE
  /\ record_stop_request' = TRUE
  /\ Wake
  /\ UNCHANGED <<main, stop_requested, capture_done, recording, record_start_request,
                 queueing, writing, finished, pictures, died, ghosts, stops, losses>>

\* write_jpeg: what is on disk after it, and its result. An encoder that
\* refuses the picture leaves an empty file and no error.
WriteJpeg ==
  {[on_disk |-> "whole", saved |-> TRUE, fails |-> FALSE],
   [on_disk |-> "none",  saved |-> FALSE, fails |-> TRUE],
   [on_disk |-> "empty", saved |-> FALSE, fails |-> TRUE],
   [on_disk |-> "empty", saved |-> TRUE, fails |-> TRUE]}

snapshot ==
  /\ Pictures /\ main = "up" /\ latest
  /\ \E j \in WriteJpeg :
       /\ IF j.fails THEN Lose ELSE UNCHANGED losses
       /\ picture' = j.on_disk
  /\ UNCHANGED <<main, flags, stopper, queueing, encode, writing, finished, latest, died, ghosts, stops>>
-----------------------------------------------------------------------------
\* The capture thread.
CaptureStarts ==
  /\ capture = "start"
  /\ \/ capture' = "read" /\ UNCHANGED losses
     \/ Lose /\ capture' = "leave"
  /\ UNCHANGED <<main, flags, stopper, queue, tag, encode, writing, finished, pictures, died,
                 ghosts, stops>>

CaptureReads ==
  /\ capture = "read" /\ ~stop_requested
  /\ latest' = TRUE
  /\ capture' = "want"
  /\ UNCHANGED <<main, flags, stopper, queue, tag, encode, writing, finished, picture, died,
                 ghosts, stops, losses>>

\* A mutant: frames are wanted after a stop was asked.
WantAlways == recording /\ ~stop_requested
Want == recording /\ ~record_stop_request /\ ~stop_requested

CaptureWants ==
  /\ capture = "want" /\ ~stopper
  /\ capture' = IF Want THEN "push" ELSE "read"
  /\ tag' = serial
  /\ UNCHANGED <<main, flags, stopper, queue, encode, writing, finished, pictures, died, ghosts,
                 stops, losses>>

\* mp4_recorder_queue_push: the oldest goes when the queue is full.
CapturePushes ==
  /\ capture = "push" /\ ~stopper
  /\ capture' = "read"
  /\ LET kept == IF Len(queue) = Depth THEN Tail(queue) ELSE queue
     IN \/ queue' = Append(kept, tag) /\ Wake /\ UNCHANGED <<losses, spoiled>>
        \/ Lose /\ queue' = kept /\ spoiled' = TRUE /\ UNCHANGED encode
  /\ UNCHANGED <<main, flags, stopper, tag, writing, finished, pictures, died, serial, asked,
                 stops>>

CaptureStops ==
  /\ capture = "read" /\ stop_requested
  /\ capture' = "leave"
  /\ UNCHANGED <<main, flags, stopper, queue, tag, encode, writing, finished, pictures, died,
                 ghosts, stops, losses>>

CaptureLeaves ==
  /\ capture = "leave" /\ ~stopper
  /\ capture' = "ended"
  /\ capture_done' = TRUE
  /\ Wake
  /\ UNCHANGED <<main, stop_requested, recording, record_start_request, record_stop_request,
                 stopper, queue, tag, writing, finished, pictures, died, ghosts, stops, losses>>
-----------------------------------------------------------------------------
\* The encode thread.
EncodeStarts ==
  /\ encode = "start"
  /\ \/ encode' = "top" /\ UNCHANGED losses
     \/ Lose /\ encode' = "ended"
  /\ UNCHANGED <<main, flags, stopper, queueing, writing, finished, pictures, died, ghosts, stops>>

EncodeTop ==
  /\ encode = "top" /\ ~stopper
  /\ encode' = "pop"
  /\ record_start_request' = FALSE
  /\ LET begins == record_start_request /\ ~recording
         ending == stop_requested /\ recording' /\ ~record_stop_request
     IN /\ recording' = (recording \/ begins)
        /\ serial' = IF begins THEN serial + 1 ELSE serial
        /\ encoded' = (encoded /\ ~begins)
        /\ spoiled' = (spoiled /\ ~begins)
        /\ file' = IF begins THEN NoFile ELSE file
        /\ finished' = (finished /\ ~begins)
        /\ record_stop_request' = (record_stop_request \/ ending)
        /\ asked' = IF ending THEN serial' ELSE asked
  /\ UNCHANGED <<main, stop_requested, capture_done, stopper, queueing, frame, output,
                 pictures, died, stops, losses>>

Idle ==
  /\ ~capture_done /\ ~stop_requested
  /\ ~record_start_request /\ ~record_stop_request

\* mp4_recorder_queue_pop.
EncodePops ==
  /\ encode = "pop" /\ ~stopper
  /\ IF queue = <<>>
     THEN /\ encode' = IF Idle THEN "asleep" ELSE "empty"
          /\ UNCHANGED <<queue, frame, losses>>
     ELSE \/ /\ encode' = "frame"
             /\ frame' = Head(queue)
             /\ queue' = Tail(queue)
             /\ UNCHANGED losses
          \/ Lose /\ encode' = "empty" /\ UNCHANGED <<queue, frame>>
  /\ UNCHANGED <<main, flags, stopper, capture, tag, output, encoded, file, finished, pictures,
                 died, ghosts, stops>>

\* mp4_recorder_open_output: how far it gets before it fails.
OpenOutput ==
  /\ output' \in {"none", "unready", "headless"}
  /\ Lose
  /\ record_stop_request' = TRUE
  /\ asked' = serial
  /\ spoiled' = TRUE
  /\ file' = [NoFile EXCEPT !.header = (output' = "headless")]
  /\ UNCHANGED <<encoded, finished, died>>

WithHeader == [file EXCEPT !.header = @ \/ output = "none"]

WithFrame ==
  [file EXCEPT !.header = TRUE, !.own = @ \/ frame = serial,
               !.earlier = IF frame = serial THEN @ ELSE @ + 1]

\* mp4_recorder_encode_frame: the frame counts whether or not it was written.
EncodeFrame ==
  /\ encoded' = TRUE
  /\ output' = IF output = "none" THEN "open" ELSE output
  /\ UNCHANGED <<finished, record_stop_request, asked>>
  /\ IF output = "headless"
     THEN died' = TRUE /\ UNCHANGED <<file, spoiled, losses>>
     ELSE /\ UNCHANGED died
          /\ \/ /\ output' = "open"
                /\ file' = WithFrame
                /\ UNCHANGED <<losses, spoiled>>
             \/ /\ IF output = "unready" THEN UNCHANGED losses ELSE Lose
                /\ file' = WithHeader
                /\ spoiled' = TRUE

EncodeTakes ==
  /\ encode = "frame" /\ ~stopper
  /\ encode' = "top"
  /\ \/ recording /\ output = "none" /\ OpenOutput
     \/ recording /\ EncodeFrame
     \/ ~recording /\ UNCHANGED <<output, encoded, file, finished, record_stop_request, asked,
                                  spoiled, died, losses>>
  /\ UNCHANGED <<main, stop_requested, capture_done, recording, record_start_request, stopper,
                 queueing, frame, pictures, serial, stops>>

\* A mutant: the recording ends when asked, whatever still waits to be written.
FinalizeAtOnce == recording /\ record_stop_request

Finalize == recording /\ record_stop_request /\ queue = <<>>

EncodeEmpty ==
  /\ encode = "empty" /\ ~stopper
  /\ encode' = IF Finalize THEN "finalize" ELSE "check"
  /\ UNCHANGED <<main, flags, stopper, queueing, writing, finished, pictures, died, ghosts, stops,
                 losses>>

\* mp4_recorder_finalize_record, which takes no lock.
FinalizeRecord ==
  /\ encode = "finalize"
  /\ IF output = "headless"
     THEN died' = TRUE /\ UNCHANGED <<encode, recording, record_stop_request, output, file, finished>>
     ELSE /\ encode' = "check"
          /\ recording' = FALSE
          /\ record_stop_request' = FALSE
          /\ output' = "none"
          /\ file' = [file EXCEPT !.trailer = (output = "open")]
          /\ finished' = encoded
          /\ UNCHANGED died
  /\ UNCHANGED <<main, stop_requested, capture_done, record_start_request, stopper, queueing,
                 frame, encoded, pictures, ghosts, stops, losses>>

EncodeChecks ==
  /\ encode = "check" /\ ~stopper
  /\ encode' = IF stop_requested /\ ~recording THEN "ended" ELSE "top"
  /\ UNCHANGED <<main, flags, stopper, queueing, writing, finished, pictures, died, ghosts, stops,
                 losses>>
-----------------------------------------------------------------------------
EncodeStep ==
  \/ EncodeStarts \/ EncodeTop \/ EncodePops \/ EncodeTakes \/ EncodeEmpty
  \/ FinalizeRecord \/ EncodeChecks
CaptureStep == CaptureStarts \/ CaptureWants \/ CapturePushes \/ CaptureStops \/ CaptureLeaves
CallerStep == RecordStopAsks \/ Joined

Runs == ~died

Next ==
  /\ Runs
  /\ \/ InitRecorder \/ DeinitRecorder \/ record_start \/ record_stop \/ snapshot
     \/ CaptureReads
     \/ CaptureStep \/ EncodeStep \/ CallerStep

\* The threads run and the joins return; the camera need not deliver a frame.
Fairness ==
  /\ WF_vars(Runs /\ CaptureStep)
  /\ WF_vars(Runs /\ EncodeStep)
  /\ WF_vars(Runs /\ CallerStep)

Spec == Init /\ [][Next]_vars /\ Fairness
-----------------------------------------------------------------------------
(***************************************************************************)
(* Of the frames of a file at most one was queued for the recording        *)
(* before: the one whose fate the capture thread had decided already.      *)
(***************************************************************************)
FramesOwn == file.earlier <= 1

(***************************************************************************)
(* A recording reported as finished has its header, its frames and its     *)
(* trailer, unless a library call failed on the way.                       *)
(***************************************************************************)
FinishedWhole ==
  finished /\ ~spoiled => file.header /\ file.trailer /\ (file.own \/ file.earlier > 0)

(***************************************************************************)
(* Whatever was queued for a recording is in its file when it ends, but    *)
(* for the one frame whose fate the capture thread had decided already.    *)
(***************************************************************************)
EndsDrained ==
  ~recording => Len(queue) + (IF capture = "push" THEN 1 ELSE 0)
                           + (IF encode = "frame" THEN 1 ELSE 0) <= 1

(***************************************************************************)
(* A recording that is ending was asked to end, or the one before it was   *)
(* while it ended: no stop survives longer.                                *)
(***************************************************************************)
EndsAsked == recording /\ record_stop_request => serial - asked <= 1

(***************************************************************************)
(* After the last call nothing is open and nothing recorded.               *)
(***************************************************************************)
ClosedAfterDeinit == main = "none" => output = "none" /\ ~recording /\ queue = <<>>

RecordingsWhole ==
  FramesOwn /\ FinishedWhole /\ EndsDrained /\ EndsAsked /\ ClosedAfterDeinit

\* What must come to an end: the wait for a recording that was asked for, unless
\* there is no thread to begin it, and the end of one.
Waiting == Runs /\ main = "up" /\ record_start_request /\ ~recording /\ encode # "ended"
Stopping == Runs /\ (main = "joining" \/ (recording /\ record_stop_request))
=============================================================================
