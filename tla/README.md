# TLA+ models of the RK3588 video and control program

This directory holds a formal model of the airborne video program of this
repository (`src/src`, `src/include`) and of its ground gateway
(`src/ground_gateway`): TLA+ modules, TLC configurations that check them on small
instances, and proofs, checked by TLAPS, that hold for every value of the
constants. Paths below are relative to the repository's `src/` directory.

Run everything from this directory:

    tlc -workers 2 -config MCRecorder.cfg MCRecorder
    tlapm RecorderProofs.tla

`Devices` has a configuration of its own (`Devices.cfg`): its theorems are about the very
specification that TLC checks.

`PROJECT.json` lists the components, the runs, a mutation of the code for every
property (the run must notice it), the source lines behind every definition, the
findings, the hazards and the theorems.

## 1. Inventory

### The program

The airborne program captures several cameras (USB, HDMI, CSI), streams **one** of
them to the ground and records **any** of them to MP4 files. It takes commands from
a web page on the ground over MAVLink, and passes them on to the pipeline or to the
devices on board: gimbal, lenses, a motor, a laser range finder, a thermal camera.

    cameras --> capture threads --+--> rec_q --> record threads --> MP4 files
                (one per channel) |
                                  +--> stream_q -> stream thread -> RTSP, SRT or UDP
                                        ^
    browser -> gateway -> link -> MAVLink service -> actions -> control queue -> pipeline
                                                        |
                                                        +-> gimbal, zoom, motor, laser, ...

All pipeline state is behind one mutex, `p->lock`. All calls into the pipeline are
serialised by a second one, `control->lock`, held for the whole call. Each service
has a thread and a mutex of its own.

### Components

| component | code | state | operations | talks to |
|---|---|---|---|---|
| frame queue | `src/process/video/video_pipeline_queue.c` | ring of frame references | push, push latest, pop, clear, free | capture, record and stream threads, under `p->lock` |
| control queue | `src/control/video_pipeline/video_pipeline_control.c` | ring of requests, ids, worker | submit, worker, deinit, synchronous calls | pipeline, callbacks |
| recording | `src/output/file/mp4/video_pipeline_record.c` | three flags, queue, output and thread handle per channel | start, stop, start all, stop all, record thread | capture threads, control queue |
| live stream | `src/output/stream/video_pipeline_stream.c` | selected source, generation, encoder, output | select source, enable, stream thread | capture threads, outputs |
| stream outputs | `src/output/stream/{rtsp,srt,udp,rtp}` | connection or socket, RTP sequence | open, send, close | stream thread |
| capture threads | `src/process/video/video_pipeline_input.c` | is_opened, has_signal | read, reconnect, publish | drivers, both queues |
| capture drivers | `src/input/video/*.c` | V4L2 buffers, references | open, read, release, close | capture threads, whoever holds a frame |
| pipeline | `src/process/video/video_pipeline.c` | channels, threads, snapshots | init, deinit, snapshot, info | all of the above |
| MAVLink protocol | `src/control/mavlink/mavlink_web_control.c`, `mavlink_control_service.c` | ring of the last 64 results | receive, execute, acknowledge | gateway, actions |
| MAVLink actions | `src/control/mavlink/mavlink_control_actions.c` | none | one request per button | control queue, services |
| ground gateway | `ground_gateway/main.py`, `gateway_core.py`, `mavlink_transport.py` | result cache, sequence per client, lock, connection | handle a command, send and wait, retry | browser, MAVLink service |
| gimbal service | `src/service/dji_rsdk_service.c` | wanted direction, generations, watchdog | set direction, center, stop | actions, gimbal protocol |
| gimbal protocol | `src/control/dji_rsdk`, `src/input/can` | receive buffer, sequence number, open request | send, request, read reports | gimbal service, CAN bus |
| 4K camera | `src/control/visca_4k_camera` | wanted movement, movement under way | press, release, stop, thread | actions, VISCA driver |
| VISCA driver | `src/control/visca_camera` | none but the port | settings, actions and inquiries of the camera | 4K camera, serial port |
| motor | `src/service/motor_service.c`, `src/control/modbus` | queue of 8 | move, trigger, stop | actions, relay boards |
| laser | `src/service/sfl0603_laser_service.c`, `src/control/sfl0603_laser` | queue of 8, mode, lamps | single, continuous | actions, OSD |
| thermal camera | `src/service/thermal_camera_service.c`, `src/control/thermal_camera` | queue of 16 | request | actions, serial port |
| high speed camera | `src/service/high_speed_camera_service.c`, `src/control/high_speed_camera` | unlock pending, frame being read | unlock, thread | actions, key board |
| MAVLink transports | `src/control/mavlink/mavlink_transport*.c`, `mavlink_control_service.c` | sockets, last peer, parser | open, receive, answer, reopen | gateway, protocol |
| frame conversion | `src/process/video/video_frame_convert.c`, `video_rkrga_filter.c` | filter and the source it was built for | prepare | stream and record threads |
| on-screen display | `src/process/osd` | parameters with a sequence number, painted overlays | set one field, set all, paint | control, stream thread |
| MP4 recorder | `src/output/file/mp4/mp4_recorder.c` | queue, five flags, file | init, start, stop, picture, deinit, two threads | camera, callbacks |

The rest (configuration, drawing, preview program, SBUS receiver, decoder analysis,
scripts) keeps no state that several actors share; see section 7.

### What is hard, and what must be true

| component | hard behaviour | what makes it correct |
|---|---|---|
| frame queue | wrap, overflow, and a failed allocation in the middle of a push | drop-oldest FIFO; exactly the queued frames are referenced |
| control queue | sleep against submit and deinit; id wrap; a request takes seconds | nothing lost or done twice, in order; ids distinct; deinit ends |
| recording | start, stop and loss of the input at once, with work done outside the lock | one writer per file; a stop returns with the file complete; everything ends |
| live stream | a source left and selected again, packets held by the encoder, failures in any order | nothing old after a switch; first a keyframe; the new source is shown |
| command link | loss, delay, retry, a copy on a second connection | executed once, in order; one final answer; every command answered |
| gimbal, zoom | release lost, a send that fails, the watchdog | movement ends when the button is released or the link is silent |
| motor, laser, thermal | full queue, stop during a pulse, lamp set late, restart | served in order, each once, nothing after the stop; nothing left on |
| drivers of devices | late, lost, damaged answers; framing; hand-written codings | an answer is for its own call; what was set is read back |
| transports | several senders, parts of packets, reconnects | the answer goes to the sender; no descriptor is left open |
| capture drivers | a frame outlives the device that captured it | a buffer goes back once, and not to a closed device |
| conversion, OSD | what is kept between frames belongs to another source or revision | the picture returned is the frame given; the overlay is the present one |
| MP4 recorder | flags cleared without the lock, a container that opens half way | what is reported finished is whole; only asked stops end a recording |

`PROJECT.json` lists the hazards line by line, with the properties that cover them.

## 2. Modules

| module | models | kind |
|---|---|---|
| `Ring` | index arithmetic of the code's rings (`(head + count) % size`) | operators |
| `RingTheorems` | what a ring contains after push, pop and clear | lemmas, proved |
| `FrameFifo` | what a frame queue promises | abstract |
| `FrameQueue` | `vp_queue_*` with slots, references and failures | detailed |
| `RequestPipe` | what the control API promises | abstract |
| `ControlQueue` | submit, worker, callbacks, deinit, the shared lock | detailed |
| `Recorder` | recording, with capture threads and teardown | component |
| `StreamSwitch` | live stream, with capture threads, encoder and output | component |
| `CommandLink` | gateway, transport, link and air side of a command | composition |
| `Zoom` | zoom and focus of the 4K camera while a button is held | component |
| `ServicePipe` | what a device service promises | abstract |
| `DeviceServices` | motor, laser and thermal camera services | component |
| `GimbalService` | gimbal service with its watchdog | component |
| `UnlockService` | unlock key of the high speed camera | component |
| `AirTransport` | MAVLink over TCP, UDP and serial, on board | component |
| `AirActions` | what each button asks for, and of whom | component |
| `ViscaLink`, `RsdkLink`, `SerialAnswers` | calls and their answers: 4K camera, gimbal, laser and thermal camera | protocols |
| `RsdkFrames`, `KeyFrames` | frames found in a stream of bytes: gimbal, key board | protocols |
| `ViscaItems`, `RsdkItems` | set and read back: 4K camera, gimbal | codings |
| `ViscaCommands` | the packets of the 4K camera's commands and inquiries | operators |
| `Modbus` | a transaction with a relay board, byte by byte | coding |
| `CaptureDriver`, `CaptureFormat` | V4L2 buffers lent out as frames; their layout | component, function |
| `FrameConvert` | the converter and what it keeps between frames | component |
| `Osd` | parameters, revisions and what is painted | component |
| `RtpOutput` | NAL units into RTP packets | function over time |
| `Mp4Recorder` | the recorder with its own camera | component |
| `Devices` | the components with a thread that is started and stopped, one per behaviour | composition |
| `Links` | queue, calls over CAN and serial lines, buttons, capture, conversion, overlay and frames and settings in bytes, one per behaviour | composition |
| `MC*` | small instances of the above for TLC | instances |
| `*Proofs` | theorems about the module of that name; `FrameProofs` has those of the queue of frames and the lemmas of frames in bytes that `LinksProofs` builds on | proofs |

The modules meet at these seams. `Recorder` keeps only the length of the record
queue, because `FrameQueue` implements `FrameFifo`. `Recorder` and `StreamSwitch`
have **one** caller at a time, because `ControlQueue` shows `control->lock` held
over each call. `CommandLink` stops where a request is accepted or rejected;
`AirActions` takes over there and has the control queue as a bounded queue whose
head is executed at any time, which is what `RequestPipe` promises. `DeviceServices`
and `GimbalService` have calls that succeed or fail; what a call is, with lost, late
and damaged answers, is in `ViscaLink`, `RsdkLink`, `SerialAnswers`, `Modbus`. Below
these, `RsdkFrames` and `KeyFrames` show that whole frames come out of the bytes.
`CaptureDriver` says how long a frame's memory lives, `CaptureFormat` what its
descriptor may name.

### Correspondence to the code

*Atomicity.* A critical section is one action; so is a stretch of code between two
of them, since it touches only what its thread owns. Where the code reads shared
state without the lock (`p->stop` and `is_opened` in the capture loop), that is an
action too. In the gateway, what a handler does between two `await`s is one action,
and so is each call of the transport thread.

**FrameQueue.** `frames`, `head`, `count`, `max_count` and `dropped` are the fields of
`vp_frame_queue_t`; `dst` is the consumer's frame. A slot is unallocated, empty or
holds a frame. `PutFrame` is the tail shared by both pushes, with its three outcomes
(done, no reference, no memory); making room before it is part of the same action.

**ControlQueue.** `worker` is the program counter of `vp_control_worker`: `check`,
`asleep`, `execute`, `locked`, `emit`, `exited`. `WorkerLock` and `WorkerUnlock` are
separate because other callers wait between them. START_ALL and STOP_ALL report each
changed channel before the completion, from a list that may fail to be allocated
(`WorkerNoMemory`). `IdLimit` stands for 2^64, so that the wrap of the id, with
its skip of zero, happens in the run.

**Recorder.** `initializing`, `wanted` and `recording` are the three flags of a
channel, `handle` its `rec_thread`, `output` what `vp_open_recorder` and
`vp_close_recorder` set up. `caller_at` is where `vp_record_start_ex`, `_stop_ex`,
`_start_all`, `_stop_all` or `vp_deinit` is; `thread_at[t]` where a record thread is.
`initializing` guards the stretch in which a start works without the lock: the
models have each start abandoned there by a stop or a loss of the input
(`WithdrawStart`, `AbortStart`, `UndoStart`).

**StreamSwitch.** The code compares a frame's timestamp with
`stream_generation_start_us`, the time of the last switch; a frame was captured
after it exactly if it was captured in the present generation, so the model keeps the
generation in the frame (`born`). `thread_at` is where `vp_stream_thread` is in one
turn: take a frame, draw, prepare encoder and output, discard the stale, send,
receive. `held` is what the encoder keeps back. A packet is its generation and
whether it is a keyframe. `shown` and `synced` are history: what a viewer has seen.

**CommandLink.** `handler` is the command each connection has in work, `command_lock`
the `asyncio.Lock` with its queue, `transport_at` where `send_and_wait` is,
`downlink` and `uplink` the two directions of the link, `cache` the ring of the air
side. `turn`, `executed`, `result` and `timed_out` are history.

**Zoom.** `action`, `running`, `stop_requested` and `thread_started` are the fields of the
context, `taken`, `last_action` and `motion_active` the locals of the thread, `at` where it
is: waiting at the `top` of the loop, at a `turn` to another movement, `send`, `held` (the
timed wait), `released`, `leaving`, `done`. `moves` is the lens itself, outside the
program. A command that is lost changes nothing but `stop_lost`, the axes whose last stop
did not arrive. The dispatcher uses the zoom only; the focus is modelled because the
module offers it.

**DeviceServices.** One module for three services of one build: `queue`, `running`,
`stop_requested` and `thread_started` are fields, `pc` the thread's place (`idle` in the
timed or untimed wait, taking, in a call, in the second of a trigger `pulse`), `main` the
caller of init, start and stop. `device` is what the relay and the laser do, outside the
program. A call that fails may have been carried out, and is kept in `failed`, which is
what `NothingLeftOn` excepts: a failed "coil off" or standby is not repeated by the code.

**GimbalService.** The generations (`direction_generation`, `center_generation`) are kept as
whether the last is applied (`pending`). `Elapse` is the passing of 1200 ms without a
confirmation. `clock_gettime` may fail in each of its three places: the thread then ends before
its first turn (`ThreadBegins`), skips applying what is pending (`ClockFails`), or a press leaves
the watchdog's clock as it was (`Confirmed`). These failures are bounded with the lost commands.

**AirTransport.** `pc` is where the thread of `mavlink_control_service.c` is in the
open-poll-receive-reconnect loop of the transport in use; `open` the descriptors it has,
`peer` where the answer goes, `parser_status` the half message the parser holds. `ConnectionEnds` is
the end of a connection and, of the TCP server, also the failure of `poll` or of the listening
socket, after which the thread reconnects.

**ViscaLink, RsdkLink, SerialAnswers.** `waiting` or `request` is the one call under way, the
sequences are the bytes or packets on their way in each direction. Answers carry the
number of the call they answer, which the code cannot see: it is what the property
compares. A call may time out whenever it waits.

In `SerialAnswers` a byte has its value and, for the property, the answer it is of. The laser's check
is an exclusive or (`XorOf`), the camera's a sum modulo 256 (`SumOf`). The laser echoes a setting with
the value that was set, standby with 0, so that equal settings have equal echoes and
`sfl0603_laser_expect_echo` (`WrongEcho`) cannot tell them apart. The device puts an answer on
the line in one step, but the driver reads it byte by byte, and the deadline may pass between any
two bytes: what is left comes in the next call. The laser's driver keeps the beginning of the frame
for it, the camera's does not. `Reopen` throws away any part of what is on its way, as opening the
port does with what has arrived by then.

**ViscaCommands, ViscaItems, RsdkItems, Modbus.** The codings are tables and operators: for each
setting the category, code, selector and layout its `visca_camera_set_*` builds, and those
its `visca_camera_get_*` expects. The device is a store of parameter bytes under the key of
the packet. A setting with the wrong nibble order, selector or sign reads back another
value, or overwrites another item's. Of `RsdkItems` the stiffness of the motors has a property of
its own, since it is not read in the order it is written (section 4).

**CaptureDriver.** `native` holds the reference counted contexts of `input_hdmi_native_open` and
`input_csi_native_open`, `frames` the frames about, `dying` contexts whose last reference is
gone and which are being destroyed, `stray` remembers a buffer queued to a closed descriptor.
Opening is a sequence of stages of which each may fail, with the fallback to FFmpeg.

**FrameConvert.** `remembered` is what `video_frame_convert_remember_rkrga_source` stores,
`filter`, `rga`, `sws` the converters built, each with the source it was built for.

**Osd.** The parameters are three fields for the many: one set by the calls that write
everything back, two by the calls that write one. `locked` is a caller that has read and will
write, under `control->lock`. `revision` is the word composed in `vp_stream_thread`. What is
painted is kept as the values it was painted from, so that "current" means equal.

**RtpOutput.** `Scan` is `rtp_output_send`'s search for start codes, `SendWhole` and
`SendFragment` are `rtp_output_send_nal`. The receiver, outside the program, puts fragments
together by number.

**Mp4Recorder.** `capture` and `encode` are the places of the two threads. `queue_lock` is held
over single actions, except that `record_stop` looks at `recording` and then asks
(`stopper`), since `finalize_record` clears both flags without the lock. Frames are the
number of the recording they were queued for. Three things of the code to know: a stop
overtaken by the end of a recording stops the next one (the properties allow one); after
an opening that failed half way, frames count as encoded, so that "finished" is
reported for a file that cannot be played (`spoiled`), or the encoder is drained into a
packet that was never allocated, which ends the program (`died`); and a picture whose
encoder refuses the frame leaves an empty file and APP_OK (`WriteJpeg`). Only
`mp4_recorder_write_jpeg` is called from elsewhere in `src/src`.

## 3. Runs

| run | question | bounds | states |
|---|---|---|---|
| `control_queue` | Is every accepted request executed once, in order, and completed, and does deinit end? | 2 slots, 5 requests, 4 ids, 1 other caller, 2 channels | some thousands |
| `recorder` | Is a file written by one thread, and complete when a stop returns? | 2 channels, 2 queue slots, 2 record threads | 254 000 |
| `recorder_liveness` | Do stops, lost recordings and teardown end? | 1 HDMI channel, 2 queue slots, 3 record threads | 4 000 |
| `recorder_shutdown` | Are the record threads gone when the context is freed? (**no**) | as `recorder` | |
| `stream_switch` | Is a switch final, does a keyframe come first, is the new source shown in the end, and can the thread be joined? | 2 sources, 2 changes, 1 frame held back, reset after 2 failures | 217 000 |
| `command_link` | Is a command executed once, in order, and answered rightly? | 3 commands of 2 clients, 2 connections, 2 attempts, a ring of 1 | 325 000 |
| `command_link_late_ack` | Does "received" on the page mean that it was? (**no**) | the same | |
| `links` | Do the protocols, codings and data paths give their callers what these rely on? One unit per initial state | below | 1 651 000 |
| `devices` | Do the threads that own a device serve, stop and leave nothing on? One unit per initial state | below | 169 000 |
| `key_frames_count` | Is every valid request of the key board acknowledged? (**no**) | 3 frames, counts 1 and 170 | |
| `zoom_release` | Does a release stop the lens? (**no**) | no lost command | |
| `gimbal_stiffness` | Is the stiffness that is read the one that was set? (**no**) | 1 command, each axis 0 or 100 | |

Deadlock is checked in every run but `links`, `devices`, `key_frames_count` and `gimbal_stiffness`; a
system that has ended (`Terminated`) stutters. In those four it is not, since their units come to rest when
the bounded number of calls, frames or presses is used up, or when the service has
stopped for good. What must not rest there is said by `RequestsServed` and
`StopsReturn`.

The units of `links` and `devices` share nothing, so a behaviour follows one of them. Each unit
of `Devices` and of `Links` has variables of its own, with a prefix (`g_pending`, `v_wire`), so
that theorems can speak of them. Two units, the settings of the 4K camera and the tables of the relay
boards, are added by `MCLinks`; they are only model-checked, and lay their variables over the same
slots `s1`..`s6`.

| unit of `links` (*: added by `MCLinks`) | module | bounds |
|---|---|---|
| queue | `FrameQueue` | 3 slots, 3 frames, 4 drops |
| visca items* | `ViscaItems` | 2 commands; every setting and action at its limits |
| visca link | `ViscaLink` | 3 calls, 1 lost packet |
| rsdk frames | `RsdkFrames` | 3 packets of 4 to 6 bytes over CAN frames of 3, 1 lost |
| rsdk link | `RsdkLink` | numbers up to 3, 5 packets, 1 report |
| rsdk items | `RsdkItems` | 2 commands; angles, limits and focus at their ends, stiffness 0, 100 and (refused) 101, lists of 4 bytes |
| key frames | `KeyFrames` | 3 frames, 1 damaged or lost byte |
| modbus* | `Modbus` | 2 transactions; tables with a gap and an end at 65535 |
| serial | `SerialAnswers` | 3 calls, 2 values of a setting of the laser, 1 byte lost or damaged in bit 0, 3 or 7 |
| actions | `AirActions` | 3 channels, 2 requests waiting, 4 presses |
| capture | `CaptureDriver` | 2 buffers, 3 openings, 2 failures |
| format | `CaptureFormat` | 2 by 3 pixels, 7 lengths of a buffer |
| convert | `FrameConvert` | 2 addresses, 3 frames, 2 failures |
| rtp | `RtpOutput` | packets of 2 bytes, numbers modulo 4, 5 bytes, 1 loss |
| osd | `Osd` | 2 sources, 2 changes, 3 half seconds, 1 failure |

| unit of `devices` | module | bounds |
|---|---|---|
| zoom | `Zoom` | 3 lost commands |
| service | `DeviceServices` | each of the three services, a queue of 2, 1 failed call, 2 openings |
| gimbal | `GimbalService` | 1 failed command or failure of the clock |
| unlock | `UnlockService` | 1 failed call |
| air | `AirTransport` | each transport, 2 senders, 3 commands, 2 failing calls |
| mp4, picture | `Mp4Recorder` | a queue of 2, 2 recordings and 2 stops (or pictures), 1 failed call |

### Properties

*Frame queue* (`links`). `PinsExactlyTheQueued`: references are held exactly in the slots between
`head` and `head + count`, so that a pop never meets an empty slot and the decoder's
small buffer pool is not drained. `ImplementsFifo`: refinement of `FrameFifo`.

*ControlQueue.* `NoLostWakeup`, `NothingLost` (accepted = completed + in hand + queued),
`OutstandingIdsDistinct` across the wrap, `ImplementsPipe`: refinement of
`RequestPipe`; `AcceptedCompletes` and `DeinitReturns` (liveness).

*Recorder.* `FileHasOneWriter`: no two threads have the same output, although opening
and closing take no lock. `HandleNamesThread`: a stop joins the right thread, also
after an earlier stop gave up. `NoFrameLeftBehind`: a queued frame has
a thread that will encode it. `StopFinishesFile`: on return the file is closed and
holds every frame. `StopReturns`, `LossEndsRecording`, `DeinitReturns` (liveness).

*StreamSwitch.* `QueueIsCurrent`: no frame of an earlier selection waits, also when a
source was left and selected again while a capture thread held its frame.
`LabelMatchesSource`. `KeyframeFirst`
and `OldSourceEnds` (action properties of publishing). `NewSourceShown`,
`StopEndsThread` (liveness).

*CommandLink.* `ExecutedInOrder`: at most once and never out of order, whatever is
lost, late or repeated, **on a link that keeps order**: the configuration in the repository has the
gateway and the aircraft on UDP, which keeps it on one cable and owes it to nobody (section 6).
`AnswerIsRight`: while no attempt timed out. `FinalAnswerStays`:
no copy and no late answer replaces it. `EveryCommandAnswered` (liveness).

*Devices.* `MovesAsRemembered`: what moves is the one movement the thread will stop, although
presses change it while a command is on the wire. `StillAfterStop`. `HeldMoves`: a lost
command is made up for by the repetition, and a gimbal nobody steers any more is stopped by the
watchdog (liveness). `GimbalFollows`: what is applied is what is
pressed or the centre that was asked for, and a service that ended leaves the gimbal still,
unless a command failed. `ServesInOrder`: the three
services implement `ServicePipe`, across restarts, and unlock requests made together are
one press. `NothingLeftOn`: no relay closed, no laser emitting, no lamp lit, no descriptor
open at rest, unless the call to switch it off failed. `AnswersTheSender`.
`RecordingsWhole`: what is reported finished has header, frames and trailer; a recording
ends only when all but one frame is written and only because it, or the one before,
was asked to; at most one frame comes from the recording before; deinit closes
everything. `RequestsServed` and `StopsReturn` (liveness).

*Links.* `AnswersAreOwn`: the answer a call returns is its own; for the gimbal always, since
its packets are numbered; for the 4K camera, the laser and the thermal camera, where the code cannot
tell, it is after a failed call at the oldest the late answer to that call, and then to one of the
same kind; a setting of the laser may then be confirmed by the echo of an earlier one, but only of the
same value. What an inquiry of the gimbal returns, or its report
says, is what was last set: the order of the axes, the sign of the angles and the bits that hold an
axis still agree in the two directions, of the motors' stiffness for the pitch axis only. `FramesKept`: the reader of the key board accepts a
frame that arrives whole whatever was lost before it, and no mixture; a receiver of the stream puts
together what the encoder emitted, with the marker on the last packet; every unencrypted packet of the gimbal
that arrives whole is delivered, once and in order, whatever is lost around it, and `rx_buffer`
always has room for the next CAN frame. `BytesAgree`: what was set on the 4K camera is what is read
back; a list of the gimbal's parameters is taken if it is whole; a refused Modbus call changes nothing;
and with one byte lost, or damaged in one of the bits looked at, the laser's exclusive or and the
thermal camera's sum fit no bytes but those of one answer (`ChecksTell`).
`PressesCount`: toggles and switches add up, unless a
press found a request still waiting (the code reads the state when it submits).
`PicturesHold`: buffers are given back once and not to a closed device, descriptors lie inside
their buffers, a converter returns the frame it was given made by a stage built for its source,
and the overlay on a frame is the one of the values read for it, with no caller undoing what
another one set.

Type invariants, `NoLostWakeup` of the recorder and the stream, and `SendReady` are proved
(section 5) and not repeated as properties of runs.

### Why the bounds are enough

The interesting cases are at the edges, and each bound reaches its edge: rings of two or
three slots fill, wrap and overflow; four ids wrap while three are outstanding;
two record threads let a channel record again before or after another has ended, or two
channels at once; two changes of generation are a source left and selected again, with
frames of three generations about; two attempts are a first one and a last one. The air
side's ring has one entry in the run and 64 in the code: a smaller ring forgets more, so
this is the harder case, and the proof covers every size. In the protocols three calls leave one between a late answer
and the call that may take it; one loss puts a receiver out of step at every place, and the
bytes of three frames follow to find the step again; a packet of two bytes meets units that fit
exactly, by one, and twice. A device needs one failed call to be left as nobody wanted, and a
second opening to find it so. All safety properties but that of the codings (`BytesAgree`) are
proved for all values (section 5), so the bounds matter most for this one and for the liveness
properties. Those of the recorder have a run of their own, with the instance that TLC can search for cycles: one
channel (its channels share nothing but the caller, who visits them one after the
other and waits at most for one at a time).

### Fairness

* `ControlQueue`: running threads run; a caller leaves the call it is in. The worker
  gets the lock if it is free again and again (strong fairness: callers come and go, and
  a mutex makes no promise of order, but none of them holds it for ever). Nobody has to
  submit or deinit.
* `Recorder`: running threads run and the encoder returns. Requests, loss of the input
  and spurious wake-ups need not happen.
* `StreamSwitch`: running threads run, cameras deliver. Conversion, network and
  encoder may fail without end, but if tried again and again each also works again and
  again (strong fairness of their successes, which the code's retry timers make possible).
* `CommandLink`: the event loop and the transport thread run, and a wait ends by its
  timeout. The link and the aircraft owe **nothing**: commands are answered even if
  everything is lost.
* `devices`: the threads run and joins return. A serial, CAN or Modbus command ends by its
  timeout. Time passes for the gimbal's watchdog (`Elapse`). No device answers, no peer sends and
  nobody presses; the recorder's camera need not deliver a frame: its thread sees the stop
  because the read of a live camera returns (`CaptureStops` is enabled between two reads). A
  library call that ended the program ends its obligations (`Runs`).
* `Zoom`: the thread runs, since a serial command ends by its timeout and the wait by its
  deadline, and a join returns. Nobody has to release a button.

## 4. Findings

* **Record threads outlive the context** (`recorder_shutdown`, violates
  `FreedAfterThreads`). `vp_deinit` says that the record threads "can exit cleanly"
  once there are no new frames. `vp_record_stop_all` waits three seconds for each and
  then goes on, and `vp_deinit` frees the channels. A record thread that still drains
  its queue or closes a file on a slow card then runs on freed memory.
* **A late COMMAND_ACK answers the next command** (`command_link_late_ack`, violates
  `OkMeansExecuted`). `_wait_for_ack` takes any acknowledgement of `MAV_CMD_USER_1`,
  although the aircraft puts the low half of the command's uid in `result_param2`. The
  acknowledgement of a command that timed out, if it comes after the next turn has
  dropped the old ones, is taken for the next command: the page shows "received" for a
  command that was rejected or lost.
* **A release goes unnoticed** (`zoom_release`, violates `ReleaseStops`). "A release stops
  the current movement", says `visca_4k_camera.h`. The thread tests `running` when its
  timed wait of 100 ms ends, unlocks, and locks again to wait at the top of the loop. A
  release between the two leaves it waiting there with the lens in motion, until the next
  press. (A *lost* stop has the same end: it is not repeated.)
* **A count takes a frame for another** (`key_frames_count`, violates `ValidAcknowledged`).
  `high_speed_camera.h` says "Valid key/heartbeat requests are acknowledged automatically."
  `high_speed_camera_process_once` starts a new frame at each byte 0xAA, also at the
  message count, which runs from 1 to 255: a heartbeat with the count 170 is answered with an
  error, and not acknowledged.

* **Yaw and roll change places** (`gimbal_stiffness`, violates `StiffnessReadsBack`).
  `dji_rsdk_motor_stiffness_t` has a field for each axis and is used for both directions
  (`dji_rsdk.h`). `dji_rsdk_set_motor_stiffness` writes pitch, roll, yaw;
  `dji_rsdk_get_motor_stiffness` and the report read pitch, yaw, roll. The run assumes that the
  gimbal keeps the three bytes in the order it got them. Its manual is not in the repository: which
  of the two is wrong cannot be said from here, and if the gimbal itself had two orders, neither
  would be. Nothing in `src/` calls either function yet.

## 5. Proofs

| theorem | module | says |
|---|---|---|
| `TypeCorrect` | `FrameProofs`, `ControlQueueProofs`, `RecorderProofs`, `StreamSwitchProofs`, `CommandLinkProofs` | `Spec => []TypeOK` |
| `PinsExactly`, `QueueImplementsFifo` | `FrameProofs` | exact references; the ring refines `FrameFifo` |
| `NoWakeupIsLost`, `NothingIsLost`, `IdsAreDistinct`, `QueueImplementsPipe` | `ControlQueueProofs` | the queue's safety; it refines `RequestPipe` |
| `OneWriterPerFile`, `HandleIsThread`, `NoWakeupIsLost`, `EveryFrameEncoded`, `StopFinishes` | `RecorderProofs` | all safety properties of the recorder |
| `QueueCurrent`, `LabelIsSource`, `SenderReady`, `NoWakeupIsLost`, `KeyframeComesFirst`, `SwitchIsFinal` | `StreamSwitchProofs` | all safety properties of the stream |
| `InOrder`, `AnswerRight`, `AnswerFinal` | `CommandLinkProofs` | all safety properties of the link that hold |
| `LensTypeCorrect`, `MovesRemembered`, `StillWhenStopped` | `DevicesProofs` | the lens does what its thread remembers, and nothing after a stop |
| `GimbalDoesAsPressed` | `DevicesProofs` | the gimbal does what was pressed last |
| `NothingIsLeftOn` | `DevicesProofs` | relay, laser, lamp and descriptors at rest |
| `RecordingsAreWhole` | `DevicesProofs` | the MP4 recorder, for every queue length |
| `AnswersGoToTheSender` | `DevicesProofs` | the transports, for any set of ground stations |
| `ServicesKeepOrder` | `DevicesProofs` | the three services refine `ServicePipe`, for every queue length; one press of the unlock key per request |
| `AnswersAreTheirOwn` | `LinksProofs` | calls to the 4K camera, the gimbal, the laser and the thermal camera, for any number of calls, any values set, losses and damaged bytes; the gimbal's settings read back, for every value in range (of the stiffness the pitch) |
| `PressesDoCount` | `LinksProofs` | the buttons, for any number of channels, presses and waiting requests |
| `PicturesAreHeld` | `LinksProofs` | capture buffers, their layout, the converter and the overlay |
| `FramesAreKept` | `LinksProofs` | frames of the key board, units of the UDP stream, packets and buffer of the gimbal, for any bytes and sizes (lemmas in `FrameProofs`) |

Each rests on one inductive invariant (`IInv`, `DevicesInv`, `LinksInv`), with three lemmas: it
holds at the start, every step keeps it, and it implies the property. `DevicesInv` and `LinksInv`
are conjunctions with one invariant per unit; a step of the composition is a step or a stutter of
each (`EachSteps`, `UnitSteps`), so each is shown for its own unit alone.

* **FrameQueue**: the type and `PinsExactlyTheQueued`; inductive as they stand, with the
  facts of `RingTheorems` on how a window of slots grows and shrinks modulo the size.
* **ControlQueue**: distinct ids is not inductive, since it says nothing about the id handed
  out next. The strengthening: the outstanding requests carry the *last* ids, in order
  (`OutstandingIdsConsecutive`). The circle of ids is longer than the queue plus one, so
  consecutive ones differ.
* **Recorder**: every flag stands for a program counter. `initializing` covers the caller's
  work on the output, `recording` the life of the thread that `handle` names, and whoever
  has the output found both clear (`ChannelInv`, `ThreadInv`). What a stop of one channel
  guarantees follows from where its thread ended.
* **StreamSwitch**: the thread works on a frame without the lock. `WorkIsCurrent` and
  `HeldIsCurrent` say what it may rely on: frame, label and packets are of one generation,
  the present one *unless a switch is pending*. `KeyframeComes` says why a viewer who
  needs a keyframe gets one first: either packets are dropped until it comes, or the
  first packet held is one.
* **CommandLink**: everything is ordered by *turn*, the time a command got the lock. Commands
  on their way are in ascending order, what was executed is not above them, and the command
  executed last is still in the ring. A command that is not in the ring is then above all
  that was executed. `TimelyOK` says that before the first timeout nothing is on its way
  but the command in work or its answer.
* **Lens** (`LensInv`): the property with what the thread's place says of its locals: between the
  turn and the command it has already taken over the new movement; at its end it moves nothing.
* **Gimbal** (`GimbalInv`): what the gimbal was last told is what is pressed, or a generation is
  pending, or a command that says so is being made.
* **MP4 recorder** (`RecordingInv`): that a recording ends nearly drained follows one frame: the one
  the capture thread had decided to queue (`push`). When nothing is recorded at most one frame is
  on its way (`Drained`); so when the next recording begins only the first of its frames can be old
  (`Own`), and once an old frame is written no other is behind it. `Asked` says that a pending
  stop is meant for this recording or the one before, `Whole` that an encoded frame is in an open
  file unless a call failed, and `Threads` that nothing is recorded where no thread would end it.
* **Transports** (`TransportInv`): the bytes a stream brings are those of the station the connection
  is with, since what is left of a connection is dropped before the next one; a datagram names its
  sender when it is read.
* **Device services** (`ServiceInv`): a device that is on is on for the request in hand or the second
  half of its pulse. `ThreadServes` ties the flags to the thread's place. The refinement maps queue,
  request in hand and "running and not asked to stop" to `ServicePipe`.
* **4K camera** (`CameraInv`): the camera begins its answers in the order of the calls, and ends them
  in that order on each of its two sockets (`InOrderOnTheLine`). So the beginning of an answer that
  is still on the line belongs to the call that waits, or to one after a failure
  (`OwingIsExcused`), and so does what follows on the socket that was acknowledged (`AckedSocket`).
* **Gimbal protocol** (`RsdkInv`): a packet carries the number that was next when it was sent, modulo
  their number (`NumbersTellApart`). Two packets on the line with one number were sent a whole
  circle apart; none stays as long as that.
* **Serial lines** (`SerialInv`): the first byte of the answer to a call is in one place: not yet sent,
  on the line, or in the frame being read (`BegunOnce`); a byte that is lost or damaged is in none.
  Once a call has returned, its answer is unread only if that call or one before it failed, or took
  for an answer what was none (`LateIsExcused`). A frame that is taken has its first byte read, so
  the call it answers is the one that waits, or a failure came before. The comparison with
  what was sent then says that the two calls are of one kind, and of one value if the laser was set
  (`LaserTakesOwn`, `ThermalTakesOwn`). Of the bytes on the line only their number and their place
  matter: damage may put any values into them.
* **Buttons** (`ButtonsInv`, `AskedInv`): while no press has found a request waiting, a switch or a
  toggle waits alone at the head of the queue, and the pipeline is as the presses say or will be
  when it is served. The wrap of the channel is `NextModulo`.
* **Capture driver** (`CaptureInv`): the references of a context are the frames that are out, what
  the capture thread holds, and nothing else (`RefsCounted`); a buffer is queued, taken or out and
  never two of these (`BuffersApart`), so that a frame that is made is a new one and adds one to the
  count; and the thread's place says how much of the closing is done (`ThreadPlace`).
* **Capture format** (`FormatInv`): the format lent out is one the program reads, with its pitches
  filled in, before it is compared with the length of the buffer.
* **Converter** (`ConvertInv`): the remembered source keeps a reference to its context, so no other
  context is at that address: comparing addresses is enough (`RemembersTheSource`).
* **Overlay** (`OsdInv`): a caller who writes all fields back has the lock, so what it read is still
  what is set; a revision that is equal was painted from equal fields (`RevisionTells`).
* **Key board** (`KeyInv`): `window` remembers the last seven bytes read. What the reader has gathered
  is the end of that window from its last 0xAA on (`Reading`), so when the window is a valid frame
  with no 0xAA inside, the reader has just gathered it.
* **RTP** (`RtpInv`): the access unit is a concatenation of a start code and a unit, once or twice,
  and the search finds exactly those cuts (`Cut`: a unit holds
  no start code and does not end in a zero). While a unit is sent, what the receiver has gathered, if it
  missed nothing, and what is left of the unit are the unit. A receiver out of step takes no middle
  fragment for the next one: fewer datagrams are lost than there are numbers.
* **CAN bus** (`BusInv`): what waits in `rx_buffer` is shorter than the longest packet, since from a
  first byte that looks like a length a packet is taken or the byte thrown away; a CAN frame adds at
  most its own length. The bytes in `rx_buffer` and on the bus are one sequence in the order they
  were sent (`Sequel`), so the next bytes of a packet that is begun follow what has been read of it.
  `WayInv` says of it: each byte is a byte of the packet it is of, at its place (`Genuine`); of a packet that
  lost no byte and is not yet delivered all bytes are there (`ExpectsWhole`); and what was delivered
  begins what is to be (`DeliversInOrder`). A byte that is thrown away is then never one of a whole packet:
  where such a packet begins, the length it states is its own and nothing is lacking or wrong.
* **Gimbal settings** (`ItemsInv`): the bytes the gimbal keeps are those of the settings asked for
  last (`Coded`). `WordReadsBack` is the arithmetic: a number of 16 bits is written as two bytes of
  `v % 65536` and read with its sign. `CommandBits` takes the flag byte of a position apart, and
  `RowReadsBack` reads the row of three angles wherever it is in an answer or a report.

Assumptions: those named in the modules (`QueueAssumption`, `ControlAssumption`,
`RecorderAssumption`, `StreamAssumption`, `LinkAssumption`, `DevicesAssumption`,
`LinksAssumption`): sizes are positive, ids outnumber
the slots, markers such as `NoFrame` are not members of the sets they stand beside, no context is
at the null pointer, a count of the key board is a byte and not 0, and `rx_buffer` has room for the
longest packet but one byte and two CAN frames (`BufferSize`: the code has 2 * 1023 bytes, CAN
frames of 8). A packet of the gimbal and its header have at least one byte. What is set on
the gimbal needs no assumption: a value out of range is refused. Two are about the world: an answer of the gimbal comes back before the
numbers have gone round once (`MaxLate` is at most `LastSequence`; the code has 65535 numbers and
waits for one answer at a time), and of the datagrams of one access unit fewer are lost than there
are RTP numbers (65536).

Only model-checked: the liveness properties (`HeldMoves`, `RequestsServed`, `StopsReturn` and those
of the pipeline), since fairness and `ENABLED` are out of the prover's reach; and `BytesAgree`. The
settings of the 4K camera and the tables of the relay boards are coded by folds over data, and a list
of parameters is followed by recursion; the prover cannot do induction on either. That one damaged
byte never leaves the exclusive or or the sum right is arithmetic on such folds. `AnswersAreOwn` does
not rest on it: its theorem holds for any number of damaged bytes and excepts only what comes after a
call that was fooled by them.

## 6. Abstractions and assumptions

* Pixels, timestamps, names and parameters are left out, except where a property is about
  them (generation of a frame, label, key flag).
* Failures that are modelled: frame allocation and reference (`FrameQueue`), the list of
  changed channels (`ControlQueue`), opening of outputs, encoder and camera, sending,
  encoding, loss of signal. Failed allocations inside `Recorder` and `StreamSwitch` and a
  failed `pthread_create` are not.
* `Recorder` sees three seconds as "may give up at any time".
* `StreamSwitch` is checked over UDP. RTSP and SRT differ in who opens the output; the proof
  covers both (`Udp` is any Boolean).
* The link of `CommandLink` keeps order, as serial lines and TCP do. The configuration in the
  repository uses UDP, which may reorder: `ExecutedInOrder`, `AnswerIsRight`, `FinalAnswerStays` and
  their theorems say nothing of a network that does (hazard at `mavlink_web_control.c:195`). That,
  a restart of the air side and the limits of the gateway's tables (2048 results, 600
  seconds, 256 clients; commands expire after 3 seconds) are left out. `AirTransport` has
  datagrams of several senders, each in the order it was sent.
* Devices are external: they answer in order, may be slow, and may have executed a command whose
  answer was lost. A failed call in `DeviceServices`, `GimbalService` and `Mp4Recorder` stands for
  each of its reasons.
* Checksums are marks that are right exactly when the bytes are those that were sent; two
  errors that cancel each other do not happen. In `SerialAnswers` both checks are computed as in the code,
  and a call that took other bytes than one whole answer is kept in `fooled`.
* In `SerialAnswers` the data of an answer are one byte. A measured value is the number of its call,
  so that no two are equal: the driver does not look at it. The results that the laser sends unasked,
  one after the other, once it measures continuously, answer no call and are left out.
* In `RtpOutput` a unit one byte longer than a packet goes out as one fragment with both the first
  and the last bit, as in the code; RFC 6184 forbids it, and the receiver of the model takes it.
* In `Osd` the blinking dot of the laser is left out: its phase is not part of the revision,
  so on a picture on which nothing else changes it stands still. `vp_osd_notify_snapshot` takes
  no `control->lock`, so a flash may be undone by a caller that writes all fields back.
* `KeyFrames` leaves the count out of what is compared: the checksum does not cover it.

## 7. Not modelled, and why

* Arithmetic on pixels, the drawing of lines, scales and letters, colour tags and the choice
  of an FFmpeg decoder: computations on data without state.
* Configuration files, the gateway's form over its settings and its mock of the aircraft: read
  once, no state after.
* Serial port and network endpoint: system calls on one descriptor; the models above them see
  bytes, nothing, or an error.
* Preview program (`app_manager.c`, `display_gui.c`): a program of its own around a display. SBUS
  receiver: `CMakeLists.txt` says that it has no implementation,
  and the sources are commented out. Decoder analysis
  (`mpp_analysis`): FFmpeg sources kept to be read, not built. Service scripts: separate programs.
* Plain blocks of data of the 4K camera (version, temperature), its self test, and the pushed telemetry of
  the gimbal beyond its elements, and the inquiry of its version.
* Modbus functions that no caller in the program uses, and the TCP framing of the vendored library.
* RTSP and SRT outputs below FFmpeg's calls; encoder settings by codec.
* `vp_stream_set_enabled` opening the UDP socket without the lock while the stream thread
  opens or closes it, a record thread that ends on a failed allocation, reordering on UDP before
  the first copy of a command, and a restart of the air side: listed as hazards without a property.

## 8. Plan

1. The two initialisations of the UDP socket in `StreamSwitch` as steps of their own, and
   allocation failures in `Recorder`'s thread.
2. `CommandLink` over a link that reorders, and with a restart of the air side; composed with
   `GimbalService` and `Zoom`, so that a late press meets the watchdog.
3. A lemma of the tables of the relay boards that needs no induction: a refused call leaves them as they
   were.
4. The packing of a command into the parameters of a MAVLink command, ground and air.
