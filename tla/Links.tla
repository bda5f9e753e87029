------------------------------- MODULE Links --------------------------------
(***************************************************************************)
(* Components that keep to themselves, one of them in each behaviour: the  *)
(* frame queue, which this module extends, the calls to the 4K camera and  *)
(* to the gimbal, the laser and the thermal camera, the buttons on board,  *)
(* the buffers of a capture device and their layout, the converter of      *)
(* frames, the on-screen display, the frames in the bytes of the key       *)
(* board, the CAN bus and the UDP stream, and the settings of the gimbal.  *)
(* None of them shares state with another, so unit says which of them      *)
(* moves, and the others stay as they are initialised. MCLinks adds the    *)
(* settings of the 4K camera and the tables of the relay boards.           *)
(***************************************************************************)
EXTENDS FrameQueue

CONSTANTS
  MaxCalls, MaxLosses,              \* bounds: calls to the camera, packets lost
  LastSequence, MaxLate,            \* of the gimbal's packets
  MaxSends, MaxReports,             \* bounds: packets sent, reports of the gimbal
  Channels,                         \* vp_channel_count
  MaxWaiting, MaxPresses,           \* bounds: requests that wait, buttons pressed
  Buffer,                           \* buffers of a capture driver
  MaxOpens, MaxFaults,              \* bounds: openings, and calls or stages that fail
  Width, Height, Pitches, Lengths,  \* of a picture and of the driver's buffers
  Address,                          \* where frames' contexts are put
  MaxFrames,                        \* bound: frames that are converted
  Source,                           \* what can be streamed
  MaxNow, MaxUpdates, MaxOsdFaults, \* bounds: the clock, changes, failures of the OSD
  KeyCounts,                        \* counts of the frames of the key board
  MaxKeyFrames, MaxKeyFaults,       \* bounds: frames it sends, bytes damaged
  Capacity, Modulus,                \* of an RTP packet, of its sequence number
  MaxBytes, MaxDatagramsLost,       \* bounds: bytes of an access unit, datagrams lost
  MinSize, MaxSize, Header,         \* of the gimbal's packets
  ChunkSize, BufferSize,            \* of a CAN frame, of rx_buffer
  MaxPackets, MaxChunksLost,        \* bounds: packets sent, CAN frames lost
  MaxByteFaults, DamagedBit,        \* bounds: bytes of a serial answer lost or damaged
  LaserSettings,                    \* what the laser is asked for
  Positions, Limits, FocusPositions, Stiffness, \* and the gimbal
  MaxItemSends, MaxTlv              \* bounds: commands sent to it, bytes of a list

\* An answer of the gimbal does not outlive its number; the device that is captured from
\* counts its bytes; no context is put at the null pointer; there is a channel. A count of
\* the key board is a byte and not 0. Fewer datagrams are lost than there are numbers, and
\* rx_buffer has room for the longest packet but one byte, and two CAN frames. A packet of
\* the gimbal has a byte, and so has its header.
ASSUME LinksAssumption ==
  /\ LastSequence \in Nat \ {0} /\ MaxLate \in 0..LastSequence
  /\ Channels \in Nat \ {0}
  /\ MaxOpens \in Nat
  /\ Width \in Nat /\ Height \in Nat /\ Pitches \subseteq Nat /\ Lengths \subseteq Nat
  /\ 0 \notin Address
  /\ KeyCounts \subseteq 1..255
  /\ Capacity \in Nat \ {0} /\ Modulus \in Nat \ {0} /\ MaxDatagramsLost \in 0..(Modulus - 1)
  /\ MaxSize \in Nat /\ MinSize \in 1..MaxSize /\ Header \in 1..MaxSize /\ ChunkSize \in Nat \ {0}
  /\ BufferSize \in Nat /\ MaxSize - 1 + 2 * ChunkSize <= BufferSize

VARIABLES
  unit,
  v_kind, v_waiting, v_ack_seen, v_ack_socket, v_result, v_failed,
  v_to_camera, v_executing, v_wire, v_losses,
  r_open, r_next_sequence, r_request, r_result, r_to_gimbal, r_to_host,
  r_sends, r_reports,
  b_current, b_recording, b_osd, b_lamp, b_waiting, b_asked, b_down, b_lit,
  b_switches, b_toggles, b_overlapped, b_presses,
  c_kind, c_native, c_frames, c_ctx, c_decoder, c_pc, c_taken, c_dying,
  c_stray, c_opens, c_faults,
  l_kind, l_name, l_report, l_length, l_requested, l_format, l_descriptor, l_pc,
  x_dst, x_camera, x_frame, x_pc, x_remembered, x_filter, x_failed, x_skipped,
  x_resized, x_resize_valid, x_rga_color_failed, x_sws, x_result, x_contexts,
  x_faults,
  o_osd, o_copy, o_locked, o_now, o_recording, o_rec_start, o_stream_ch, o_pc,
  o_label_channel, o_label_rgba, o_revision, o_rgba, o_snap, o_shown,
  o_wanted, o_wiped, o_updates, o_faults,
  k_line, k_rx_frame, k_replies, k_error_count, k_connected, k_window,
  k_accepted, k_sent, k_frames, k_faults,
  p_sent, p_data, p_current, p_nal, p_pc, p_sequence, p_expected, p_building,
  p_begun, p_got, p_marked, p_losses,
  f_bus, f_rx, f_delivered, f_expected, f_sent, f_losses,
  a_device, a_kind, a_setting, a_waiting, a_rx, a_result, a_failed, a_fooled,
  a_to_device, a_wire, a_faults,
  i_held, i_asked, i_got, i_sends

V == INSTANCE ViscaLink WITH
  kind <- v_kind, waiting <- v_waiting, ack_seen <- v_ack_seen,
  ack_socket <- v_ack_socket, result <- v_result, failed <- v_failed,
  to_camera <- v_to_camera, executing <- v_executing, wire <- v_wire,
  losses <- v_losses

R == INSTANCE RsdkLink WITH
  open <- r_open, next_sequence <- r_next_sequence, request <- r_request,
  result <- r_result, to_gimbal <- r_to_gimbal, to_host <- r_to_host,
  sends <- r_sends, reports <- r_reports

B == INSTANCE AirActions WITH
  current <- b_current, recording <- b_recording, osd <- b_osd,
  lamp <- b_lamp, waiting <- b_waiting, asked <- b_asked, down <- b_down,
  lit <- b_lit, switches <- b_switches, toggles <- b_toggles,
  overlapped <- b_overlapped, presses <- b_presses

C == INSTANCE CaptureDriver WITH
  kind <- c_kind, native <- c_native, frames <- c_frames, ctx <- c_ctx,
  decoder <- c_decoder, pc <- c_pc, taken <- c_taken, dying <- c_dying,
  stray <- c_stray, opens <- c_opens, faults <- c_faults

L == INSTANCE CaptureFormat WITH
  kind <- l_kind, name <- l_name, report <- l_report, length <- l_length,
  requested <- l_requested, format <- l_format, descriptor <- l_descriptor,
  pc <- l_pc

X == INSTANCE FrameConvert WITH
  dst <- x_dst, camera <- x_camera, frame <- x_frame, pc <- x_pc,
  remembered <- x_remembered, filter <- x_filter, failed <- x_failed,
  skipped <- x_skipped, resized <- x_resized, resize_valid <- x_resize_valid,
  rga_color_failed <- x_rga_color_failed, sws <- x_sws, result <- x_result,
  contexts <- x_contexts, faults <- x_faults

O == INSTANCE Osd WITH
  Channel <- Source, MaxFaults <- MaxOsdFaults,
  osd <- o_osd, copy <- o_copy, locked <- o_locked, now <- o_now,
  recording <- o_recording, rec_start <- o_rec_start,
  stream_ch <- o_stream_ch, pc <- o_pc, label_channel <- o_label_channel,
  label_rgba <- o_label_rgba, revision <- o_revision, rgba <- o_rgba,
  snap <- o_snap, shown <- o_shown, wanted <- o_wanted, wiped <- o_wiped,
  updates <- o_updates, faults <- o_faults

K == INSTANCE KeyFrames WITH
  Counts <- KeyCounts, MaxFrames <- MaxKeyFrames, MaxFaults <- MaxKeyFaults,
  line <- k_line, rx_frame <- k_rx_frame, replies <- k_replies,
  error_count <- k_error_count, connected <- k_connected,
  window <- k_window, accepted <- k_accepted, sent <- k_sent,
  frames <- k_frames, faults <- k_faults

P == INSTANCE RtpOutput WITH
  MaxLosses <- MaxDatagramsLost, sent <- p_sent, data <- p_data,
  current <- p_current, nal <- p_nal, pc <- p_pc, sequence <- p_sequence,
  expected <- p_expected, building <- p_building, begun <- p_begun,
  got <- p_got, marked <- p_marked, losses <- p_losses

F == INSTANCE RsdkFrames WITH
  MaxLosses <- MaxChunksLost, bus <- f_bus, rx <- f_rx,
  delivered <- f_delivered, expected <- f_expected, sent <- f_sent,
  losses <- f_losses

A == INSTANCE SerialAnswers WITH
  Settings <- LaserSettings, MaxFaults <- MaxByteFaults, device <- a_device,
  kind <- a_kind, setting <- a_setting, waiting <- a_waiting, rx <- a_rx,
  result <- a_result, failed <- a_failed, fooled <- a_fooled,
  to_device <- a_to_device, wire <- a_wire, faults <- a_faults

I == INSTANCE RsdkItems WITH
  MaxSends <- MaxItemSends, held <- i_held, asked <- i_asked, got <- i_got,
  sends <- i_sends
-----------------------------------------------------------------------------
v_vars ==
  <<v_kind, v_waiting, v_ack_seen, v_ack_socket, v_result, v_failed,
  v_to_camera, v_executing, v_wire, v_losses>>
r_vars ==
  <<r_open, r_next_sequence, r_request, r_result, r_to_gimbal, r_to_host,
  r_sends, r_reports>>
b_vars ==
  <<b_current, b_recording, b_osd, b_lamp, b_waiting, b_asked, b_down, b_lit,
  b_switches, b_toggles, b_overlapped, b_presses>>
c_vars ==
  <<c_kind, c_native, c_frames, c_ctx, c_decoder, c_pc, c_taken, c_dying,
  c_stray, c_opens, c_faults>>
l_vars ==
  <<l_kind, l_name, l_report, l_length, l_requested, l_format, l_descriptor, l_pc>>
x_vars ==
  <<x_dst, x_camera, x_frame, x_pc, x_remembered, x_filter, x_failed, x_skipped,
  x_resized, x_resize_valid, x_rga_color_failed, x_sws, x_result, x_contexts,
  x_faults>>
o_vars ==
  <<o_osd, o_copy, o_locked, o_now, o_recording, o_rec_start, o_stream_ch, o_pc,
  o_label_channel, o_label_rgba, o_revision, o_rgba, o_snap, o_shown,
  o_wanted, o_wiped, o_updates, o_faults>>
k_vars ==
  <<k_line, k_rx_frame, k_replies, k_error_count, k_connected, k_window,
  k_accepted, k_sent, k_frames, k_faults>>
p_vars ==
  <<p_sent, p_data, p_current, p_nal, p_pc, p_sequence, p_expected, p_building,
  p_begun, p_got, p_marked, p_losses>>
f_vars == <<f_bus, f_rx, f_delivered, f_expected, f_sent, f_losses>>
a_vars ==
  <<a_device, a_kind, a_setting, a_waiting, a_rx, a_result, a_failed, a_fooled,
  a_to_device, a_wire, a_faults>>
i_vars == <<i_held, i_asked, i_got, i_sends>>
links_vars ==
  <<unit, vars, v_vars, r_vars, b_vars, c_vars, l_vars, x_vars, o_vars, k_vars, p_vars, f_vars,
    a_vars, i_vars>>

\* The initial states of the units; of those that differ for their own unit only, one is
\* taken for the others.
LinksInit ==
  /\ unit # "capture" => c_kind = "usb"
  /\ unit # "format" => /\ l_kind = "csi" /\ l_name = ""
                        /\ l_report = CHOOSE r \in L!Reports : r.fourcc = "nv12"
  /\ unit # "convert" => x_dst = [hw |-> TRUE, fmt |-> "nv12"]
  /\ unit # "osd" => o_stream_ch = CHOOSE s \in Source : TRUE
  /\ unit # "rtp" => p_data = <<0, 0, 1, 2>> /\ p_sequence = 0 /\ p_building = <<>>
  /\ unit # "serial" => a_device = "laser"
  /\ Init /\ V!Init /\ R!Init /\ B!Init /\ K!Init /\ P!Init /\ F!Init /\ A!Init
  /\ C!Init /\ L!Init /\ X!Init /\ O!Init /\ I!Init

LinksNext ==
  /\ UNCHANGED unit
  /\ IF unit = "queue" THEN Next ELSE UNCHANGED vars
  /\ IF unit = "visca link" THEN V!Next ELSE UNCHANGED v_vars
  /\ IF unit = "rsdk link" THEN R!Next ELSE UNCHANGED r_vars
  /\ IF unit = "actions" THEN B!Next ELSE UNCHANGED b_vars
  /\ IF unit = "capture" THEN C!Next ELSE UNCHANGED c_vars
  /\ IF unit = "format" THEN L!Next ELSE UNCHANGED l_vars
  /\ IF unit = "convert" THEN X!Next ELSE UNCHANGED x_vars
  /\ IF unit = "osd" THEN O!Next ELSE UNCHANGED o_vars
  /\ IF unit = "key frames" THEN K!Next ELSE UNCHANGED k_vars
  /\ IF unit = "rtp" THEN P!Next ELSE UNCHANGED p_vars
  /\ IF unit = "rsdk frames" THEN F!Next ELSE UNCHANGED f_vars
  /\ IF unit = "serial" THEN A!Next ELSE UNCHANGED a_vars
  /\ IF unit = "rsdk items" THEN I!Next ELSE UNCHANGED i_vars

LinksSpec == LinksInit /\ [][LinksNext]_links_vars
-----------------------------------------------------------------------------
(***************************************************************************)
(* The answer a call returns is the answer to that call, not to an earlier *)
(* one that came late: the 4K camera's (visca_wait_for_command), the       *)
(* laser's (sfl0603_laser_wait_for_command) and the thermal camera's       *)
(* (thermal_camera_receive_response) unless an earlier call failed, and    *)
(* the gimbal's (dji_rsdk_protocol_request) always. After a failure it is  *)
(* still an answer to the same kind of call, no older than the failure,    *)
(* and a setting of the laser is never taken as done on the echo of        *)
(* another value. A call whose bytes deceived the check of the serial line *)
(* counts as one that failed. And what the answers of the gimbal, and its  *)
(* reports, are read as is what it was set to: the bytes of a setting are  *)
(* unpacked as they were packed, but for the stiffness of the motors.      *)
(***************************************************************************)
AnswersAreOwn ==
  V!AnswerIsOwn /\ R!AnswerIsOwn /\ A!AnswerIsOwn /\ I!SettingsReadBack

(***************************************************************************)
(* Every button of the ground station that is answered OK takes effect     *)
(* once: recordings and switches follow the presses, a held button moves   *)
(* until it is released, the lamp of the OSD is the laser's.               *)
(***************************************************************************)
PressesCount == B!PressesCount

(***************************************************************************)
(* A captured picture keeps its memory: no buffer is given back to the     *)
(* driver while a frame holds it, nor freed while the device is open; the  *)
(* descriptor of a frame lies inside its buffer; and what a converter      *)
(* returns is that frame, of its own size and format, whatever failed.     *)
(* What is drawn over it is what was set, by whomever, when it was drawn.  *)
(***************************************************************************)
PicturesHold ==
  /\ C!CaptureAccounts
  /\ L!DescriptorFits
  /\ X!ConvertsTheFrame
  /\ O!TelemetryKept /\ O!OverlayCurrent
(***************************************************************************)
(* A frame that arrives whole is handed on, whatever was lost or damaged   *)
(* before it, and no mixture of two is: the reader of the key board finds  *)
(* every valid frame, a receiver of the UDP stream puts together the units *)
(* the encoder emitted, and the reader of the CAN bus delivers every whole *)
(* packet of the gimbal, once and in order, and never has to throw away    *)
(* what it has read for want of room.                                      *)
(***************************************************************************)
FramesKept ==
  /\ K!ReadsEveryFrame /\ P!UnitsArriveWhole /\ F!NoPacketSwallowed /\ F!BufferSuffices
=============================================================================
