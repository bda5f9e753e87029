----------------------------- MODULE KeyFrames ------------------------------
(***************************************************************************)
(* The frames of the key board of the high speed camera, byte by byte:     *)
(*   src/control/high_speed_camera/high_speed_camera.c                     *)
(* A frame is <<head, type, data, crc, crc, count, tail>>. The checksum    *)
(* covers the first three bytes only. A byte may be lost or damaged on the *)
(* line. The two bytes of a checksum are numbers that no other byte is:    *)
(* those of the frames of the protocol are never the head.                 *)
(* The key board is external: it sends any valid frame at any time, with   *)
(* the counts in Counts.                                                   *)
(***************************************************************************)
EXTENDS Naturals, Sequences

CONSTANTS
  Counts,    \* counts the key board uses, of 1..255
  MaxFrames, \* bound: frames sent by the key board
  MaxFaults  \* bound: bytes lost or damaged

FrameHead == 170
FrameTail == 85
FrameSize == 7
KeyRequest == 1
HeartbeatRequest == 2
HeartbeatResponse == 3
ErrorResponse == 4
Type == KeyRequest..ErrorResponse

VARIABLES
  line,        \* bytes on their way from the key board
  rx_frame,    \* the frame being read
  replies,     \* frames sent to the key board, without head, checksum and tail
  error_count,
  connected,
  window,      \* history: the last bytes read without a silence between them
  accepted,    \* history: the frame accepted at the last byte, or <<>>
  sent,        \* history: the types and data of the frames sent
  frames, faults \* bound counters

vars == <<line, rx_frame, replies, error_count, connected, window, accepted, sent,
          frames, faults>>

Crc(type, data) == <<1000 + 8 * type + data, 2000 + 8 * type + data>>
build_frame(type, data, count) ==
  <<FrameHead, type, data>> \o Crc(type, data) \o <<count, FrameTail>>

next_count(count) == IF count \in {0, 255} THEN 1 ELSE count + 1

fields_valid(type, data, count) ==
  /\ count # 0
  /\ \/ type = KeyRequest /\ data \in 1..7
     \/ type = HeartbeatRequest /\ data = 0
     \/ type = HeartbeatResponse /\ data \in 0..7
     \/ type = ErrorResponse /\ data = 0

validate_frame(f) ==
  /\ f[1] = FrameHead /\ f[7] = FrameTail
  /\ <<f[4], f[5]>> = Crc(f[2], f[3])
  /\ fields_valid(f[2], f[3], f[6])

Init ==
  /\ line = <<>>
  /\ rx_frame = <<>>
  /\ replies = <<>>
  /\ error_count = 0
  /\ connected = FALSE
  /\ window = <<>>
  /\ accepted = <<>>
  /\ sent = {}
  /\ frames = 0
  /\ faults = 0
-----------------------------------------------------------------------------
\* The key board, and the line.
KeyBoardSends ==
  /\ frames < MaxFrames
  /\ frames' = frames + 1
  /\ \E t \in {KeyRequest, HeartbeatRequest}, d \in {0, 1}, c \in Counts :
       /\ fields_valid(t, d, c)
       /\ line' = line \o build_frame(t, d, c)
       /\ sent' = sent \cup {<<t, d>>}
  /\ UNCHANGED <<rx_frame, replies, error_count, connected, window, accepted, faults>>

Damage ==
  /\ faults < MaxFaults
  /\ faults' = faults + 1
  /\ line # <<>>
  /\ line' \in {Tail(line), <<0>> \o Tail(line), <<FrameHead>> \o Tail(line)}
  /\ UNCHANGED <<rx_frame, replies, error_count, connected, window, accepted, sent, frames>>
-----------------------------------------------------------------------------
(***************************************************************************)
(* high_speed_camera_process_once: one byte.                               *)
(***************************************************************************)
reject_frame ==
  /\ error_count' = next_count(error_count)
  /\ replies' = <<ErrorResponse, 0, error_count'>>
  /\ UNCHANGED connected
  /\ accepted' = <<>>

\* A mutant: a frame that starts inside a frame is not seen.
HeadIsData(byte) == rx_frame = <<>>

Restarts(byte) == byte = FrameHead

ReadByte ==
  /\ line # <<>>
  /\ line' = Tail(line)
  /\ LET byte == Head(line)
         frame == Append(rx_frame, byte) IN
     /\ window' = (IF Len(window) = FrameSize THEN Tail(window) ELSE window) \o <<byte>>
     /\ CASE rx_frame = <<>> /\ byte # FrameHead ->
               rx_frame' = <<>> /\ reject_frame
          [] rx_frame = <<>> /\ byte = FrameHead ->
               /\ rx_frame' = <<byte>>
               /\ accepted' = <<>>
               /\ UNCHANGED <<replies, error_count, connected>>
          [] rx_frame # <<>> /\ Restarts(byte) ->
               rx_frame' = <<byte>> /\ reject_frame
          [] rx_frame # <<>> /\ ~Restarts(byte) /\ Len(frame) < FrameSize ->
               /\ rx_frame' = frame
               /\ accepted' = <<>>
               /\ UNCHANGED <<replies, error_count, connected>>
          [] rx_frame # <<>> /\ ~Restarts(byte) /\ Len(frame) = FrameSize ->
               /\ rx_frame' = <<>>
               /\ IF validate_frame(frame)
                  THEN /\ connected' = TRUE
                       /\ accepted' = <<frame[2], frame[3], frame[6]>>
                       /\ replies' = IF frame[2] \in {KeyRequest, HeartbeatRequest}
                                     THEN <<HeartbeatResponse, frame[3], frame[6]>>
                                     ELSE replies
                       /\ UNCHANGED error_count
                  ELSE reject_frame
  /\ UNCHANGED <<sent, frames, faults>>

\* 100 ms without a byte in the middle of a frame.
InterbyteTimeout ==
  /\ line = <<>>
  /\ rx_frame # <<>>
  /\ rx_frame' = <<>>
  /\ window' = <<>>
  /\ reject_frame
  /\ UNCHANGED <<line, sent, frames, faults>>

\* 5 s without a valid frame.
update_disconnect_state ==
  /\ line = <<>>
  /\ connected
  /\ connected' = FALSE
  /\ UNCHANGED <<line, rx_frame, replies, error_count, window, accepted, sent, frames, faults>>
-----------------------------------------------------------------------------
Next ==
  \/ KeyBoardSends
  \/ Damage
  \/ ReadByte
  \/ InterbyteTimeout
  \/ update_disconnect_state

Spec == Init /\ [][Next]_vars
-----------------------------------------------------------------------------
FrameRead == Len(window) = FrameSize /\ validate_frame(window)
HeadInside == \E i \in 2..FrameSize : window[i] = FrameHead

(***************************************************************************)
(* Whatever was lost or damaged before, a valid frame is accepted as soon  *)
(* as it has been read, unless its count is the byte that starts a frame;  *)
(* and what is accepted is the frame just read and was sent by the key     *)
(* board: parts of two frames are never taken for one. (Not its count,     *)
(* which the checksum does not protect.)                                   *)
(***************************************************************************)
ReadsEveryFrame ==
  /\ FrameRead /\ ~HeadInside => accepted = <<window[2], window[3], window[6]>>
  /\ accepted # <<>> => FrameRead /\ <<accepted[1], accepted[2]>> \in sent

(***************************************************************************)
(* "Valid key/heartbeat requests are acknowledged automatically."          *)
(*   (include/control/high_speed_camera/high_speed_camera.h:58)            *)
(***************************************************************************)
ValidAcknowledged ==
  FrameRead /\ window[2] \in {KeyRequest, HeartbeatRequest} =>
    replies = <<HeartbeatResponse, window[3], window[6]>>
=============================================================================
