----------------------------- MODULE RsdkItems ------------------------------
(***************************************************************************)
(* What the host sets on the gimbal and what it reads from it:             *)
(*   src/control/dji_rsdk/dji_rsdk_commands.c:75-835                       *)
(* Each command packs its arguments into bytes, and each inquiry and each  *)
(* report of the gimbal is unpacked at offsets of its own. The gimbal is   *)
(* external: it keeps the bytes it was sent for an item and puts them into *)
(* its answers in the same order. Commands with no parameter that is read  *)
(* back are members of OneWay; an inquiry for what the host does not set,  *)
(* the version (392-428), is left out.                                     *)
(*                                                                         *)
(* The stiffness of the motors is sent as pitch, roll, yaw (281-300) and   *)
(* read as pitch, yaw, roll (302-336, 386-388): it does not read back, and *)
(* has a property of its own. What the gimbal expects is in its manual,    *)
(* which is not part of the repository.                                    *)
(***************************************************************************)
EXTENDS Integers, Sequences, SequencesExt, FiniteSets

CONSTANTS
  Positions, Limits, FocusPositions, Stiffness,  \* what is asked for
  MaxSends,  \* bound: commands sent
  MaxTlv     \* bound: bytes in an answer with user parameters

Axis == {"yaw", "roll", "pitch"}
AxisPlace(a) == IF a = "yaw" THEN 1 ELSE IF a = "roll" THEN 2 ELSE 3

VARIABLES
  held,   \* external: the bytes the gimbal keeps, by item
  asked,  \* what was set last, by item, as the caller gave it
  got,    \* the answer to the last inquiry or the last report, none or one
  sends   \* bound counter

vars == <<held, asked, got, sends>>
-----------------------------------------------------------------------------
\* DJI_RSDK_COMMAND_WRITE_U16_LE, of a signed value too, and the way back.
Word(v) == LET u == v % 65536 IN <<u % 256, u \div 256>>
ReadWord(b, offset) == b[offset + 1] + 256 * b[offset + 2]

\* A mutant: the sign is not restored.
UnsignedOnly(b, offset) == ReadWord(b, offset)

ReadSigned(b, offset) ==
  LET u == ReadWord(b, offset) IN IF u >= 32768 THEN u - 65536 ELSE u

At(bytes, offset, n) == SubSeq(bytes, offset + 1, offset + n)

\* Where the word of an axis is, in a row of yaw, roll and pitch.
AxisOffset(a) == 2 * (AxisPlace(a) - 1)
Angles(b, offset) == [a \in Axis |-> ReadSigned(b, offset + AxisOffset(a))]

\* The positions that are not refused.
Reach ==
  {p \in [Axis -> -1800..1800] : p["roll"] \in -300..300 /\ p["pitch"] \in -560..1460}

Flag(bit, on) == IF on THEN bit ELSE 0

dji_rsdk_set_position(angles, absolute, enabled) ==
  Word(angles["yaw"]) \o Word(angles["roll"]) \o Word(angles["pitch"]) \o
    <<Flag(1, absolute) + Flag(2, "yaw" \notin enabled) + Flag(4, "roll" \notin enabled) +
      Flag(8, "pitch" \notin enabled), 0>>

\* dji_rsdk_get_angles: the type of the angles, then yaw, roll, pitch.
dji_rsdk_get_angles(answer) == Angles(answer, 1)

LimitRanges == [pitch_max : 0..145, pitch_min : 0..55, yaw_max : 0..179, yaw_min : 0..179,
                roll_max : 0..30, roll_min : 0..30]

LimitBytes(l) == <<l.pitch_max, l.pitch_min, l.yaw_max, l.yaw_min, l.roll_max, l.roll_min>>
LimitsFrom(b) == [pitch_max |-> b[1], pitch_min |-> b[2], yaw_max |-> b[3],
                  yaw_min |-> b[4], roll_max |-> b[5], roll_min |-> b[6]]

dji_rsdk_set_angle_limits(l) == <<1>> \o LimitBytes(l)
dji_rsdk_get_angle_limits(answer) == LimitsFrom(answer)

\* The stiffness of the motor of each axis.
StiffnessRange == 0..100
dji_rsdk_set_motor_stiffness(s) == <<1, s["pitch"], s["roll"], s["yaw"]>>

StiffnessFrom(b) ==
  [a \in Axis |-> IF a = "pitch" THEN b[1] ELSE IF a = "yaw" THEN b[2] ELSE b[3]]

FocusRange == 0..4095
dji_rsdk_set_focus_position(p) == <<1, 0, 2>> \o Word(p)

Protocol == "DJI_RSDK_ERR_PROTOCOL"

dji_rsdk_get_motor_stiffness(answer) ==
  IF \E i \in DOMAIN answer : answer[i] \notin StiffnessRange THEN Protocol
  ELSE StiffnessFrom(answer)

\* The position has four bytes in the answer, the state of the calibration before it.
dji_rsdk_get_focus_position(answer) ==
  LET position == ReadWord(answer, 3) + 65536 * ReadWord(answer, 5)
  IN IF answer[1] # 21 \/ answer[2] # 0 \/ answer[3] \notin 1..3 \/ position > 4095
     THEN Protocol ELSE position

\* dji_rsdk_camera_action: 3 starts a recording of the camera, 4 ends it.
dji_rsdk_camera_action(record) == Word(IF record THEN 3 ELSE 4)

dji_rsdk_camera_get_recording(answer) ==
  IF answer[1] \notin {0, 2} THEN Protocol ELSE answer[1] = 2

\* Commands without a value to be read back: speed, stick, dial, work mode, centre,
\* selfie, follow mode, calibrations, tracking, report on and off, external version,
\* photo and focus of the camera.
OneWay ==
  {<<1, yaw, fine>> : yaw \in {-3600, 3600}, fine \in {0, 128, 136}} \cup
  {<<10, 1, stick>> : stick \in {-15000, 15000}} \cup {<<10, 2, dial>> : dial \in {-2048, 2048}} \cup
  {<<13, 254, o>> : o \in 0..5 \cup {255}} \cup {<<14, 254, c>> : c \in {1, 2}} \cup
  {<<14, mode, 0>> : mode \in {0, 2, 3}} \cup {<<15, 0, 1, c>> : c \in 0..3} \cup
  {<<7, on>> : on \in {1, 2}} \cup {<<17, 3>>, <<9, 0>>} \cup {<<18, 2, 0, c>> : c \in {0, 1, 2, 4, 5, 6}} \cup
  {Word(c) : c \in {1, 2, 5, 11}}
-----------------------------------------------------------------------------
(***************************************************************************)
(* Lists of a type, a length and a value.                                  *)
(***************************************************************************)
\* Where the element at an offset ends: behind the data if its value does not fit.
NextElement(data, offset) ==
  IF Len(data) - offset < 2 THEN Len(data) + 1 ELSE offset + 2 + data[offset + 2]

dji_rsdk_commands_tlv_valid(data) ==
  LET End[offset \in 0..Len(data)] ==
        IF offset = Len(data) THEN TRUE
        ELSE LET e == NextElement(data, offset) IN e <= Len(data) /\ End[e]
  IN Len(data) >= 2 /\ End[0]

\* The answer of the gimbal is data in any shape.
TlvBytes == 0..2
TlvData == UNION {[1..n -> TlvBytes] : n \in 0..MaxTlv}

\* What the lists are: elements one behind the other.
Element == {<<t, 0>> : t \in TlvBytes} \cup {<<t, 1, v>> : t, v \in TlvBytes} \cup
           {<<t, 2, v, w>> : t, v, w \in TlvBytes}
ElementLists ==
  LET Longer[n \in 0..(MaxTlv \div 2)] ==
        IF n = 0 THEN {<<>>} ELSE {l \o e : l \in Longer[n - 1], e \in Element} \cup Longer[n - 1]
  IN Longer[MaxTlv \div 2]
-----------------------------------------------------------------------------
(***************************************************************************)
(* External: the gimbal takes a command.                                   *)
(***************************************************************************)
AxisBit(a) == IF a = "yaw" THEN 2 ELSE IF a = "roll" THEN 4 ELSE 8

\* A position moves the axes whose bit is clear, by an angle if it is not absolute.
Moved(command) ==
  [a \in Axis |->
     IF (command[7] \div AxisBit(a)) % 2 = 1 THEN held.angles[a]
     ELSE IF command[7] % 2 = 1 THEN At(command, AxisOffset(a), 2)
     ELSE Word(ReadSigned(held.angles[a], 0) + ReadSigned(command, AxisOffset(a)))]

NoLimits == [pitch_max |-> 0, pitch_min |-> 0, yaw_max |-> 0, yaw_min |-> 0,
             roll_max |-> 0, roll_min |-> 0]

Init ==
  /\ held = [angles |-> [a \in Axis |-> <<0, 0>>], limits |-> LimitBytes(NoLimits),
             stiffness |-> <<0, 0, 0>>, focus |-> <<0, 0>>, recording |-> 0]
  /\ asked = [angles |-> [a \in Axis |-> 0], limits |-> NoLimits,
              stiffness |-> [a \in Axis |-> 0], focus |-> 0, recording |-> FALSE]
  /\ got = {}
  /\ sends = 0

Send ==
  /\ sends < MaxSends
  /\ sends' = sends + 1
  /\ got' = {}

\* Where the axes are to be; the gimbal does not leave its reach.
Goal(p, absolute, enabled) ==
  [a \in Axis |-> IF a \notin enabled THEN asked.angles[a]
                  ELSE IF absolute THEN p[a] ELSE asked.angles[a] + p[a]]

\* dji_rsdk_commands_ack and dji_rsdk_send_command, with each command. What is out of
\* range is refused before anything is sent.
Commands ==
  /\ Send
  /\ \/ \E p \in Positions, absolute \in BOOLEAN, enabled \in SUBSET Axis :
          /\ p \in Reach
          /\ Goal(p, absolute, enabled) \in Reach
          /\ held' = [held EXCEPT !.angles = Moved(dji_rsdk_set_position(p, absolute, enabled))]
          /\ asked' = [asked EXCEPT !.angles = Goal(p, absolute, enabled)]
     \/ \E l \in Limits :
          /\ l \in LimitRanges
          /\ held' = [held EXCEPT !.limits = Tail(dji_rsdk_set_angle_limits(l))]
          /\ asked' = [asked EXCEPT !.limits = l]
     \/ \E s \in [Axis -> Stiffness] :
          /\ \A a \in Axis : s[a] \in StiffnessRange
          /\ held' = [held EXCEPT !.stiffness = Tail(dji_rsdk_set_motor_stiffness(s))]
          /\ asked' = [asked EXCEPT !.stiffness = s]
     \/ \E p \in FocusPositions :
          /\ p \in FocusRange
          /\ held' = [held EXCEPT !.focus = At(dji_rsdk_set_focus_position(p), 3, 2)]
          /\ asked' = [asked EXCEPT !.focus = p]
     \/ \E on \in BOOLEAN :
          /\ held' = [held EXCEPT !.recording = IF dji_rsdk_camera_action(on) = <<3, 0>> THEN 2 ELSE 0]
          /\ asked' = [asked EXCEPT !.recording = on]
     \/ \E c \in OneWay : UNCHANGED <<held, asked>>

Answer(item, value) ==
  /\ got = {}
  /\ got' = {[item |-> item, value |-> value]}
  /\ UNCHANGED <<held, asked, sends>>

AngleBytes == held.angles["yaw"] \o held.angles["roll"] \o held.angles["pitch"]

Inquiries ==
  \/ \E type \in 0..2 : Answer("angles", dji_rsdk_get_angles(<<type>> \o AngleBytes))
  \/ Answer("limits", dji_rsdk_get_angle_limits(held.limits))
  \/ Answer("stiffness", dji_rsdk_get_motor_stiffness(held.stiffness))
  \/ \E state \in 1..3 :
       Answer("focus", dji_rsdk_get_focus_position(<<21, 0, state>> \o held.focus \o <<0, 0>>))
  \/ Answer("recording", dji_rsdk_camera_get_recording(<<held.recording>>))

\* The report: flags, attitude, joint angles, limits, stiffness.
dji_rsdk_parse_gimbal_push ==
  LET data == <<0>> \o AngleBytes \o AngleBytes \o held.limits \o held.stiffness
  IN \/ \E offset \in {1, 7} : Answer("angles", Angles(data, offset))
     \/ Answer("limits", LimitsFrom(At(data, 13, 6)))
     \/ Answer("stiffness", StiffnessFrom(At(data, 19, 3)))

dji_rsdk_get_user_parameters ==
  /\ sends = 0
  /\ \E data \in TlvData :
       Answer("list", [data |-> data, valid |-> data = <<>> \/ dji_rsdk_commands_tlv_valid(data)])

Next ==
  \/ Commands
  \/ Inquiries
  \/ dji_rsdk_parse_gimbal_push
  \/ dji_rsdk_get_user_parameters

Spec == Init /\ [][Next]_vars
-----------------------------------------------------------------------------
(***************************************************************************)
(* What the host reads, by inquiry or by report, is what it has set: the   *)
(* order of the fields, the sign of the words and the bits of a command    *)
(* agree in the two directions, for every value in range. This is about    *)
(* angles, limits, focus and recording; of the stiffness of the motors it  *)
(* says so for the pitch axis only.                                        *)
(***************************************************************************)
SettingsReadBack ==
  \A g \in got :
    /\ g.item = "angles" => g.value = asked.angles
    /\ g.item = "limits" => g.value = asked.limits
    /\ g.item = "focus" => g.value = asked.focus
    /\ g.item = "recording" => g.value = asked.recording
    /\ g.item = "stiffness" => g.value["pitch"] = asked.stiffness["pitch"]

(***************************************************************************)
(* The stiffness that is read is the one that was set, axis by axis: the   *)
(* header has one type for both directions, with a field for each axis. It *)
(* does not hold: yaw and roll change places.                              *)
(***************************************************************************)
StiffnessReadsBack == \A g \in got : g.item = "stiffness" => g.value = asked.stiffness

\* A list of parameters is taken exactly if it is a list of whole elements.
ListsAreWhole ==
  \A g \in got : g.item = "list" => g.value.valid = (g.value.data \in ElementLists)
=============================================================================
