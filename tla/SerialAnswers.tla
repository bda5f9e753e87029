--------------------------- MODULE SerialAnswers ----------------------------
(***************************************************************************)
(* Calls to the laser and to the thermal camera over a serial line, one at *)
(* a time, and the bytes of their answers:                                 *)
(*   src/control/sfl0603_laser/sfl0603_laser.c                             *)
(*   src/control/thermal_camera/thermal_camera.c                           *)
(* Neither driver flushes its input before it sends. The laser keeps a     *)
(* partly read frame from one call to the next and skips frames of other   *)
(* commands; the thermal camera gives up at the first thing that is wrong. *)
(* The data of an answer are one byte: what was set, if the laser echoes a *)
(* setting, or else a measured value, here the number of the call. The     *)
(* laser's check is an exclusive or, the camera's a sum. A byte may come   *)
(* after the deadline of its call, get lost or be damaged in one bit. The  *)
(* devices are external. A byte is its value, and for the history the      *)
(* answer it is of and its place in it.                                    *)
(* The measurements that the laser sends unasked, one after the other,     *)
(* once it measures continuously, answer no call and are left out.         *)
(***************************************************************************)
EXTENDS Naturals, Sequences, SequencesExt

CONSTANTS
  Settings,   \* values that are set; 0 is that of standby
  MaxCalls,   \* bound: calls made
  MaxFaults,  \* bound: bytes lost or damaged
  DamagedBit  \* bound: the bits of a byte that are damaged, one at a time

Kind == {1, 2}  \* of the laser: measurement, setting; of the camera: its subcommands
None == 0

VARIABLES
  device,     \* "laser" or "thermal": it never changes
  kind,       \* of each call made so far
  setting,    \* what each of them sets, 0 if nothing
  waiting,    \* the last call has not returned
  rx,         \* the frame being read
  result,     \* of the call that returned last
  failed,     \* history: the calls that returned an error
  fooled,     \* history: the calls that took bytes for an answer that are not one
  to_device,  \* external: calls the device has not answered
  wire,       \* bytes sent by the device, arrived or still to come
  faults      \* bound counter

vars == <<device, kind, setting, waiting, rx, result, failed, fooled, to_device, wire, faults>>

Current == Len(kind)
SumOf(values) == FoldLeft(LAMBDA a, b : a + b, 0, values) % 256

\* A bit is set if it is set in one of the two.
Xor(a, b) == MapThenSumSet(LAMBDA i : 2^i * (((a \div 2^i) + (b \div 2^i)) % 2), 0..7)
XorOf(values) == FoldLeft(Xor, 0, values)

\* The bytes of the answer to call c.
Bytes(c, values) == [i \in DOMAIN values |-> [of |-> c, at |-> i, value |-> values[i]]]
Values(bytes) == [i \in DOMAIN bytes |-> bytes[i].value]

\* What a damaged byte becomes.
Damaged(byte, bit) == [of |-> None, at |-> 0, value |-> Xor(byte.value, 2^bit)]

\* Laser: head, command, length, data, checksum.
LaserHead == 85
LaserMaxData == 10
IsSetting(k) == device = "laser" /\ k = 2
LaserFrame(c) ==
  LET body == <<LaserHead, kind[c], 1, IF IsSetting(kind[c]) THEN setting[c] ELSE c>>
  IN Bytes(c, Append(body, XorOf(body)))

\* Thermal camera: begin, length, address, class, subcommand, flag, data, checksum, end.
FrameBegin == 240
FrameEnd == 255
DeviceAddress == 54
FlagOk == 3
FlagError == 4
ThermalMaxData == 32
ThermalFrame(c, flag) ==
  LET body == <<DeviceAddress, 1, kind[c], flag, c>>
  IN Bytes(c, <<FrameBegin, 5>> \o body \o <<SumOf(body), FrameEnd>>)

Init ==
  /\ device \in {"laser", "thermal"}
  /\ kind = <<>>
  /\ setting = <<>>
  /\ waiting = FALSE
  /\ rx = <<>>
  /\ result = [call |-> None, status |-> "ok", answer |-> None]
  /\ failed = {}
  /\ fooled = {}
  /\ to_device = <<>>
  /\ wire = <<>>
  /\ faults = 0
-----------------------------------------------------------------------------
\* The device and the line.
Answers ==
  /\ to_device # <<>>
  /\ to_device' = Tail(to_device)
  /\ wire' = wire \o
       (IF device = "laser" THEN LaserFrame(Head(to_device))
        ELSE ThermalFrame(Head(to_device), FlagOk))
  /\ UNCHANGED <<device, kind, setting, waiting, rx, result, failed, fooled, faults>>

Refuses ==
  /\ device = "thermal" /\ to_device # <<>>
  /\ to_device' = Tail(to_device)
  /\ wire' = wire \o ThermalFrame(Head(to_device), FlagError)
  /\ UNCHANGED <<device, kind, setting, waiting, rx, result, failed, fooled, faults>>

Damage ==
  /\ faults < MaxFaults
  /\ faults' = faults + 1
  /\ wire # <<>>
  /\ \/ wire' = Tail(wire)
     \/ \E bit \in DamagedBit : wire' = <<Damaged(Head(wire), bit)>> \o Tail(wire)
  /\ UNCHANGED <<device, kind, setting, waiting, rx, result, failed, fooled, to_device>>
-----------------------------------------------------------------------------
\* sfl0603_laser_request, thermal_camera_command: nothing that has arrived is thrown away.
Send ==
  /\ ~waiting
  /\ Current < MaxCalls
  /\ \E k \in Kind :
       /\ kind' = Append(kind, k)
       /\ \E v \in IF IsSetting(k) THEN Settings ELSE {0} : setting' = Append(setting, v)
  /\ to_device' = Append(to_device, Current + 1)
  /\ waiting' = TRUE
  /\ rx' = IF device = "thermal" THEN <<>> ELSE rx
  /\ UNCHANGED <<device, result, failed, fooled, wire, faults>>

\* These bytes are an answer of the device, from its first to its last byte.
IsAnswer(bytes) == \E c \in 1..Current : bytes \in {LaserFrame(c), ThermalFrame(c, FlagOk)}

Return(status, bytes) ==
  /\ waiting' = FALSE
  /\ fooled' = IF status = "ok" /\ ~IsAnswer(bytes) THEN fooled \cup {Current} ELSE fooled
  /\ result' = [call |-> Current, status |-> status,
                answer |-> IF status = "ok" THEN bytes[1].of ELSE None]
  /\ failed' = IF status = "ok" THEN failed ELSE failed \cup {Current}

GoOn == UNCHANGED <<waiting, result, failed, fooled>>

ReadByte ==
  /\ waiting
  /\ wire # <<>>
  /\ wire' = Tail(wire)
  /\ UNCHANGED <<device, kind, setting, to_device, faults>>

\* A mutant: the echo is not compared.
EchoIgnored(frame) == FALSE

\* sfl0603_laser_expect_echo: a setting is answered by what was set.
WrongEcho(frame) == IsSetting(kind[Current]) /\ frame[4] # setting[Current]

\* sfl0603_laser_read_frame in sfl0603_laser_wait_for_command.
LaserReads ==
  /\ device = "laser"
  /\ ReadByte
  /\ LET bytes == Append(rx, Head(wire))
         frame == Values(bytes)
         n == Len(frame)
         whole == n >= 3 /\ n = frame[3] + 4
         Give(status) == Return(status, bytes)
     IN CASE rx = <<>> /\ frame[1] # LaserHead -> rx' = <<>> /\ GoOn
          [] rx # <<>> /\ n = 3 /\ frame[3] > LaserMaxData ->
               rx' = <<>> /\ Give("protocol")
          [] rx # <<>> /\ whole /\ XorOf(Front(frame)) # Last(frame) ->
               rx' = <<>> /\ Give("checksum")
          [] rx # <<>> /\ whole /\ XorOf(Front(frame)) = Last(frame) ->
               /\ rx' = <<>>
               /\ CASE frame[2] # kind[Current] -> GoOn
                    [] frame[2] = kind[Current] /\ frame[3] # 1 -> Give("protocol")
                    [] OTHER ->
                         IF WrongEcho(frame) THEN Give("protocol")
                         ELSE Give("ok")
          [] OTHER -> rx' = bytes /\ GoOn

\* The last byte was read 100 ms ago, in this call or in one before.
InterbyteTimeout ==
  /\ device = "laser"
  /\ waiting
  /\ rx # <<>>
  /\ rx' = <<>>
  /\ UNCHANGED <<device, kind, setting, waiting, result, failed, fooled, to_device, wire, faults>>

BadHeader(frame) == frame[1] # FrameBegin \/ frame[2] \notin 4..(ThermalMaxData + 4)
Expected(frame) == frame[3] = DeviceAddress /\ frame[4] = 1 /\ frame[5] = kind[Current]

\* thermal_camera_receive_response
ThermalReads ==
  /\ device = "thermal"
  /\ ReadByte
  /\ LET bytes == Append(rx, Head(wire))
         frame == Values(bytes)
         n == Len(frame)
         size == frame[2] + 4
         body == SubSeq(frame, 3, size - 2)
     IN CASE n = 2 /\ BadHeader(frame) -> rx' = <<>> /\ Return("protocol", bytes)
          [] n < 2 \/ (n < size /\ (n = 2 => ~BadHeader(frame))) -> rx' = bytes /\ GoOn
          [] OTHER ->
               /\ rx' = <<>>
               /\ Return(CASE frame[size] # FrameEnd -> "protocol"
                           [] frame[size] = FrameEnd /\ SumOf(body) # frame[size - 1] -> "checksum"
                           [] OTHER ->
                                IF ~Expected(frame) THEN "protocol"
                                ELSE IF frame[6] = FlagError THEN "remote"
                                ELSE IF frame[6] = FlagOk THEN "ok" ELSE "protocol",
                         bytes)

\* The deadline passes, also between two bytes of the answer. The camera's driver loses
\* the bytes it has read, the laser's keeps them.
Timeout ==
  /\ waiting
  /\ Return("timeout", rx)
  /\ rx' = IF device = "thermal" THEN <<>> ELSE rx
  /\ UNCHANGED <<device, kind, setting, to_device, wire, faults>>

\* Closing and opening again throws away what has arrived, not what is still to come.
Reopen ==
  /\ ~waiting
  /\ rx # <<>> \/ wire # <<>>
  /\ rx' = <<>>
  /\ \E n \in 0..Len(wire) : wire' = SubSeq(wire, n + 1, Len(wire))
  /\ UNCHANGED <<device, kind, setting, waiting, result, failed, fooled, to_device, faults>>
-----------------------------------------------------------------------------
Next ==
  \/ Answers
  \/ Refuses
  \/ Damage
  \/ Send
  \/ LaserReads
  \/ InterbyteTimeout
  \/ ThermalReads
  \/ Timeout
  \/ Reopen

Spec == Init /\ [][Next]_vars
-----------------------------------------------------------------------------
(***************************************************************************)
(* A call that succeeds took the whole answer to a call of its own kind,   *)
(* whatever was lost or damaged, unless the check fitted bytes that are    *)
(* not one. It is its own answer unless that, or an error, befell an       *)
(* earlier call: the answer that came too late is then taken by the next   *)
(* call of the kind, and so on until the line is opened again. A setting   *)
(* of the laser is never taken as done on the echo of another value; the   *)
(* late echo of the same value is taken for its own.                       *)
(***************************************************************************)
AnswerIsOwn ==
  result.status = "ok" /\ result.call \notin fooled \cup {None} =>
    /\ result.answer \in 1..result.call
    /\ kind[result.answer] = kind[result.call]
    /\ setting[result.answer] = setting[result.call]
    /\ result.answer # result.call =>
         \E f \in failed \cup fooled : f <= result.answer /\ result.answer < result.call

\* The exclusive or and the sum fit no bytes that are not one answer, with as few faults as
\* are looked at.
ChecksTell == fooled = {}
=============================================================================
