----------------------------- MODULE AirActions -----------------------------
(***************************************************************************)
(* What a button does on board. A command that mavlink_web_decode_command  *)
(* lets through asks one service for one thing: the video control, whose   *)
(* worker serves its queue later (ControlQueue), or a device service.      *)
(*   src/control/mavlink/mavlink_control_actions.c                         *)
(*   src/control/mavlink/mavlink_control_service.c (names and results)     *)
(* Only one thread handles commands. A service accepts or refuses; the     *)
(* values of a button are left out but for those that are refused.         *)
(***************************************************************************)
EXTENDS Naturals, Sequences

CONSTANTS
  Channels,   \* vp_channel_count
  MaxWaiting, \* bound: requests that wait for the worker
  MaxPresses  \* bound: buttons handled

Hold == {"zoom_in", "zoom_out", "focus_in", "focus_out",
         "gimbal_up", "gimbal_down", "gimbal_left", "gimbal_right"}
Click == {"video_switch", "snapshot", "record_toggle", "trigger", "unlock",
          "thermal_pseudocolor", "laser_single", "laser_continuous", "osd_enabled",
          "gimbal_center"}
Service == {"zoom", "motor", "gimbal", "unlock", "thermal", "laser"}
Nothing == <<"nothing", "nothing">>

VARIABLES
  current, recording, osd,  \* the pipeline: vp_stream_current, any channel records, OSD shown
  lamp,                     \* the OSD says that the laser measures continuously
  waiting,                  \* requests queued at the video control
  asked,                    \* what each device service accepted last
  down,                     \* the hold buttons whose last accepted event is a press
  lit,                      \* history: the last accepted continuous request was a start
  switches, toggles,        \* history: switch and toggle presses accepted
  overlapped,               \* history: one of them found a request waiting, or failed
  presses                   \* bound counter

pipeline == <<current, recording, osd>>
history == <<lit, switches, toggles, overlapped>>
vars == <<pipeline, lamp, waiting, asked, down, history, presses>>

Init ==
  /\ current = 0 /\ recording = FALSE /\ osd = TRUE /\ lamp = FALSE
  /\ waiting = <<>>
  /\ asked = [s \in Service |-> Nothing]
  /\ down = {} /\ lit = FALSE
  /\ switches = 0 /\ toggles = 0 /\ overlapped = FALSE
  /\ presses = 0
-----------------------------------------------------------------------------
\* vp_control_*_async: accepted, or refused by a control that is full of memory or stops.
Submit(request) ==
  /\ Len(waiting) < MaxWaiting
  /\ waiting' = Append(waiting, request)
  /\ UNCHANGED <<pipeline, lamp, asked, down, lit>>

Refused == UNCHANGED <<pipeline, lamp, waiting, asked, down, history>>

Overlaps == overlapped' = (overlapped \/ waiting # <<>>)

\* The state a request starts from is read when it is submitted.
VideoSwitch ==
  /\ Submit([op |-> "select", to |-> (current + 1) % Channels])
  /\ switches' = switches + 1
  /\ Overlaps
  /\ UNCHANGED toggles

Snapshot ==
  /\ Submit([op |-> "snapshot", to |-> current])
  /\ UNCHANGED <<switches, toggles, overlapped>>

\* A mutant: a toggle always starts.
ToggleStarts == "start_all"

ToggleTo == IF recording THEN "stop_all" ELSE "start_all"

RecordToggle ==
  /\ Submit([op |-> ToggleTo, to |-> 0])
  /\ toggles' = toggles + 1
  /\ Overlaps
  /\ UNCHANGED switches

OsdEnabled ==
  /\ \E on \in {0, 1} : Submit([op |-> "osd", to |-> on])
  /\ UNCHANGED <<switches, toggles, overlapped>>

\* A device service accepts.
Ask(service, what) ==
  /\ asked' = [asked EXCEPT ![service] = what]
  /\ UNCHANGED <<pipeline, waiting, switches, toggles, overlapped>>

Service_(b) ==
  CASE b \in {"zoom_in", "zoom_out"} -> "zoom"
    [] b \in {"focus_in", "focus_out"} -> "motor"
    [] OTHER -> "gimbal"

\* A mutant: any event but a press of the focus buttons moves the lens.
AsksMoves(b, event) == IF Service_(b) = "motor" THEN <<b, "press">> ELSE <<b, event>>

\* A release is passed on as such to the camera and the gimbal, as a stop to the motor.
Asks(b, event) == <<b, event>>

HoldButton(b, event) ==
  /\ Ask(Service_(b), Asks(b, event))
  /\ down' = IF event = "press" THEN down \cup {b} ELSE down \ {b}
  /\ UNCHANGED <<lamp, lit>>

OneShot(service, b) == Ask(service, <<b, "click">>) /\ UNCHANGED <<lamp, down, lit>>

\* A mutant: the lamp is lit whatever was asked.
LampAlways(on) == TRUE

Lamp(on) == on

LaserContinuous(on) ==
  /\ Ask("laser", <<IF on THEN "continuous" ELSE "standby", "click">>)
  /\ lamp' = Lamp(on)
  /\ lit' = on
  /\ UNCHANGED down

\* The centre is asked for by a click: the gimbal service forgets the pressed directions.
GimbalCenter ==
  /\ Ask("gimbal", <<"gimbal_center", "click">>)
  /\ down' = {b \in down : Service_(b) # "gimbal"}
  /\ UNCHANGED <<lamp, lit>>

actions_handle ==
  /\ presses < MaxPresses /\ presses' = presses + 1
  /\ \/ VideoSwitch \/ Snapshot \/ RecordToggle \/ OsdEnabled
     \/ \E b \in Hold, event \in {"press", "release"} : HoldButton(b, event)
     \/ OneShot("motor", "trigger") \/ OneShot("unlock", "unlock")
     \/ OneShot("thermal", "thermal_pseudocolor") \/ OneShot("laser", "laser_single")
     \/ \E on \in BOOLEAN : LaserContinuous(on)
     \/ GimbalCenter
     \/ Refused  \* by the service, or the value is out of range

\* vp_control_execute_request: the worker serves a request. Starting may fail, and so may
\* selecting.
WorkerExecutes ==
  /\ waiting # <<>>
  /\ waiting' = Tail(waiting)
  /\ LET r == Head(waiting)
     IN CASE r.op = "start_all" -> recording' = TRUE /\ UNCHANGED <<current, osd, overlapped>>
          [] r.op = "stop_all" -> recording' = FALSE /\ UNCHANGED <<current, osd, overlapped>>
          [] r.op = "select" -> current' = r.to /\ UNCHANGED <<recording, osd, overlapped>>
          [] r.op = "osd" -> osd' = (r.to = 1) /\ UNCHANGED <<current, recording, overlapped>>
          [] OTHER -> UNCHANGED <<pipeline, overlapped>>
  /\ UNCHANGED <<lamp, asked, down, lit, switches, toggles, presses>>

WorkerFails ==
  /\ waiting # <<>>
  /\ waiting' = Tail(waiting)
  /\ overlapped' = TRUE
  /\ UNCHANGED <<pipeline, lamp, asked, down, lit, switches, toggles, presses>>

Next == actions_handle \/ WorkerExecutes \/ WorkerFails

Spec == Init /\ [][Next]_vars
-----------------------------------------------------------------------------
(***************************************************************************)
(* Presses count: once nothing waits, the stream has moved on by one       *)
(* channel per switch and the recording is inverted by every toggle -      *)
(* unless a press found a request still waiting, as then both start from   *)
(* the same state. A motor that was not asked for anything else since its  *)
(* button was let go was told to stop. The lamp of the continuous          *)
(* measurement is lit as the laser was last asked.                         *)
(***************************************************************************)
PressesCount ==
  /\ waiting = <<>> /\ ~overlapped =>
       /\ current = switches % Channels
       /\ recording <=> toggles % 2 = 1
  /\ \A b \in Hold :
       asked[Service_(b)] = <<b, "press">> => b \in down
  /\ lamp <=> lit
=============================================================================
