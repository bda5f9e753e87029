------------------------------- MODULE Devices ------------------------------
(***************************************************************************)
(* The components with a thread of their own that is started and stopped:  *)
(* the services of the devices, the zoom of the 4K camera, the receiver of *)
(* the ground station's commands, and the recorder with its own camera     *)
(* (recording and, apart, taking pictures), which this module extends.     *)
(* They share no state, so a behaviour follows one of them, unit, and the  *)
(* others stay as they are initialised; side by side they would only       *)
(* multiply the states.                                                    *)
(*                                                                         *)
(* Bounds of the run. A queue of two is empty, half full and full; one     *)
(* lost call is enough to leave a device as nobody wanted it, and a second *)
(* opening enough to find what the first one left.                         *)
(***************************************************************************)
EXTENDS Mp4Recorder

CONSTANTS
  MaxLensLosses, \* bound: commands that do not reach the lens
  MaxOpens,      \* bound: times a service is initialised
  Peer,          \* ground stations
  MaxCommands,   \* bound: commands they send
  MaxFaults      \* bound: calls of the operating system that fail

\* A queue has room for a request.
ASSUME DevicesAssumption == Depth \in Nat \ {0} /\ MaxLensLosses \in Nat

VARIABLES
  unit,
  d_service, d_opened, d_running, d_thread_started, d_stop_requested,
  d_queue, d_pc, d_signalled, d_inHand, d_active, d_main, d_lamp_due,
  d_measuring, d_error, d_device, d_failed, d_late, d_losses, d_opens,
  g_direction_pressed, g_center_requested, g_pending, g_expired,
  g_thread_started, g_initialized, g_stop_requested, g_pc, g_command, g_main,
  g_osd, g_gimbal, g_failed, g_losses,
  u_opened, u_running, u_thread_started, u_stop_requested, u_unlock_pending,
  u_pc, u_press, u_main, u_asked, u_dropped, u_losses,
  a_transport, a_pc, a_open, a_peer, a_parser_status, a_inbox, a_in_work,
  a_acked, a_main, a_stop_requested, a_sent, a_faults,
  z_action, z_running, z_stop_requested, z_thread_started, z_at, z_taken,
  z_last_action, z_motion_active, z_moves, z_losses, z_stop_lost

D == INSTANCE DeviceServices WITH
  service <- d_service,
  opened <- d_opened, running <- d_running,
  thread_started <- d_thread_started, stop_requested <- d_stop_requested,
  queue <- d_queue, pc <- d_pc, signalled <- d_signalled, inHand <- d_inHand,
  active <- d_active, main <- d_main, lamp_due <- d_lamp_due,
  measuring <- d_measuring, error <- d_error, device <- d_device,
  failed <- d_failed, late <- d_late, losses <- d_losses, opens <- d_opens

G == INSTANCE GimbalService WITH
  direction_pressed <- g_direction_pressed,
  center_requested <- g_center_requested, pending <- g_pending,
  expired <- g_expired, thread_started <- g_thread_started,
  initialized <- g_initialized, stop_requested <- g_stop_requested,
  pc <- g_pc, command <- g_command, main <- g_main, osd <- g_osd,
  gimbal <- g_gimbal, failed <- g_failed, losses <- g_losses

U == INSTANCE UnlockService WITH
  opened <- u_opened, running <- u_running,
  thread_started <- u_thread_started, stop_requested <- u_stop_requested,
  unlock_pending <- u_unlock_pending, pc <- u_pc, press <- u_press,
  main <- u_main, asked <- u_asked, dropped <- u_dropped, losses <- u_losses

A == INSTANCE AirTransport WITH
  transport <- a_transport, pc <- a_pc, open <- a_open, peer <- a_peer,
  parser_status <- a_parser_status, inbox <- a_inbox, in_work <- a_in_work,
  acked <- a_acked, main <- a_main, stop_requested <- a_stop_requested,
  sent <- a_sent, faults <- a_faults

Z == INSTANCE Zoom WITH
  MaxLosses <- MaxLensLosses, action <- z_action, running <- z_running,
  stop_requested <- z_stop_requested, thread_started <- z_thread_started,
  at <- z_at, taken <- z_taken, last_action <- z_last_action,
  motion_active <- z_motion_active, moves <- z_moves, losses <- z_losses,
  stop_lost <- z_stop_lost
-----------------------------------------------------------------------------
d_vars ==
  <<d_service, d_opened, d_running, d_thread_started, d_stop_requested,
  d_queue, d_pc, d_signalled, d_inHand, d_active, d_main, d_lamp_due,
  d_measuring, d_error, d_device, d_failed, d_late, d_losses, d_opens>>
g_vars ==
  <<g_direction_pressed, g_center_requested, g_pending, g_expired,
  g_thread_started, g_initialized, g_stop_requested, g_pc, g_command, g_main,
  g_osd, g_gimbal, g_failed, g_losses>>
u_vars ==
  <<u_opened, u_running, u_thread_started, u_stop_requested,
  u_unlock_pending, u_pc, u_press, u_main, u_asked, u_dropped, u_losses>>
a_vars ==
  <<a_transport, a_pc, a_open, a_peer, a_parser_status, a_inbox, a_in_work,
  a_acked, a_main, a_stop_requested, a_sent, a_faults>>
z_vars ==
  <<z_action, z_running, z_stop_requested, z_thread_started, z_at, z_taken,
  z_last_action, z_motion_active, z_moves, z_losses, z_stop_lost>>

DevicesInit ==
  /\ Init /\ D!Init /\ G!Init /\ U!Init /\ A!Init /\ Z!Init
  /\ unit \in {"zoom", "service", "gimbal", "unlock", "air", "mp4", "picture"}
  /\ unit # "service" => d_service = "motor"
  /\ unit # "air" => a_transport = "udp"

\* The recorder records, or else takes pictures.
RecorderNext ==
  /\ Next
  /\ IF unit = "mp4" THEN UNCHANGED picture ELSE ~record_start_request'

DevicesNext ==
  /\ UNCHANGED unit
  /\ IF unit = "zoom" THEN Z!Next ELSE UNCHANGED z_vars
  /\ IF unit = "service" THEN D!Next ELSE UNCHANGED d_vars
  /\ IF unit = "gimbal" THEN G!Next ELSE UNCHANGED g_vars
  /\ IF unit = "unlock" THEN U!Next ELSE UNCHANGED u_vars
  /\ IF unit = "air" THEN A!Next ELSE UNCHANGED a_vars
  /\ IF unit \in {"mp4", "picture"} THEN RecorderNext ELSE UNCHANGED vars

\* The fairness each of them states.
DevicesFairness ==
  /\ WF_z_vars(unit = "zoom" /\ Z!ThreadStep) /\ WF_z_vars(unit = "zoom" /\ Z!StopReturn)
  /\ WF_d_vars(unit = "service" /\ D!ThreadStep) /\ WF_d_vars(unit = "service" /\ D!Joined)
  /\ WF_g_vars(unit = "gimbal" /\ G!ThreadStep) /\ WF_g_vars(unit = "gimbal" /\ G!Joined)
  /\ WF_g_vars(unit = "gimbal" /\ G!Elapse)
  /\ WF_u_vars(unit = "unlock" /\ U!ThreadStep) /\ WF_u_vars(unit = "unlock" /\ U!Joined)
  /\ WF_a_vars(unit = "air" /\ A!ThreadStep) /\ WF_a_vars(unit = "air" /\ A!Joined)
  /\ WF_vars(unit \in {"mp4", "picture"} /\ Runs /\ CaptureStep)
  /\ WF_vars(unit \in {"mp4", "picture"} /\ Runs /\ EncodeStep)
  /\ WF_vars(unit \in {"mp4", "picture"} /\ Runs /\ CallerStep)

DevicesSpec ==
  DevicesInit /\ [][DevicesNext]_<<unit, vars, d_vars, g_vars, u_vars, a_vars, z_vars>>
              /\ DevicesFairness
-----------------------------------------------------------------------------
(***************************************************************************)
(* A service that rests leaves nothing on: no relay of the motor closed,   *)
(* no laser emitting, no lamp lit, no descriptor of a connection open,     *)
(* unless the call that was to switch it off failed.                       *)
(***************************************************************************)
NothingLeftOn == D!QuietAtRest /\ A!NothingLeftOpen

(***************************************************************************)
(* What moves is the one movement the thread of the zoom will stop, and    *)
(* the lens is at rest when the zoom has been stopped.                     *)
(***************************************************************************)
MovesAsRemembered == Z!MovesAsRemembered
StillAfterStop == Z!StillAfterStop

(***************************************************************************)
(* The gimbal does what is pressed, the last thing first applied, and is   *)
(* still when its service has stopped, unless a command to it failed.      *)
(***************************************************************************)
GimbalFollows == G!MovesAsPressed

(***************************************************************************)
(* A button that is held moves the lens, though commands are lost; and a   *)
(* gimbal that nobody steers any more is stopped by the watchdog.          *)
(***************************************************************************)
HeldMoves == Z!HeldMoves /\ G!DeadManStops

(***************************************************************************)
(* A command of a ground station is answered to the station that sent it,  *)
(* whichever connected or sent before or since.                            *)
(***************************************************************************)
AnswersTheSender == A!AnswersTheSender

(***************************************************************************)
(* The services of the motor, the laser and the thermal camera hand on     *)
(* their requests as ServicePipe says: in order, each at most once, none   *)
(* after the stop, across restarts of the service; and the high speed      *)
(* camera is unlocked once for the requests made together.                 *)
(***************************************************************************)
ServesInOrder == D!ServesInOrder /\ U!OnePressPerRequest

(***************************************************************************)
(* A request that was accepted is not left waiting by a thread that        *)
(* sleeps, a pressed unlock is carried out, and a recording asked for      *)
(* begins, unless the service stops.                                       *)
(***************************************************************************)
AnyWaiting == D!Waiting \/ u_asked \/ Waiting
RequestsServed == AnyWaiting ~> ~AnyWaiting

(***************************************************************************)
(* Stopping any of the services returns, whatever its thread was doing,    *)
(* its peers send and its operators press, and so does a recording that    *)
(* was asked to end.                                                       *)
(***************************************************************************)
AnyStopping == D!Stopping \/ G!Stopping \/ U!Stopping \/ A!Stopping \/ Stopping
StopsReturn ==
  z_stop_requested \/ AnyStopping
    ~> IF unit = "zoom" THEN ~z_thread_started ELSE ~AnyStopping
=============================================================================
