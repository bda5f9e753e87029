-------------------------------- MODULE Zoom --------------------------------
(***************************************************************************)
(* The lens of the 4K camera moves while a button is held:                 *)
(*   src/control/visca_4k_camera/visca_4k_camera.c                         *)
(* The dispatcher of the buttons (action_request) and the application      *)
(* (stop) change the wishes under the lock; a thread of its own talks to   *)
(* the camera, without the lock, and repeats the movement every 100 ms.    *)
(*                                                                         *)
(* Zoom and focus are two axes with two directions each. A command reaches *)
(* the camera or is lost, whatever the driver reports: the thread only     *)
(* logs the result. The speed is left out, and so are requests that are    *)
(* refused (unknown event, thread not started), which change nothing.      *)
(*                                                                         *)
(* Every change of a wish signals the condition variable on which only the *)
(* thread waits, and the thread tests its condition under the lock, so a   *)
(* wait is a guard here. The application ends the dispatcher before it     *)
(* calls stop (video_pipeline_main.c:867), so nothing is pressed then.     *)
(***************************************************************************)
EXTENDS Naturals

CONSTANT MaxLosses  \* bound: commands that never reach the camera

VARIABLES
  action,          \* the movement pressed last
  running,         \* its button is held
  stop_requested,
  thread_started,
  at,              \* where the thread is
  taken,           \* its copy of action
  last_action,     \* the movement it started last
  motion_active,   \* and has not stopped
  moves,           \* external: what each axis of the lens does
  losses,          \* bound counter: commands lost so far
  stop_lost        \* history: the axes whose last stop was lost

wishes == <<action, running, stop_requested, thread_started>>
thread == <<at, taken, last_action, motion_active>>
lens == <<moves, losses, stop_lost>>
vars == <<wishes, thread, lens>>

Axis == {"zoom", "focus"}
Action == {"tele", "wide", "far", "near"}
Still == "still"

AxisOf(a) == IF a \in {"far", "near"} THEN "focus" ELSE "zoom"
-----------------------------------------------------------------------------
\* visca_4k_camera_init has succeeded; the thread is at its first lock.
Init ==
  /\ action = "tele"
  /\ running = FALSE
  /\ stop_requested = FALSE
  /\ thread_started = TRUE
  /\ at = "top"
  /\ taken = "tele"
  /\ last_action = "tele"
  /\ motion_active = FALSE
  /\ moves = [x \in Axis |-> Still]
  /\ losses = 0
  /\ stop_lost = {}
-----------------------------------------------------------------------------
(***************************************************************************)
(* visca_4k_camera_action_request and visca_4k_camera_stop.                *)
(***************************************************************************)
Press(a) ==
  /\ thread_started /\ ~stop_requested
  /\ action' = a
  /\ running' = TRUE
  /\ UNCHANGED <<stop_requested, thread_started, thread, lens>>

\* A release is one of any button: the action it names is not compared.
Release ==
  /\ thread_started /\ ~stop_requested
  /\ running' = FALSE
  /\ UNCHANGED <<action, stop_requested, thread_started, thread, lens>>

StopRequest ==
  /\ thread_started /\ ~stop_requested
  /\ stop_requested' = TRUE
  /\ running' = FALSE
  /\ UNCHANGED <<action, thread_started, thread, lens>>

\* The thread is joined, the port is closed.
StopReturn ==
  /\ thread_started /\ stop_requested
  /\ at = "done"
  /\ thread_started' = FALSE
  /\ stop_requested' = FALSE
  /\ UNCHANGED <<action, running, thread, lens>>
-----------------------------------------------------------------------------
(***************************************************************************)
(* Commands to the camera.                                                 *)
(***************************************************************************)
Lost ==
  /\ losses < MaxLosses
  /\ losses' = losses + 1
  /\ UNCHANGED moves

\* visca_camera_zoom_stop and visca_camera_focus_stop.
StopAxis(x) ==
  \/ /\ moves' = [moves EXCEPT ![x] = Still]
     /\ stop_lost' = stop_lost \ {x}
     /\ UNCHANGED losses
  \/ /\ Lost
     /\ stop_lost' = stop_lost \cup {x}

\* A mutant: the two axes mixed up.
stop_motion_zoom_only(a) == StopAxis("zoom")

\* visca_4k_camera_stop_motion, of the axis that the action moves.
stop_motion(a) == StopAxis(AxisOf(a))

\* A mutant: the commands of the focus go to the zoom.
send_motion_zoom_only(a) ==
  /\ moves' = [moves EXCEPT !["zoom"] = a]
  /\ UNCHANGED <<losses, stop_lost>>

\* visca_4k_camera_send_motion. A new movement makes up for a lost stop.
send_motion(a) ==
  \/ /\ moves' = [moves EXCEPT ![AxisOf(a)] = a]
     /\ stop_lost' = stop_lost \ {AxisOf(a)}
     /\ UNCHANGED losses
  \/ /\ Lost
     /\ UNCHANGED stop_lost
-----------------------------------------------------------------------------
(***************************************************************************)
(* visca_4k_camera_thread.                                                 *)
(***************************************************************************)
\* It waits for a button or the stop.
TakeAction ==
  /\ at = "top"
  /\ running /\ ~stop_requested
  /\ taken' = action
  /\ at' = "turn"
  /\ UNCHANGED <<last_action, motion_active, wishes, lens>>

\* A mutant: the wait at the top tests running alone.
TakeStopIfHeld ==
  /\ at = "top"
  /\ stop_requested /\ running
  /\ at' = "leaving"
  /\ UNCHANGED <<taken, last_action, motion_active, wishes, lens>>

TakeStop ==
  /\ at = "top"
  /\ stop_requested
  /\ at' = "leaving"
  /\ UNCHANGED <<taken, last_action, motion_active, wishes, lens>>

\* Another movement than before: the old one is stopped first.
Turn ==
  /\ at = "turn"
  /\ IF motion_active /\ taken # last_action THEN stop_motion(last_action) ELSE UNCHANGED lens
  /\ last_action' = taken
  /\ motion_active' = TRUE
  /\ at' = "send"
  /\ UNCHANGED <<taken, wishes>>

SendMotion ==
  /\ at = "send"
  /\ send_motion(taken)
  /\ at' = "held"
  /\ UNCHANGED <<taken, last_action, motion_active, wishes>>

\* A mutant: while the button is held nothing is sent again.
HoldWithoutRepeat ==
  /\ at = "held"
  /\ ~running \/ stop_requested \/ action # taken
  /\ at' = IF ~running /\ motion_active THEN "released" ELSE "top"
  /\ UNCHANGED <<taken, last_action, motion_active, wishes, lens>>

\* The timed wait ends: by a release or the stop, or by the deadline while the
\* button, or another one by now, is held.
Hold ==
  /\ at = "held"
  /\ at' = IF ~running /\ motion_active THEN "released" ELSE "top"
  /\ UNCHANGED <<taken, last_action, motion_active, wishes, lens>>

StopMotion ==
  /\ at = "released"
  /\ stop_motion(last_action)
  /\ motion_active' = FALSE
  /\ at' = "top"
  /\ UNCHANGED <<taken, last_action, wishes>>

\* A mutant: the thread ends as it is.
LeaveMoving ==
  /\ at = "leaving"
  /\ motion_active' = FALSE
  /\ at' = "done"
  /\ UNCHANGED <<taken, last_action, wishes, lens>>

\* The last stop before the thread returns. motion_active is a local of the thread.
Leave ==
  /\ at = "leaving"
  /\ IF motion_active THEN stop_motion(last_action) ELSE UNCHANGED lens
  /\ motion_active' = FALSE
  /\ at' = "done"
  /\ UNCHANGED <<taken, last_action, wishes>>
-----------------------------------------------------------------------------
Terminated == at = "done" /\ ~thread_started /\ UNCHANGED vars

ThreadStep ==
  TakeAction \/ TakeStop \/ Turn \/ SendMotion \/ Hold \/ StopMotion \/ Leave

Next ==
  \/ \E a \in Action : Press(a)
  \/ Release
  \/ StopRequest
  \/ StopReturn
  \/ ThreadStep
  \/ Terminated

Spec == Init /\ [][Next]_vars

\* The thread runs, a serial command ends by its timeout, the wait by its deadline;
\* the application's join returns. No one has to press, to release or to stop.
FairSpec == Spec /\ WF_vars(ThreadStep) /\ WF_vars(StopReturn)

-----------------------------------------------------------------------------
(***************************************************************************)
(* Types and bounds of the wishes, the thread and the lens.                *)
(***************************************************************************)
TypeOK ==
  /\ action \in Action
  /\ running \in BOOLEAN
  /\ stop_requested \in BOOLEAN
  /\ thread_started \in BOOLEAN
  /\ at \in {"top", "turn", "send", "held", "released", "leaving", "done"}
  /\ taken \in Action
  /\ last_action \in Action
  /\ motion_active \in BOOLEAN
  /\ moves \in [Axis -> Action \cup {Still}]
  /\ \A x \in Axis : moves[x] # Still => AxisOf(moves[x]) = x
  /\ losses \in 0..MaxLosses
  /\ stop_lost \subseteq Axis

(***************************************************************************)
(* The lens does only what the thread knows of: but for an axis whose stop *)
(* was lost, an axis that moves is that of last_action, in its direction,  *)
(* and will be stopped. So two axes never move at once, however presses    *)
(* and releases of different buttons mix with the commands on the wire.    *)
(***************************************************************************)
MovesAsRemembered ==
  \A x \in Axis \ stop_lost :
    moves[x] # Still => motion_active /\ moves[x] = last_action

(***************************************************************************)
(* Once visca_4k_camera_stop has joined the thread the lens is at rest,    *)
(* also if the button is still held or was released at the last moment;    *)
(* no one could stop it then, as the port is closed.                       *)
(***************************************************************************)
StillAfterStop ==
  ~thread_started => \A x \in Axis \ stop_lost : moves[x] = Still

(***************************************************************************)
(* A button that is held moves the lens, though commands are lost: the     *)
(* thread repeats the movement.                                            *)
(***************************************************************************)
HeldMoves ==
  \A a \in Action :
    (running /\ action = a)
      ~> (moves[AxisOf(a)] = a \/ ~running \/ action # a \/ stop_requested)

(***************************************************************************)
(* visca_4k_camera_stop returns, whatever the thread was doing.            *)
(***************************************************************************)
StopReturns == stop_requested ~> ~thread_started

(***************************************************************************)
(* visca_4k_camera.h:27: "A release stops the current movement." After a   *)
(* release the lens comes to rest, unless a button is held again or the    *)
(* stop was lost.                                                          *)
(***************************************************************************)
ReleaseStops ==
  \A x \in Axis : ~running ~> (moves[x] = Still \/ running \/ x \in stop_lost)
=============================================================================
