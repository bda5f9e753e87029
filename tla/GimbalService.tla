---------------------------- MODULE GimbalService ---------------------------
(***************************************************************************)
(* The gimbal service: operators press and release directions, or ask for  *)
(* the centre, and one thread, ten times a second, sends what changed and  *)
(* reads the angles for the OSD. A direction that nobody confirms for      *)
(* 1200 ms is released by a watchdog.                                      *)
(*   src/service/dji_rsdk_service.c                                        *)
(* The generations are kept as whether the last one has been applied. A    *)
(* command that fails may have been executed (RsdkLink models the calls).  *)
(* A speed is the sign of each axis.                                       *)
(***************************************************************************)
EXTENDS Integers, Sequences

CONSTANT MaxLosses  \* bound: commands and readings, of the clock too, that fail

Direction == {"up", "down", "left", "right"}
Still == <<0, 0>>
Centre == <<2, 2>>

VARIABLES
  direction_pressed, center_requested,
  pending,        \* control_generation # applied_generation
  expired,        \* more than 1200 ms since last_control_update
  thread_started, initialized, stop_requested,
  pc,             \* of the thread
  command,        \* the thread's copy of what to send
  main,           \* "idle", or "joining" in dji_rsdk_service_stop
  osd,            \* the angles shown are valid
  gimbal,         \* external: the last command executed
  failed,         \* history: the last command sent failed
  losses          \* bound counter

control == <<direction_pressed, center_requested, pending, expired>>
lifecycle == <<thread_started, initialized, stop_requested>>
vars == <<control, lifecycle, pc, command, main, osd, gimbal, failed, losses>>

Init ==
  /\ direction_pressed = {} /\ center_requested = FALSE /\ pending = FALSE /\ expired = FALSE
  /\ thread_started = FALSE /\ initialized = FALSE /\ stop_requested = FALSE
  /\ pc = "none" /\ command = Still /\ main = "idle"
  /\ osd = FALSE /\ gimbal = Still /\ failed = FALSE /\ losses = 0

Axis(plus, minus, pressed) ==
  (IF plus \in pressed THEN 1 ELSE 0) - (IF minus \in pressed THEN 1 ELSE 0)
SpeedOf(pressed) == <<Axis("right", "left", pressed), Axis("up", "down", pressed)>>

\* clock_gettime fails.
NoClock == losses < MaxLosses /\ losses' = losses + 1

\* last_control_update, which is left as it was if there is no time.
Confirmed == \/ expired' = FALSE /\ UNCHANGED losses
             \/ NoClock /\ UNCHANGED expired
-----------------------------------------------------------------------------
\* Operators, and the clock.
set_gimbal_direction(d, pressed) ==
  /\ thread_started
  /\ direction_pressed' = IF pressed THEN direction_pressed \cup {d}
                          ELSE direction_pressed \ {d}
  /\ center_requested' = FALSE
  /\ pending' = TRUE
  /\ Confirmed
  /\ UNCHANGED <<lifecycle, pc, command, main, osd, gimbal, failed>>

center_gimbal ==
  /\ thread_started
  /\ direction_pressed' = {}
  /\ center_requested' = TRUE
  /\ pending' = TRUE
  /\ Confirmed
  /\ UNCHANGED <<lifecycle, pc, command, main, osd, gimbal, failed>>

Elapse ==
  /\ ~expired
  /\ expired' = TRUE
  /\ UNCHANGED <<direction_pressed, center_requested, pending, lifecycle, pc, command, main,
                 osd, gimbal, failed, losses>>
-----------------------------------------------------------------------------
\* The thread, dji_rsdk_osd_service_thread. Without a clock it ends at once, and nobody
\* clears thread_started.
ThreadBegins ==
  /\ pc = "begin"
  /\ \/ pc' = "loop" /\ UNCHANGED <<osd, losses>>
     \/ NoClock /\ pc' = "none" /\ osd' = FALSE
  /\ UNCHANGED <<control, lifecycle, command, main, gimbal, failed>>

\* dji_rsdk_apply_pending_gimbal_control, up to the unlock.

\* A mutant: the watchdog releases only what has not been sent.
WatchdogLate == expired /\ direction_pressed # {} /\ pending

Watchdog == expired /\ direction_pressed # {}

ClockFails ==
  /\ pc = "loop" /\ ~stop_requested
  /\ NoClock
  /\ pc' = "angles"
  /\ UNCHANGED <<control, lifecycle, command, main, osd, gimbal, failed>>

Apply ==
  /\ pc = "loop" /\ ~stop_requested
  /\ LET pressed == IF Watchdog THEN {} ELSE direction_pressed
     IN IF Watchdog \/ pending
        THEN /\ direction_pressed' = pressed
             /\ pending' = FALSE
             /\ center_requested' = FALSE
             /\ command' = IF center_requested THEN Centre ELSE SpeedOf(pressed)
             /\ pc' = "send"
        ELSE /\ pc' = "angles"
             /\ UNCHANGED <<direction_pressed, pending, center_requested, command>>
  /\ UNCHANGED <<expired, lifecycle, main, osd, gimbal, failed, losses>>

Send(what) ==
  \/ gimbal' = what /\ failed' = FALSE /\ UNCHANGED losses
  \/ /\ losses < MaxLosses /\ losses' = losses + 1
     /\ failed' = TRUE
     /\ gimbal' \in {gimbal, what}

SendCommand ==
  /\ pc = "send"
  /\ pc' = "angles"
  /\ Send(command)
  /\ UNCHANGED <<control, lifecycle, command, main, osd>>

ReadAngles ==
  /\ pc = "angles"
  /\ pc' = "loop"
  /\ \/ osd' = TRUE /\ UNCHANGED losses
     \/ osd' = FALSE /\ losses < MaxLosses /\ losses' = losses + 1
  /\ UNCHANGED <<control, lifecycle, command, main, gimbal, failed>>

\* A mutant: the thread ends without stopping the gimbal.
LastNone == UNCHANGED <<gimbal, failed, losses>>

LastStop == Send(Still)

ThreadEnds ==
  /\ pc = "loop" /\ stop_requested
  /\ pc' = "none"
  /\ LastStop
  /\ osd' = FALSE
  /\ UNCHANGED <<control, lifecycle, command, main>>
-----------------------------------------------------------------------------
\* The main thread. Opening the bus and creating the thread may fail.
Main(next) ==
  /\ main = "idle" /\ main' = next
  /\ UNCHANGED <<expired, command, osd, gimbal, failed, losses>>

service_init ==
  /\ Main("idle")
  /\ ~thread_started
  /\ stop_requested' = FALSE
  /\ direction_pressed' = {} /\ center_requested' = FALSE /\ pending' = FALSE
  /\ initialized' \in BOOLEAN
  /\ UNCHANGED <<thread_started, pc>>

service_start ==
  /\ Main("idle")
  /\ ~thread_started /\ initialized
  /\ \/ thread_started' = TRUE /\ pc' = "begin" /\ UNCHANGED initialized
     \/ initialized' = FALSE /\ UNCHANGED <<thread_started, pc>>
  /\ UNCHANGED <<direction_pressed, center_requested, pending, stop_requested>>

service_stop ==
  /\ Main(IF thread_started THEN "joining" ELSE "idle")
  /\ stop_requested' = TRUE
  /\ initialized' = (initialized /\ thread_started)
  /\ UNCHANGED <<direction_pressed, center_requested, pending, thread_started, pc>>

Joined ==
  /\ main = "joining" /\ pc = "none"
  /\ main' = "idle"
  /\ thread_started' = FALSE /\ stop_requested' = FALSE /\ initialized' = FALSE
  /\ UNCHANGED <<control, pc, command, osd, gimbal, failed, losses>>
-----------------------------------------------------------------------------
ThreadStep == ThreadBegins \/ Apply \/ SendCommand \/ ReadAngles \/ ThreadEnds

Next ==
  \/ \E d \in Direction, pressed \in BOOLEAN : set_gimbal_direction(d, pressed)
  \/ center_gimbal
  \/ Elapse
  \/ ThreadStep \/ ClockFails
  \/ service_init
  \/ service_start
  \/ service_stop
  \/ Joined

\* The thread is scheduled and its calls time out; pthread_join returns; time passes.
Fairness == WF_vars(ThreadStep) /\ WF_vars(Joined) /\ WF_vars(Elapse)

Spec == Init /\ [][Next]_vars /\ Fairness
-----------------------------------------------------------------------------
(***************************************************************************)
(* What has been applied is what is pressed, or the centre when nothing    *)
(* is, unless the last command failed: it is not sent again. A service     *)
(* that is not running has left the gimbal still, with the same exception. *)
(***************************************************************************)
MovesAsPressed ==
  /\ thread_started /\ pc \in {"loop", "angles"} /\ ~pending /\ ~failed =>
       \/ gimbal = SpeedOf(direction_pressed)
       \/ gimbal = Centre /\ direction_pressed = {}
  /\ ~thread_started /\ ~failed => gimbal = Still

(***************************************************************************)
(* A gimbal that moves does not go on for ever without an operator: the    *)
(* watchdog stops it, unless an operator acts again or a command fails.    *)
(***************************************************************************)
Moving == gimbal \notin {Still, Centre}
DeadManStops ==
  thread_started /\ Moving /\ expired /\ ~failed
    ~> ~Moving \/ ~expired \/ failed

\* The service is being stopped.
Stopping == main = "joining"
=============================================================================
