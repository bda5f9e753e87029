---------------------------- MODULE UnlockService ---------------------------
(***************************************************************************)
(* The service of the high speed camera: one thread reads the key board    *)
(* and, when asked, presses the unlock key. Requests made before it gets   *)
(* to it are one request.                                                  *)
(*   src/service/high_speed_camera_service.c                               *)
(* The frames are KeyFrames'. A key press that fails is not repeated.      *)
(***************************************************************************)
EXTENDS Naturals

CONSTANT MaxLosses  \* bound: calls to the serial line that fail

VARIABLES
  opened, running, thread_started, stop_requested, unlock_pending,
  pc,      \* of the thread
  press,   \* the thread's copy of unlock_pending
  main,    \* "idle", or "joining" in the service's stop
  asked,   \* history: accepted requests no press has been sent for
  dropped, \* history: an accepted request was dropped by a stop, or its press failed
  losses   \* bound counter

lifecycle == <<opened, running, thread_started, stop_requested>>
vars == <<lifecycle, unlock_pending, pc, press, main, asked, dropped, losses>>

Init ==
  /\ opened = FALSE /\ running = FALSE /\ thread_started = FALSE /\ stop_requested = FALSE
  /\ unlock_pending = FALSE
  /\ pc = "none" /\ press = FALSE /\ main = "idle"
  /\ asked = FALSE /\ dropped = FALSE /\ losses = 0

request_unlock ==
  /\ running
  /\ unlock_pending' = TRUE
  /\ asked' = TRUE
  /\ UNCHANGED <<lifecycle, pc, press, main, dropped, losses>>

\* A mutant: the request is cleared after the press.
ClearLate == UNCHANGED unlock_pending

ClearPending == unlock_pending' = FALSE

Snapshot ==
  /\ pc = "loop"
  /\ ClearPending
  /\ press' = (unlock_pending /\ ~stop_requested)
  /\ asked' = (asked /\ ~unlock_pending)
  /\ dropped' = (dropped \/ (unlock_pending /\ stop_requested))
  /\ pc' = IF stop_requested THEN "closing" ELSE IF unlock_pending THEN "press" ELSE "read"
  /\ UNCHANGED <<lifecycle, main, losses>>

SendKey ==
  /\ pc = "press"
  /\ pc' = "read"
  /\ press' = FALSE
  /\ \/ UNCHANGED <<dropped, losses>>
     \/ losses < MaxLosses /\ losses' = losses + 1 /\ dropped' = TRUE
  /\ UNCHANGED <<lifecycle, unlock_pending, main, asked>>

ProcessOnce ==
  /\ pc = "read"
  /\ pc' = "loop"
  /\ UNCHANGED <<lifecycle, unlock_pending, press, main, asked, dropped, losses>>

ClosePort ==
  /\ pc = "closing"
  /\ pc' = "closed"
  /\ opened' = FALSE
  /\ UNCHANGED <<running, thread_started, stop_requested, unlock_pending, press, main,
                 asked, dropped, losses>>

\* A request accepted since the stop was seen is forgotten by the next init.
ThreadEnds ==
  /\ pc = "closed"
  /\ pc' = "none"
  /\ running' = FALSE /\ thread_started' = FALSE
  /\ asked' = FALSE
  /\ dropped' = (dropped \/ asked)
  /\ UNCHANGED <<opened, stop_requested, unlock_pending, press, main, losses>>
-----------------------------------------------------------------------------
Main(next) == main = "idle" /\ main' = next /\ UNCHANGED <<press, asked, dropped, losses>>

service_init ==
  /\ Main("idle") /\ ~running
  /\ stop_requested' = FALSE
  /\ unlock_pending' = FALSE
  /\ opened' \in BOOLEAN
  /\ UNCHANGED <<running, thread_started, pc>>

service_start ==
  /\ Main("idle") /\ ~running /\ opened
  /\ \/ running' = TRUE /\ thread_started' = TRUE /\ pc' = "loop" /\ UNCHANGED opened
     \/ opened' = FALSE /\ UNCHANGED <<running, thread_started, pc>>
  /\ UNCHANGED <<stop_requested, unlock_pending>>

service_stop ==
  /\ Main(IF thread_started THEN "joining" ELSE "idle")
  /\ stop_requested' = TRUE
  /\ opened' = (opened /\ thread_started)
  /\ unlock_pending' = (unlock_pending /\ thread_started)
  /\ UNCHANGED <<running, thread_started, pc>>

Joined ==
  /\ main = "joining" /\ pc = "none"
  /\ main' = "idle"
  /\ UNCHANGED <<lifecycle, unlock_pending, pc, press, asked, dropped, losses>>
-----------------------------------------------------------------------------
ThreadStep == Snapshot \/ SendKey \/ ProcessOnce \/ ClosePort \/ ThreadEnds

Next ==
  \/ request_unlock
  \/ ThreadStep
  \/ service_init
  \/ service_start
  \/ service_stop
  \/ Joined

\* The thread is scheduled (its reads take at most 100 ms) and pthread_join returns.
Fairness == WF_vars(ThreadStep) /\ WF_vars(Joined)

Spec == Init /\ [][Next]_vars /\ Fairness
-----------------------------------------------------------------------------
(***************************************************************************)
(* Requests made together are pressed once: an unlock is pressed only for  *)
(* a request made since the last one was taken.                            *)
(***************************************************************************)
OnePressPerRequest == [][pc' = "press" /\ pc # "press" => asked /\ ~asked']_vars

\* The service is being stopped.
Stopping == main = "joining"
=============================================================================
