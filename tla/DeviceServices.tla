--------------------------- MODULE DeviceServices ---------------------------
(***************************************************************************)
(* The services of the lens motor, the laser and the thermal camera: a     *)
(* bounded queue, a mutex, a condition variable and one thread that owns   *)
(* the device. The three differ in what a request does.                    *)
(*   src/service/motor_service.c, sfl0603_laser_service.c,                 *)
(*   thermal_camera_service.c                                              *)
(* The main thread initialises, starts and stops a service; any thread     *)
(* makes requests. A call to a device fails when the device or its answer  *)
(* is lost: it may then have done what was asked (SerialAnswers and Modbus *)
(* model the calls). The OSD writes of one measurement are one step.       *)
(***************************************************************************)
EXTENDS Naturals, Sequences

CONSTANTS
  Depth,     \* capacity of the queue: 8, 8 and 16 in the code
  MaxLosses, \* bound: calls to the device that fail
  MaxOpens   \* bound: times the service is initialised

None == "none"
Requests == [motor |-> {"forward", "backward", "stop", "trigger"},
             laser |-> {"single", "continuous", "standby"},
             thermal |-> {"white_hot", "black_hot"}]

VARIABLES
  service,        \* which of the three: it never changes
  opened, running, thread_started, stop_requested,
  queue,
  pc,             \* of the thread
  signalled,      \* the thread waits and has been woken
  inHand,         \* the request the thread serves, or None
  active,         \* laser: continuous_active of the thread
  main,           \* "idle", or "joining" in the service's stop
  lamp_due,       \* a single measurement is queued, its lamp not yet lit
  measuring, error, \* the lamps of the OSD
  device,         \* external: what the device does
  failed,         \* history: the calls that failed, since the service was opened
  late,           \* history: the measurement was over when its lamp was lit, or was dropped
  losses, opens   \* bound counters

lifecycle == <<opened, running, thread_started, stop_requested>>
worker == <<pc, signalled, inHand, active>>
osd == <<lamp_due, measuring, error, late>>
bounds == <<losses, opens>>
vars == <<service, lifecycle, queue, worker, main, osd, device, failed, bounds>>

Init ==
  /\ service \in DOMAIN Requests
  /\ opened = FALSE /\ running = FALSE /\ thread_started = FALSE /\ stop_requested = FALSE
  /\ queue = <<>>
  /\ pc = "none" /\ signalled = FALSE /\ inHand = None /\ active = FALSE
  /\ main = "idle"
  /\ lamp_due = FALSE /\ measuring = FALSE /\ error = FALSE /\ late = FALSE
  /\ device = [moving |-> "stop", coil |-> FALSE, emitting |-> FALSE, palette |-> "white_hot"]
  /\ failed = {}
  /\ losses = 0 /\ opens = 0

\* A call to the device: it does what it is asked or not, and answers or not.
\* Only when it did and answered does the call succeed.
Call(name, done, Ok, Fails) ==
  \/ Ok /\ device' = done /\ UNCHANGED <<failed, losses>>
  \/ /\ losses < MaxLosses
     /\ losses' = losses + 1
     /\ failed' = failed \cup {name}
     /\ device' \in {device, done}
     /\ Fails
-----------------------------------------------------------------------------
(***************************************************************************)
(* Requests. motor_service_push_request, sfl0603_laser_service_push_request*)
(* and thermal_camera_service_request_pseudocolor: refused when the        *)
(* service does not run, stops, or is full.                                *)
(***************************************************************************)
\* A mutant: nobody is woken.
NoSignal == FALSE

Signal == pc = "wait"

push_request(r) ==
  /\ running /\ ~stop_requested
  /\ Len(queue) < Depth
  /\ queue' = Append(queue, r)
  /\ signalled' = Signal
  /\ UNCHANGED <<service, lifecycle, pc, inHand, active, main, device, failed, bounds>>

request ==
  \E r \in Requests[service] \ {"single"} :
    push_request(r) /\ UNCHANGED osd

\* The lamp is lit when the request is already queued.
request_single_measure ==
  /\ service = "laser"
  /\ ~lamp_due
  /\ push_request("single")
  /\ lamp_due' = TRUE
  /\ UNCHANGED <<measuring, error, late>>

MeasurementPending ==
  inHand = "single" \/ \E i \in DOMAIN queue : queue[i] = "single"

set_measuring_osd ==
  /\ lamp_due
  /\ lamp_due' = FALSE
  /\ measuring' = TRUE
  /\ late' = ~MeasurementPending
  /\ UNCHANGED <<service, lifecycle, queue, worker, main, error, device, failed, bounds>>
-----------------------------------------------------------------------------
(***************************************************************************)
(* The thread.                                                             *)
(***************************************************************************)
Thread == UNCHANGED <<service, lifecycle, main, opens>>
NoCall == UNCHANGED <<device, failed, losses>>

\* A mutant: the queue is served to its end before the stop is seen.
StopSeenLast == stop_requested /\ queue = <<>>

StopSeen == stop_requested

\* The top of the loop, entered again after a wake-up. The wait of a laser that
\* measures continuously is timed and is followed by a reading.
Loop ==
  /\ CASE StopSeen -> pc' = "leave" /\ UNCHANGED <<queue, inHand>>
       [] ~StopSeen /\ queue # <<>> ->
            /\ pc' = "serve"
            /\ inHand' = Head(queue)
            /\ queue' = Tail(queue)
       [] OTHER ->
            /\ pc' = IF pc = "wait" /\ active THEN "read" ELSE "wait"
            /\ UNCHANGED <<queue, inHand>>
  /\ signalled' = FALSE
  /\ Thread /\ NoCall /\ UNCHANGED <<active, osd>>

TakeRequest == pc = "loop" /\ Loop
Woken == pc = "wait" /\ (signalled \/ active) /\ Loop
SpuriousWakeup == pc = "wait" /\ ~signalled /\ ~active /\ Loop

Handled == pc' = "loop" /\ inHand' = None /\ UNCHANGED active

push_osd == measuring' = FALSE /\ error' = FALSE /\ late' = FALSE /\ UNCHANGED lamp_due
set_error_osd == measuring' = FALSE /\ error' = TRUE /\ late' = FALSE /\ UNCHANGED lamp_due

\* A mutant: the pulse is never ended.
NoEnd == Call("coil off", device, Handled, Handled)

EndPulse == Call("coil off", [device EXCEPT !.coil = FALSE], Handled, Handled)

\* motor_service_handle_request. A pulse is two calls, the second only when the
\* first succeeded.
HandleMotor ==
  /\ service = "motor"
  /\ \/ /\ pc = "serve" /\ inHand = "trigger"
        /\ Call("coil on", [device EXCEPT !.coil = TRUE],
                pc' = "pulse" /\ UNCHANGED <<inHand, active>>, Handled)
     \/ pc = "pulse" /\ EndPulse
     \/ /\ pc = "serve" /\ inHand # "trigger"
        /\ Call("speed", [device EXCEPT !.moving = inHand], Handled, Handled)
  /\ Thread /\ UNCHANGED <<queue, signalled, osd>>

HandleLaser ==
  /\ service = "laser" /\ pc = "serve"
  /\ CASE inHand = "single" ->
            Call("single", device, Handled /\ push_osd, Handled /\ set_error_osd)
       [] inHand = "continuous" ->
            Call("continuous", [device EXCEPT !.emitting = TRUE],
                 pc' = "loop" /\ inHand' = None /\ active' = TRUE /\ push_osd,
                 Handled /\ UNCHANGED osd)
       [] inHand = "standby" ->
            /\ Call("standby", [device EXCEPT !.emitting = FALSE], TRUE, TRUE)
            /\ pc' = "loop" /\ inHand' = None /\ active' = FALSE /\ UNCHANGED osd
  /\ Thread /\ UNCHANGED <<queue, signalled>>

\* A reading that fails otherwise than by a timeout ends the continuous
\* measurement of the thread, not that of the laser.
ReadContinuous ==
  /\ pc = "read"
  /\ pc' = "loop"
  /\ \/ UNCHANGED <<active, osd>> /\ NoCall
     \/ UNCHANGED active /\ push_osd /\ NoCall
     \/ /\ losses < MaxLosses /\ losses' = losses + 1
        /\ failed' = failed \cup {"read"}
        /\ active' = FALSE
        /\ UNCHANGED <<osd, device>>
  /\ Thread /\ UNCHANGED <<queue, signalled, inHand>>

HandleThermal ==
  /\ service = "thermal" /\ pc = "serve"
  /\ Call("palette", [device EXCEPT !.palette = inHand], Handled, Handled)
  /\ Thread /\ UNCHANGED <<queue, signalled, osd>>

Standby ==
  /\ pc = "leave" /\ active
  /\ Call("standby", [device EXCEPT !.emitting = FALSE], TRUE, TRUE)
  /\ active' = FALSE
  /\ Thread /\ UNCHANGED <<queue, pc, signalled, inHand, osd>>

ClosePort ==
  /\ pc = "leave" /\ ~active
  /\ pc' = "closed"
  /\ opened' = FALSE
  /\ NoCall
  /\ UNCHANGED <<service, running, thread_started, stop_requested, queue, signalled,
                 inHand, active, main, osd, opens>>

ThreadEnds ==
  /\ pc = "closed"
  /\ pc' = "none"
  /\ running' = FALSE /\ thread_started' = FALSE
  /\ queue' = <<>>
  /\ late' = (late \/ MeasurementPending)
  /\ NoCall
  /\ UNCHANGED <<service, opened, stop_requested, signalled, inHand, active, main,
                 lamp_due, measuring, error, opens>>
-----------------------------------------------------------------------------
(***************************************************************************)
(* The main thread. Opening the port and creating the thread may fail.     *)
(***************************************************************************)
Main == main = "idle" /\ UNCHANGED <<service, inHand, active, osd, device, failed, losses>>

service_init ==
  /\ Main
  /\ ~running
  /\ opens < MaxOpens /\ opens' = opens + 1
  /\ queue' = <<>>
  /\ stop_requested' = FALSE
  /\ opened' \in BOOLEAN
  /\ UNCHANGED <<running, thread_started, pc, signalled, main>>

service_start ==
  /\ Main
  /\ ~running /\ opened
  /\ \/ /\ running' = TRUE /\ thread_started' = TRUE
        /\ pc' = "loop"
        /\ UNCHANGED opened
     \/ opened' = FALSE /\ UNCHANGED <<running, thread_started, pc>>
  /\ UNCHANGED <<stop_requested, queue, signalled, main, opens>>

service_stop ==
  /\ Main
  /\ opened \/ running
  /\ stop_requested' = TRUE
  /\ signalled' = Signal
  /\ IF thread_started
     THEN main' = "joining" /\ UNCHANGED <<opened, running, queue>>
     ELSE /\ opened' = FALSE /\ running' = FALSE
          /\ queue' = <<>>
          /\ UNCHANGED main
  /\ UNCHANGED <<thread_started, pc, opens>>

Joined ==
  /\ main = "joining" /\ pc = "none"
  /\ main' = "idle"
  /\ UNCHANGED <<service, lifecycle, queue, worker, osd, device, failed, bounds>>
-----------------------------------------------------------------------------
ThreadStep ==
  TakeRequest \/ Woken \/ HandleMotor \/ HandleLaser \/ ReadContinuous \/ HandleThermal
    \/ Standby \/ ClosePort \/ ThreadEnds

Next ==
  \/ request
  \/ request_single_measure
  \/ set_measuring_osd
  \/ ThreadStep
  \/ SpuriousWakeup
  \/ service_init
  \/ service_start
  \/ service_stop
  \/ Joined

\* The thread is scheduled, its calls time out, and pthread_join returns. Nothing is
\* assumed of the threads that make requests.
Fairness == WF_vars(ThreadStep) /\ WF_vars(Joined)

Spec == Init /\ [][Next]_vars /\ Fairness
-----------------------------------------------------------------------------
(***************************************************************************)
(* The service serves as ServicePipe promises: in order, each request at   *)
(* most once, none after the stop, across restarts of the service.         *)
(***************************************************************************)
Pipe == INSTANCE ServicePipe
          WITH Request <- UNION {Requests[s] : s \in DOMAIN Requests}, NoRequest <- None,
               pending <- queue, open <- running /\ ~stop_requested
ServesInOrder == Pipe!Spec

(***************************************************************************)
(* The relay is closed only during a pulse, and the laser emits only while *)
(* the thread knows it does, unless a call failed: then the relay may stay *)
(* closed and the laser may go on emitting after the service has stopped.  *)
(* The lamp that is lit means a measurement to come, unless it was lit     *)
(* when its measurement was already over or the stop dropped it.           *)
(***************************************************************************)
QuietAtRest ==
  /\ device.coil /\ pc # "pulse" => failed \cap {"coil on", "coil off"} # {}
  /\ device.emitting /\ ~active => failed \cap {"continuous", "standby", "read"} # {}
  /\ measuring /\ ~late => MeasurementPending

(***************************************************************************)
(* What must come to an end: a request waits that the thread has not taken *)
(* and no stop will drop, and the service is being stopped.                *)
(***************************************************************************)
Waiting == queue # <<>> /\ inHand = None /\ ~stop_requested
Stopping == main = "joining"
=============================================================================
