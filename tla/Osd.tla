--------------------------------- MODULE Osd --------------------------------
(***************************************************************************)
(* What is drawn over the streamed pictures: callers of the control change *)
(* the parameters, the worker announces a snapshot, and the stream thread  *)
(* paints an overlay when its revision says that it has changed, and the   *)
(* name of the source when the source has.                                 *)
(*   src/process/osd/video_pipeline_osd.c, src/process/osd/osd_rkrga.c,    *)
(*   src/control/video_pipeline/video_pipeline_control.c,                  *)
(*   src/output/stream/video_pipeline_stream.c                             *)
(*                                                                         *)
(* What is painted is kept as the values it was painted from. The clock    *)
(* ticks in halves of a second. The dot of the laser blinks by the time at *)
(* which it is painted, which is left out.                                 *)
(***************************************************************************)
EXTENDS Naturals

CONSTANTS
  Channel,
  MaxNow,      \* bound: the clock
  MaxUpdates,  \* bound: changes of the parameters
  MaxFaults    \* bound: renderings and filter calls that fail

Field == {"crosshair", "gimbal", "laser"}

VARIABLES
  osd,         \* [f, until, seq]: the fields, snapshot_flash_until_us and seq
  copy,        \* control->osd, until it is written back
  locked,      \* that caller has read the parameters and will write them back
  now, recording, rec_start, stream_ch, \* external: clock, recorder, selected source
  pc,          \* of the stream thread
  label_channel, label_rgba, \* stream_label_channel, and whose name is painted
  revision, rgba,  \* stream_osd_revision, and what is painted
  snap,        \* what the thread read for this frame
  shown,       \* the overlays of the frame that goes to the encoder
  wanted,      \* history: the last value asked for, of each field
  wiped,       \* history: a label failed after the picture of the last one was erased
  updates, faults  \* bound counters

params == <<osd, copy, locked, wanted, updates>>
world == <<now, recording, rec_start, stream_ch>>
painted == <<label_channel, label_rgba, revision, rgba>>
vars == <<params, world, pc, painted, snap, shown, wiped, faults>>

None == "none"
NoView == [f |-> [x \in Field |-> 0], seconds |-> 0, recording |-> FALSE,
           blink |-> FALSE, flash |-> FALSE]
NoSnap == [channel |-> None, view |-> NoView]
NoShown == [label |-> None, osd |-> NoView]
Unset == [f |-> NoView.f, until |-> 0, seq |-> 0]

Init ==
  /\ osd = [Unset EXCEPT !.seq = 1]
  /\ copy = Unset /\ locked = FALSE /\ wanted = osd.f /\ updates = 0
  /\ now = 1 /\ recording = FALSE /\ rec_start = 0 /\ stream_ch \in Channel
  /\ pc = "idle"
  /\ label_channel = None /\ label_rgba = None
  /\ revision = [seq |-> 0, view |-> NoView] /\ rgba = NoView
  /\ snap = NoSnap /\ shown = NoShown
  /\ wiped = FALSE /\ faults = 0

Fault == faults < MaxFaults /\ faults' = faults + 1
-----------------------------------------------------------------------------
Change == updates < MaxUpdates /\ updates' = updates + 1

\* Callers. vp_control_osd_set_enabled and set_position read everything and
\* write everything back, both under control->lock.
ReadAll ==
  /\ ~locked /\ updates < MaxUpdates
  /\ locked' = TRUE
  /\ copy' = osd
  /\ UNCHANGED <<osd, wanted, updates, world, pc, painted, snap, shown, wiped, faults>>

\* vp_osd_update.
WriteAll ==
  /\ locked /\ Change
  /\ locked' = FALSE
  /\ \E v \in {0, 1} :
       /\ osd' = [copy EXCEPT !.f.crosshair = v, !.seq = osd.seq + 1]
       /\ wanted' = [wanted EXCEPT !.crosshair = v]
  /\ copy' = Unset
  /\ UNCHANGED <<world, pc, painted, snap, shown, wiped, faults>>

\* A mutant: the telemetry does not wait for the caller that writes all back.
NotLocked == TRUE

ControlLock == ~locked

\* vp_osd_set_gimbal_angles and vp_osd_set_laser_*: one field.
SetTelemetry ==
  /\ ControlLock /\ Change
  /\ \E x \in Field \ {"crosshair"}, v \in {0, 1} :
       /\ osd' = [osd EXCEPT !.f[x] = v, !.seq = @ + 1]
       /\ wanted' = [wanted EXCEPT ![x] = v]
  /\ UNCHANGED <<copy, locked, world, pc, painted, snap, shown, wiped, faults>>

\* The worker, without control->lock; it leaves seq alone.
vp_osd_notify_snapshot ==
  /\ Change
  /\ osd' = [osd EXCEPT !.until = now + 2]
  /\ UNCHANGED <<copy, locked, wanted, world, pc, painted, snap, shown, wiped, faults>>

\* External: the clock, the recorder and the selected source.
World ==
  /\ \/ now < MaxNow /\ now' = now + 1 /\ UNCHANGED <<recording, rec_start, stream_ch>>
     \/ /\ recording' = ~recording
        /\ rec_start' = IF recording THEN 0 ELSE now
        /\ UNCHANGED <<now, stream_ch>>
     \/ stream_ch' \in Channel \ {stream_ch} /\ UNCHANGED <<now, recording, rec_start>>
  /\ UNCHANGED <<params, pc, painted, snap, shown, wiped, faults>>
-----------------------------------------------------------------------------
\* The stream thread, one frame. The name of the source:
\* vp_osd_render_source_label erases before it can fail on the font.
TakeFrame ==
  /\ pc = "idle"
  /\ snap' = [NoSnap EXCEPT !.channel = stream_ch]
  /\ IF label_channel = stream_ch
     THEN pc' = "label" /\ UNCHANGED <<label_channel, label_rgba, wiped, faults>>
     ELSE \/ /\ pc' = "label" /\ label_channel' = stream_ch /\ label_rgba' = stream_ch
             /\ UNCHANGED <<wiped, faults>>
          \/ /\ Fault /\ UNCHANGED <<pc, label_channel>>
             /\ label_rgba' \in {label_rgba, None}
             /\ wiped' = (wiped \/ label_rgba' = None)
  /\ UNCHANGED <<params, world, revision, rgba, shown>>

\* osd_rkrga_process: the overlay is handed over with every frame, and a frame
\* whose filter cannot be built or fails is dropped.
Process(after) == (pc' = after /\ UNCHANGED faults) \/ (Fault /\ pc' = "idle")

Label ==
  /\ pc = "label"
  /\ Process("osd")
  /\ shown' = [shown EXCEPT !.label = label_rgba]
  /\ UNCHANGED <<params, world, painted, snap, wiped>>

\* A mutant: the flash is not part of the revision.
WithoutFlash(seq, view) == [seq |-> seq, view |-> [view EXCEPT !.flash = FALSE]]
Revision(seq, view) == [seq |-> seq, view |-> [view EXCEPT !.f = NoView.f]]

\* vp_osd_get_snapshot, the revision, and vp_osd_render_rgba when it is new.
Paint ==
  /\ pc = "osd"
  /\ LET on == recording /\ osd.f.crosshair = 1
         view == [f |-> osd.f, recording |-> on,
                  seconds |-> IF on THEN (now - rec_start) \div 2 ELSE 0,
                  blink |-> on /\ now % 2 = 0,
                  flash |-> osd.f.crosshair = 1 /\ now < osd.until /\ now % 2 = 0]
         new == Revision(osd.seq, view)
     IN /\ snap' = [snap EXCEPT !.view = view]
        /\ IF revision = new
           THEN pc' = "overlay" /\ UNCHANGED <<revision, rgba, faults>>
           ELSE \/ pc' = "overlay" /\ revision' = new /\ rgba' = view /\ UNCHANGED faults
                \/ Fault /\ pc' = "idle" /\ UNCHANGED <<revision, rgba>>
  /\ UNCHANGED <<params, world, label_channel, label_rgba, shown, wiped>>

Overlay ==
  /\ pc = "overlay"
  /\ Process("encode")
  /\ shown' = [shown EXCEPT !.osd = rgba]
  /\ UNCHANGED <<params, world, painted, snap, wiped>>

Encode ==
  /\ pc = "encode"
  /\ pc' = "idle"
  /\ snap' = NoSnap /\ shown' = NoShown
  /\ UNCHANGED <<params, world, painted, wiped, faults>>

Next ==
  \/ ReadAll \/ WriteAll \/ SetTelemetry \/ vp_osd_notify_snapshot \/ World
  \/ TakeFrame \/ Label \/ Paint \/ Overlay \/ Encode

Spec == Init /\ [][Next]_vars
-----------------------------------------------------------------------------
(***************************************************************************)
(* video_pipeline.h: the telemetry calls "modify only their own OSD        *)
(* fields". No caller undoes what another one set, although two of them    *)
(* write all the fields back.                                              *)
(***************************************************************************)
TelemetryKept == osd.f = wanted

(***************************************************************************)
(* A frame is encoded with the overlay of the parameters, the recording    *)
(* and the time that were read for it, although it is painted only when    *)
(* its revision changes; and with the name of its source, or with none     *)
(* after a name could not be painted.                                      *)
(***************************************************************************)
OverlayCurrent ==
  pc = "encode" => /\ shown.osd = snap.view
                   /\ shown.label = snap.channel \/ (wiped /\ shown.label = None)
=============================================================================
