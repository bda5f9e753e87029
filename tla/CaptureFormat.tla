---------------------------- MODULE CaptureFormat ---------------------------
(***************************************************************************)
(* What the native path makes of the format a capture device reports: the  *)
(* request, the formats it can lend out, the layout of a buffer and the    *)
(* descriptor the rest of the program reads the buffer by.                 *)
(*   src/input/video/input_hdmi_in.c, input_csi.c                          *)
(*                                                                         *)
(* A picture is Width by Height, a tiny one with an odd height; lengths    *)
(* and pitches are the driver's, in bytes.                                 *)
(***************************************************************************)
EXTENDS Naturals, Sequences

CONSTANTS Width, Height, Pitches, Lengths

\* A format name of the configuration, and the V4L2 format it asks for.
Names == {"", "bgr3", "nv12", "nv16", "nv24", "uyvy422"}
NativeName(kind, name) ==
  name \in IF kind = "csi" THEN {"", "nv12", "nv16"} ELSE Names \ {"uyvy422"}
Software(kind) ==
  IF kind = "csi" THEN {"nv12", "nv16"} ELSE {"bgr3", "nv12", "nv16", "nv24"}
\* What the driver can report: one or two memory planes, a pitch of 0 when it does
\* not fill it in.
Reports == [fourcc : Names \ {""}, planes : 1..3, pitch : Pitches \X Pitches]
NoPlane == [object |-> 0, offset |-> 0, pitch |-> 0]

VARIABLES
  kind, name,  \* the input and what its configuration asks for
  report,      \* external: the device's current format
  length,      \* external: the lengths of a buffer's memory planes
  requested,   \* what S_FMT was called with
  format,      \* what the context takes the format to be
  descriptor,  \* the planes of the DRM descriptor
  pc

vars == <<kind, name, report, length, requested, format, descriptor, pc>>

Init ==
  /\ kind \in {"hdmi_in", "csi"} /\ name \in Names
  /\ report \in {r \in Reports : r.fourcc \in {"bgr3", "uyvy422"} =>
                                   r.pitch[2] = 0 /\ r.planes < 3}
  /\ length = <<0, 0>>
  /\ requested = "" /\ format = report
  /\ descriptor = <<>> /\ pc = "enabled"

Fails == pc' = "ffmpeg" /\ UNCHANGED <<length, descriptor>>
-----------------------------------------------------------------------------
\* native_enabled and native_format_requested, then S_FMT. A driver that refuses
\* keeps its format, one that accepts may still give another.
SetFormat ==
  /\ pc = "enabled"
  /\ IF NativeName(kind, name)
     THEN /\ requested' = name
          /\ pc' = "configure"
          /\ IF name = "" THEN format' = report
             ELSE \/ format' = report
                  \/ format' = [report EXCEPT !.fourcc = name]
     ELSE pc' = "ffmpeg" /\ UNCHANGED <<requested, format>>
  /\ UNCHANGED <<kind, name, report, length, descriptor>>

DrmPlanes(fourcc) == IF fourcc = "bgr3" THEN 1 ELSE 2

\* configure_pixel_format: the defaults of the pitches, after the formats it knows.
Pitched(f) ==
  [f EXCEPT !.pitch =
     << IF @[1] = 0 THEN Width * (IF f.fourcc = "bgr3" THEN 3 ELSE 1) ELSE @[1],
        IF f.planes = 2 /\ @[2] = 0
        THEN Width * (IF f.fourcc = "nv24" THEN 2 ELSE 1) ELSE @[2] >>]

Configure ==
  /\ pc = "configure"
  /\ IF /\ format.fourcc \in Software(kind)
        /\ format.planes \in 1..DrmPlanes(format.fourcc)
     THEN /\ format' = Pitched(format)
          /\ pc' = "query"
          /\ UNCHANGED <<length, descriptor>>
     ELSE Fails /\ UNCHANGED format
  /\ UNCHANGED <<kind, name, report, requested>>

\* The hardware frames' context, REQBUFS and QUERYBUF may fail too.
Query ==
  /\ pc = "query"
  /\ \/ /\ \E l \in Lengths \X Lengths :
             length' = IF format.planes = 1 THEN <<l[1], 0>> ELSE l
        /\ pc' = "validate"
        /\ UNCHANGED descriptor
     \/ Fails
  /\ UNCHANGED <<kind, name, report, requested, format>>

ChromaPitch(f) ==
  IF f.planes = 1 THEN f.pitch[1] * (IF f.fourcc = "nv24" THEN 2 ELSE 1) ELSE f.pitch[2]
ChromaHeight(f) == IF f.fourcc = "nv12" THEN (Height + 1) \div 2 ELSE Height

\* A mutant: half the height, rounded down.
LayoutRoundsDown(f) ==
  LET luma == f.pitch[1] * Height
      chroma == ChromaPitch(f) * (IF f.fourcc = "nv12" THEN Height \div 2 ELSE Height)
  IN IF f.planes = 1 THEN length[1] >= luma + chroma
     ELSE length[1] >= luma /\ length[2] >= chroma

\* validate_buffer_layout.
LayoutValid(f) ==
  LET luma == f.pitch[1] * Height
      chroma == ChromaPitch(f) * ChromaHeight(f)
  IN IF DrmPlanes(f.fourcc) = 1 THEN length[1] >= luma
     ELSE IF f.planes = 1 THEN length[1] >= luma + chroma
     ELSE length[1] >= luma /\ length[2] >= chroma

\* init_drm_descriptor.
Planes(f) ==
  LET first == [object |-> 1, offset |-> 0, pitch |-> f.pitch[1]]
  IN IF DrmPlanes(f.fourcc) = 1 THEN <<first>>
     ELSE <<first, [object |-> f.planes,
                    offset |-> IF f.planes = 1 THEN f.pitch[1] * Height ELSE 0,
                    pitch |-> ChromaPitch(f)]>>

Describe ==
  /\ pc = "validate"
  /\ IF LayoutValid(format)
     THEN descriptor' = Planes(format) /\ pc' = "streaming" /\ UNCHANGED length
     ELSE Fails
  /\ UNCHANGED <<kind, name, report, requested, format>>

\* EXPBUF, QBUF and STREAMON.
Rejected ==
  /\ pc = "validate"
  /\ Fails
  /\ UNCHANGED <<kind, name, report, requested, format>>

\* External: FFmpeg opens the device with the driver's own formats.
Done == pc \in {"streaming", "ffmpeg"} /\ UNCHANGED vars
-----------------------------------------------------------------------------
Next == SetFormat \/ Configure \/ Query \/ Describe \/ Rejected \/ Done

Spec == Init /\ [][Next]_vars
-----------------------------------------------------------------------------
(***************************************************************************)
(* Whatever the driver answers, every line a reader of the frame finds by  *)
(* the descriptor lies in the memory plane it names, the planes do not     *)
(* overlap, and a line is as long as the picture is wide unless the driver *)
(* says otherwise.                                                         *)
(***************************************************************************)
PlaneEnd(p, rows) == p.offset + p.pitch * rows
DescriptorFits ==
  pc = "streaming" =>
    /\ \A i \in DOMAIN descriptor :
         LET p == descriptor[i]
         IN /\ PlaneEnd(p, IF i = 1 THEN Height ELSE ChromaHeight(format)) <= length[p.object]
            /\ i = 2 /\ p.object = 1 => p.offset >= PlaneEnd(descriptor[1], Height)
    /\ Len(descriptor) = DrmPlanes(format.fourcc)
    /\ report.pitch[1] = 0 =>
         descriptor[1].pitch >= Width * (IF format.fourcc = "bgr3" THEN 3 ELSE 1)
=============================================================================
