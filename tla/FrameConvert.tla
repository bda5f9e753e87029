----------------------------- MODULE FrameConvert ---------------------------
(***************************************************************************)
(* One converter of frames: the filter graph on the RGA hardware when it   *)
(* can, then the RGA library, then swscale. What it keeps from one frame   *)
(* to the next is built for one source; the source may change under it.    *)
(*   src/process/video/video_frame_convert.c, video_rkrga_filter.c         *)
(*                                                                         *)
(* A hardware frame comes with its frames' context, known by its address;  *)
(* memory that nobody refers to is given to the next context. A picture is *)
(* the number of the frame it was made from.                               *)
(***************************************************************************)
EXTENDS Naturals

CONSTANTS
  Address,    \* where the allocator puts frames' contexts
  MaxFrames,  \* bound: frames that are converted
  MaxFaults   \* bound: stages that fail

Nothing == 0
Sizes == {"dst", "other"}
\* What a context, or a frame in memory, holds; yuv444p stands for what RGA cannot take.
Formats == {"nv12", "nv24", "bgr24", "yuyv422", "yuv444p"}
HwFormats == {"nv12", "nv24", "bgr24", "yuv444p"}
\* A source, and the context its frames come with.
NoSource == [hw |-> FALSE, fmt |-> "none", size |-> "none", addr |-> Nothing, id |-> Nothing]
NoResult == [number |-> Nothing, hw |-> FALSE, fmt |-> "none", size |-> "none",
             built_for |-> NoSource]

VARIABLES
  dst,        \* what the converter is for, of its initialisation: it never changes
  camera,     \* external: the source that is open
  frame,      \* the frame to convert, and its number
  pc,
  remembered, \* the source the filter was built or failed for
  filter,     \* the source of the filter's graph
  failed,     \* rkrga_filter_failed
  skipped,    \* the filter was not tried for this frame
  resized,    \* rga_resize_frame: the number of what is in it
  resize_valid, rga_color_failed,
  sws,        \* the source of the swscale context
  result,     \* the frame that is returned, and what made it
  contexts, faults \* bound counters

stage == <<remembered, filter, failed, skipped>>
rga == <<resized, resize_valid, rga_color_failed>>
vars == <<dst, camera, frame, pc, stage, rga, sws, result, contexts, faults>>

Init ==
  /\ dst \in {[hw |-> TRUE, fmt |-> "nv12"], [hw |-> FALSE, fmt |-> "nv12"],
              [hw |-> FALSE, fmt |-> "yuvj420p"]}
  /\ camera = NoSource /\ frame = [source |-> NoSource, number |-> Nothing]
  /\ pc = "idle"
  /\ remembered = NoSource /\ filter = NoSource /\ failed = FALSE /\ skipped = FALSE
  /\ resized = Nothing /\ resize_valid = FALSE /\ rga_color_failed = FALSE
  /\ sws = NoSource /\ result = NoResult
  /\ contexts = 0 /\ faults = 0

Fault == faults < MaxFaults /\ faults' = faults + 1
Made(by) == [number |-> frame.number, hw |-> dst.hw, fmt |-> dst.fmt, size |-> "dst",
             built_for |-> by]
Returns(r) == result' = r /\ pc' = "done"
-----------------------------------------------------------------------------
\* A mutant: addresses are remembered, and nothing is kept.
KeepsNothing == {Nothing}

\* remember_rkrga_source and the filter itself hold references to the context.
Kept == {remembered.addr, filter.addr}

\* External: the camera is opened again, or another input is selected.
NewSource ==
  /\ pc = "idle"
  /\ contexts < MaxFrames
  /\ contexts' = contexts + 1
  /\ \E size \in Sizes :
       \/ \E fmt \in Formats :
            camera' = [NoSource EXCEPT !.fmt = fmt, !.size = size]
       \/ \E fmt \in HwFormats, a \in Address \ Kept :
            camera' = [hw |-> TRUE, fmt |-> fmt, size |-> size, addr |-> a,
                       id |-> contexts + 1]
  /\ UNCHANGED <<dst, frame, pc, stage, rga, sws, result, faults>>

AlreadyRight(s) == ~dst.hw /\ ~s.hw /\ s.fmt = dst.fmt /\ s.size = "dst"

prepare ==
  /\ pc = "idle" /\ camera # NoSource
  /\ frame.number < MaxFrames
  /\ frame' = [source |-> camera, number |-> frame.number + 1]
  /\ skipped' = FALSE
  /\ IF AlreadyRight(camera)
     THEN Returns([number |-> frame.number + 1, hw |-> FALSE, fmt |-> camera.fmt,
                   size |-> camera.size, built_for |-> camera])
     ELSE pc' = "filter" /\ result' = NoResult
  /\ UNCHANGED <<dst, camera, remembered, filter, failed, rga, sws, contexts, faults>>

Finished ==
  /\ pc = "done"
  /\ pc' = "idle"
  /\ result' = NoResult
  /\ UNCHANGED <<dst, camera, frame, stage, rga, sws, contexts, faults>>
-----------------------------------------------------------------------------
\* rkrga_source_matches: a context's address, and what the frame says of itself; all
\* hardware frames have the format DRM_PRIME.
SourceMatches(s) ==
  /\ remembered.hw = s.hw /\ remembered.size = s.size
  /\ IF s.hw THEN remembered.addr = s.addr ELSE remembered.fmt = s.fmt

\* The graph there is for a source: an NV24 one that cannot be built is tried again
\* with the buffer mapped to memory.
FilterExists(s) == ~s.hw \/ s.fmt \in {"nv12", "nv16", "nv24", "bgr24"}

WithoutFilter == pc' = IF dst.hw THEN "null" ELSE "transfer"

\* video_rkrga_filter_process.
Process(f) ==
  \/ Returns(Made(f)) /\ filter' = f /\ failed' = FALSE /\ UNCHANGED faults
  \/ Fault /\ filter' = NoSource /\ failed' = TRUE /\ WithoutFilter /\ UNCHANGED result

Create(s) ==
  \/ /\ remembered' = s
     /\ \/ FilterExists(s) /\ Process(s)
        \/ /\ IF FilterExists(s) THEN Fault ELSE UNCHANGED faults
           /\ filter' = NoSource /\ failed' = TRUE
           /\ WithoutFilter /\ UNCHANGED result
  \/ /\ s.hw /\ Fault  \* no reference to the context: nothing is remembered
     /\ remembered' = NoSource /\ filter' = NoSource /\ failed' = FALSE
     /\ WithoutFilter /\ UNCHANGED result

Filter ==
  /\ pc = "filter"
  /\ LET s == frame.source
         stale == ~SourceMatches(s)
     IN \/ /\ dst.fmt # "nv12"
           /\ pc' = "transfer"
           /\ UNCHANGED <<stage, result, faults>>
        \/ /\ dst.fmt = "nv12" /\ failed /\ ~stale
           /\ skipped' = TRUE
           /\ WithoutFilter
           /\ UNCHANGED <<remembered, filter, failed, result, faults>>
        \/ /\ dst.fmt = "nv12" /\ (failed => stale)
           /\ UNCHANGED skipped
           /\ IF filter # NoSource /\ ~stale
              THEN Process(filter) /\ UNCHANGED remembered
              ELSE Create(s)
  /\ UNCHANGED <<dst, camera, frame, rga, sws, contexts>>

ReturnsNull ==
  /\ pc = "null"
  /\ Returns(NoResult)
  /\ UNCHANGED <<dst, camera, frame, stage, rga, sws, contexts, faults>>
-----------------------------------------------------------------------------
\* transfer_hw_frame: a hardware frame is read back to memory.
InMemory(s) == [s EXCEPT !.hw = FALSE]

Transfer ==
  /\ pc = "transfer"
  /\ LET s == frame.source
     IN \/ /\ IF s.hw /\ AlreadyRight(InMemory(s)) THEN Returns(Made(s))
              ELSE pc' = "rga" /\ UNCHANGED result
           /\ UNCHANGED faults
        \/ s.hw /\ Fault /\ pc' = "null" /\ UNCHANGED result
  /\ UNCHANGED <<dst, camera, frame, stage, rga, sws, contexts>>

RgaTakes(s) == s.fmt \in {"nv12", "bgr24", "yuyv422"} /\ dst.fmt = "nv12"
TwoPasses(s) == s.fmt = "bgr24" /\ s.size # "dst"

\* A mutant: what was resized last is still taken for resized.
ResizeStays == resize_valid

ResizeReset == FALSE

\* rga_convert. When its second pass has failed once, swscale goes on from what the
\* first pass made.
RgaConvert ==
  /\ pc = "rga"
  /\ LET s == frame.source
     IN \/ /\ RgaTakes(s)
           /\ ~(TwoPasses(s) /\ rga_color_failed)
           /\ Returns(Made(s))
           /\ IF TwoPasses(s) THEN resized' = frame.number /\ resize_valid' = TRUE
              ELSE UNCHANGED resized /\ resize_valid' = ResizeReset
           /\ UNCHANGED <<rga_color_failed, faults>>
        \/ /\ RgaTakes(s) /\ TwoPasses(s)
           /\ IF rga_color_failed THEN UNCHANGED faults ELSE Fault
           /\ resized' = frame.number /\ resize_valid' = TRUE /\ rga_color_failed' = TRUE
           /\ pc' = "sws" /\ UNCHANGED result
        \/ /\ IF RgaTakes(s) THEN Fault ELSE UNCHANGED faults
           /\ resize_valid' = ResizeReset
           /\ pc' = "sws"
           /\ UNCHANGED <<resized, rga_color_failed, result>>
  /\ UNCHANGED <<dst, camera, frame, stage, sws, contexts>>

\* What swscale starts from: its format and size, and the picture in it.
SwsSource ==
  IF resize_valid THEN [NoSource EXCEPT !.fmt = "bgr24", !.size = "dst"]
  ELSE [NoSource EXCEPT !.fmt = frame.source.fmt, !.size = frame.source.size]
SwsPicture == IF resize_valid THEN resized ELSE frame.number

SwsConvert ==
  /\ pc = "sws"
  /\ \/ /\ sws' = IF sws # SwsSource THEN SwsSource ELSE sws
        /\ Returns([Made(SwsSource) EXCEPT !.number = SwsPicture, !.built_for = sws'])
        /\ UNCHANGED faults
     \/ Fault /\ pc' = "null" /\ sws' \in {sws, NoSource, SwsSource} /\ UNCHANGED result
  /\ UNCHANGED <<dst, camera, frame, stage, rga, contexts>>
-----------------------------------------------------------------------------
Next ==
  \/ NewSource \/ prepare \/ Finished
  \/ Filter \/ ReturnsNull \/ Transfer \/ RgaConvert \/ SwsConvert

Spec == Init /\ [][Next]_vars
-----------------------------------------------------------------------------
(***************************************************************************)
(* What is returned is the frame that was given, in the size and format    *)
(* the converter is for, and made by a stage that was built for the very   *)
(* source it came from, whatever source came before and whichever stage    *)
(* failed for it; and a filter is only left out for the source it failed   *)
(* for.                                                                    *)
(***************************************************************************)
BuiltFor(s, by) ==
  \/ by = s
  \/ ~by.hw /\ by.addr = Nothing
     /\ \/ by.fmt = s.fmt /\ by.size = s.size
        \/ TwoPasses(s) /\ by.fmt = "bgr24" /\ by.size = "dst"

ConvertsTheFrame ==
  /\ pc = "done" /\ result # NoResult =>
       /\ result.number = frame.number
       /\ result.hw = dst.hw /\ result.fmt = dst.fmt /\ result.size = "dst"
       /\ BuiltFor(frame.source, result.built_for)
  /\ skipped => remembered.id = frame.source.id
=============================================================================
