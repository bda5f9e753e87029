---------------------------- MODULE CaptureDriver ---------------------------
(***************************************************************************)
(* The descriptor and the buffers of one capture device. The native path   *)
(* lends the driver's buffers out as frames; the capture thread may close  *)
(* the device and open it again while other threads still hold some.       *)
(*   src/input/video/input_hdmi_in.c, input_csi.c, input_usb.c             *)
(*   src/process/video/video_pipeline_input.c (open, read, close)          *)
(*                                                                         *)
(* A frame is out until its last reference goes, on whatever thread. What  *)
(* is read through FFmpeg is FFmpeg's own. CaptureFormat models what is    *)
(* in a buffer.                                                            *)
(***************************************************************************)
EXTENDS Naturals, FiniteSets

CONSTANTS
  Buffer,    \* the driver's buffers
  MaxOpens,  \* bound: native contexts
  MaxFaults  \* bound: calls that fail

Native == 1..MaxOpens
None == 0
Kinds == {"hdmi_in", "csi", "usb"}
Parts == {"format", "packet", "decoder"}
\* A context that was never allocated, and what calloc makes of it.
Unused == [alive |-> FALSE, fd |-> "none", closing |-> FALSE, refs |-> 0,
           exported |-> {}, queued |-> {}]
Allocated == [Unused EXCEPT !.alive = TRUE, !.fd = "open", !.refs = 1]

VARIABLES
  kind,        \* which of the three inputs this is: it never changes
  native,      \* the native contexts, one per open
  frames,      \* the frames that are out, as <<native, buffer>>
  ctx,         \* ctx->native
  decoder,     \* what of FFmpeg's chain is allocated
  pc,          \* of the capture thread
  taken,       \* the buffer it has dequeued and not wrapped yet
  dying,       \* contexts some thread has counted down to nothing
  stray,       \* history: QBUF went to a descriptor that was closed
  opens, faults \* bound counters

vars == <<kind, native, frames, ctx, decoder, pc, taken, dying, stray, opens, faults>>

Init ==
  /\ kind \in Kinds
  /\ native = [n \in Native |-> Unused]
  /\ frames = {} /\ ctx = None /\ decoder = {} /\ pc = "closed" /\ taken = {}
  /\ dying = {} /\ stray = FALSE /\ opens = 0 /\ faults = 0

Fault == faults < MaxFaults /\ faults' = faults + 1
Set(n, r) == native' = [native EXCEPT ![n] = r]
Opening == opens  \* the context that is being opened is the last one
-----------------------------------------------------------------------------
\* input_*_open: the link is looked at first; native if it is enabled and the format
\* is one of its own.
Open ==
  /\ pc = "closed"
  /\ \/ /\ pc' = "ffmpeg" /\ UNCHANGED <<native, opens, faults>>
     \/ /\ kind # "usb" /\ opens < MaxOpens
        /\ opens' = opens + 1
        /\ Set(opens + 1, Allocated)
        /\ pc' = "native"
        /\ UNCHANGED faults
     \/ Fault /\ UNCHANGED <<pc, native, opens>>
  /\ UNCHANGED <<kind, frames, ctx, decoder, taken, dying, stray>>

Destroyed(n) == [native[n] EXCEPT !.alive = FALSE, !.exported = {}]

\* native_open, one buffer at a time: its planes are exported, then it is queued.
NativeBuffer ==
  /\ pc = "native"
  /\ LET n == Opening IN
       \E b \in Buffer \ native[n].queued :
         \/ Set(n, [native[n] EXCEPT !.exported = @ \cup {b}, !.queued = @ \cup {b}])
            /\ UNCHANGED <<pc, faults>>
         \/ /\ Fault  \* anywhere, with b exported or not: FFmpeg is tried
            /\ Set(n, [Destroyed(n) EXCEPT !.fd = "none"])
            /\ pc' = "ffmpeg"
  /\ UNCHANGED <<kind, frames, ctx, decoder, taken, dying, stray, opens>>

StreamOn ==
  /\ pc = "native" /\ native[Opening].queued = Buffer
  /\ pc' = "open"
  /\ ctx' = Opening
  /\ UNCHANGED <<kind, native, frames, decoder, taken, dying, stray, opens, faults>>

\* A mutant: an open that fails returns without closing.
FailReturns == pc' = "closed"

FailCloses == pc' = "close"

\* open_device and open_decoder, one allocation after the other.
FfmpegStep ==
  /\ pc = "ffmpeg"
  /\ \/ \E part \in Parts :
          /\ decoder = (CASE part = "format" -> {} [] part = "packet" -> {"format"}
                          [] OTHER -> {"format", "packet"})
          /\ decoder' = decoder \cup {part}
          /\ pc' = IF part = "decoder" THEN "open" ELSE pc
          /\ UNCHANGED faults
     \/ Fault /\ FailCloses /\ UNCHANGED decoder
  /\ UNCHANGED <<kind, native, frames, ctx, taken, dying, stray, opens>>
-----------------------------------------------------------------------------
\* native_read: a buffer is dequeued and a reference taken under the lock ...
Dequeue ==
  /\ pc = "open" /\ ctx # None
  /\ \E b \in native[ctx].queued :
       /\ taken' = {b}
       /\ Set(ctx, [native[ctx] EXCEPT !.queued = @ \ {b}, !.refs = @ + 1])
  /\ pc' = "wrap"
  /\ UNCHANGED <<kind, frames, ctx, decoder, dying, stray, opens, faults>>

\* ... and without the lock it becomes a frame. One that cannot be wrapped, or loses
\* its frames context, is released at once.
Wrap ==
  /\ pc = "wrap"
  /\ pc' = "open"
  /\ \E b \in taken :
       \/ frames' = frames \cup {<<ctx, b>>} /\ UNCHANGED <<native, faults>>
       \/ /\ Fault
          /\ Set(ctx, [native[ctx] EXCEPT !.queued = @ \cup {b}, !.refs = @ - 1])
          /\ UNCHANGED frames
  /\ taken' = {}
  /\ UNCHANGED <<kind, ctx, decoder, dying, stray, opens>>

\* native_buffer_release. A context is destroyed once the lock has been left.
Releasing(n, b, requeued) ==
  /\ frames' = frames \ {<<n, b>>}
  /\ Set(n, [native[n] EXCEPT !.refs = @ - 1,
                              !.queued = IF requeued THEN @ \cup {b} ELSE @])
  /\ dying' = IF native[n].refs = 1 THEN dying \cup {n} ELSE dying

Release ==
  /\ \E f \in frames :
       LET n == f[1]
       IN IF native[n].closing \/ native[n].fd = "none"
          THEN Releasing(n, f[2], FALSE) /\ UNCHANGED <<stray, faults>>
          ELSE /\ stray' = (stray \/ native[n].fd = "closed")
               /\ \/ Releasing(n, f[2], TRUE) /\ UNCHANGED faults
                  \/ Fault /\ Releasing(n, f[2], FALSE)  \* QBUF fails: the buffer is lost
  /\ UNCHANGED <<kind, ctx, decoder, pc, taken, opens>>

Destroy ==
  /\ \E n \in dying : Set(n, Destroyed(n)) /\ dying' = dying \ {n}
  /\ UNCHANGED <<kind, frames, ctx, decoder, pc, taken, stray, opens, faults>>
-----------------------------------------------------------------------------
\* vp_channel_close: a read failed or timed out and the thread reconnects, or the
\* pipeline is taken down.
Close ==
  /\ pc = "open"
  /\ pc' = "close"
  /\ UNCHANGED <<kind, native, frames, ctx, decoder, taken, dying, stray, opens, faults>>

\* A mutant: the descriptor is closed with nothing said to the releases.
NotClosing(r) == r

Closing(r) == [r EXCEPT !.closing = TRUE]

\* native_close: closing is set under the lock; the descriptor is closed, then
\* forgotten, without it; the reference is given back under it.
NativeClose ==
  /\ ctx # None
  /\ \/ pc = "close" /\ Set(ctx, Closing(native[ctx])) /\ pc' = "close_fd"
        /\ UNCHANGED <<ctx, dying>>
     \/ pc = "close_fd" /\ Set(ctx, [native[ctx] EXCEPT !.fd = "closed", !.queued = {}])
        /\ pc' = "close_forget" /\ UNCHANGED <<ctx, dying>>
     \/ pc = "close_forget" /\ Set(ctx, [native[ctx] EXCEPT !.fd = "none"])
        /\ pc' = "close_unref" /\ UNCHANGED <<ctx, dying>>
     \/ /\ pc = "close_unref"
        /\ Set(ctx, [native[ctx] EXCEPT !.refs = @ - 1])
        /\ dying' = IF native[ctx].refs = 1 THEN dying \cup {ctx} ELSE dying
        /\ ctx' = None
        /\ pc' = "close"
  /\ UNCHANGED <<kind, frames, decoder, taken, stray, opens, faults>>

\* input_*_close, after the native context: what there is of the decoder.
DecoderClose ==
  /\ pc = "close" /\ ctx = None
  /\ decoder' = {}
  /\ pc' = "closed"
  /\ UNCHANGED <<kind, native, frames, ctx, taken, dying, stray, opens, faults>>
-----------------------------------------------------------------------------
Next ==
  \/ Open \/ NativeBuffer \/ StreamOn \/ FfmpegStep
  \/ Dequeue \/ Wrap \/ Release \/ Destroy
  \/ Close \/ NativeClose \/ DecoderClose

Spec == Init /\ [][Next]_vars
-----------------------------------------------------------------------------
(***************************************************************************)
(* However closing, reopening and the threads that still hold frames       *)
(* interleave: a frame's context is there as long as the frame is; a       *)
(* context nobody refers to is destroyed, once; no buffer is queued to a   *)
(* descriptor that was closed; and a closed input has left nothing behind  *)
(* but the contexts of frames that are still out.                          *)
(***************************************************************************)
CaptureAccounts ==
  /\ \A f \in frames : native[f[1]].alive
  /\ \A n \in dying : native[n].alive /\ {f \in frames : f[1] = n} = {} /\ ctx # n
  /\ \A n \in Native : native[n].alive =>
       native[n].refs = Cardinality({f \in frames : f[1] = n})
                          + (IF n = ctx THEN 1 + Cardinality(taken) ELSE 0)
                          + (IF pc = "native" /\ n = Opening THEN 1 ELSE 0)
  /\ ~stray
  /\ pc = "closed" =>
       /\ decoder = {}
       /\ \A n \in Native :
            native[n].alive =>
              /\ native[n].fd = "none"
              /\ n \in dying \/ \E f \in frames : f[1] = n
=============================================================================
