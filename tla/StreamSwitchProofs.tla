------------------------- MODULE StreamSwitchProofs -------------------------
(***************************************************************************)
(* Proofs about StreamSwitch, for every set of channels, every transport   *)
(* and every bound. The inductive invariant says what the stream thread    *)
(* may rely on while it works on a frame without the lock: unless a switch *)
(* is pending, the frame, the name drawn on it and the packets in the      *)
(* encoder are of the present generation.                                  *)
(***************************************************************************)
EXTENDS StreamSwitch, TLAPS

Working == thread_at \in {"draw", "prepare", "check", "encode", "receive"}

\* What the stream thread has in work is of one generation, the present one unless a
\* switch is pending.
WorkIsCurrent ==
  /\ Working => shown <= frame_generation /\ frame_generation <= stream_generation
  /\ Working /\ ~switch_pending => frame_generation = stream_generation
  /\ thread_at \in {"draw", "prepare", "check"} /\ ~switch_pending => frame.source = stream_ch
  /\ thread_at \in {"prepare", "check"} /\ ~switch_pending => label = stream_ch
  /\ shown <= stream_generation

HeldOf(g) == \A i \in 1..Len(held) : held[i].generation = g
HeldIsCurrent ==
  /\ Working => HeldOf(frame_generation)
  /\ ~switch_pending => HeldOf(stream_generation)
  /\ thread_at # "receive" => Len(held) <= MaxDelay

\* A viewer without a keyframe is about to get one.
KeyframeComes ==
  /\ ~primed => held = <<>>
  /\ network = "closed" => ~synced
  /\ ~synced /\ ~wait_for_keyframe => ~primed \/ (held # <<>> /\ held[1].key)

IInv ==
  /\ TypeOK
  /\ QueueIsCurrent
  /\ LabelMatchesSource
  /\ SendReady
  /\ NoLostWakeup
  /\ WorkIsCurrent
  /\ HeldIsCurrent
  /\ KeyframeComes
  /\ caller_at # "idle" => stream_generation < MaxGeneration
-----------------------------------------------------------------------------
LEMMA TailFacts ==
  ASSUME NEW S, NEW s \in Seq(S), s # <<>>
  PROVE  /\ Len(s) \in Nat /\ Len(s) >= 1
         /\ Head(s) = s[1] /\ Head(s) \in S
         /\ Tail(s) \in Seq(S) /\ Len(Tail(s)) = Len(s) - 1
         /\ \A i \in 1..Len(Tail(s)) : Tail(s)[i] = s[i + 1] /\ i + 1 \in 1..Len(s)
OBVIOUS

LEMMA AppendFacts ==
  ASSUME NEW S, NEW s \in Seq(S), NEW e \in S
  PROVE  /\ Append(s, e) \in Seq(S) /\ Len(Append(s, e)) = Len(s) + 1
         /\ Append(s, e) # <<>>
         /\ Len(s) \in Nat
         /\ s = <<>> => Append(s, e)[1] = e
         /\ s # <<>> => Append(s, e)[1] = s[1]
         /\ \A i \in 1..Len(Append(s, e)) :
              \/ i \in 1..Len(s) /\ Append(s, e)[i] = s[i]
              \/ Append(s, e)[i] = e
OBVIOUS

LEMMA EmptyFacts ==
  /\ \A S : <<>> \in Seq(S)
  /\ Len(<<>>) = 0 /\ 0 <= 1 /\ 0 <= MaxDelay /\ 0 <= MaxDelay + 1
BY StreamAssumption

LEMMA InitIInv == Init => IInv
<1> SUFFICES ASSUME Init PROVE IInv
  OBVIOUS
<1>1. TypeOK
  <2>1. 0 \in Generation /\ 0 \in 0..(MaxFailures - 1)
    BY StreamAssumption DEF Generation
  <2>2. stream_ch \in Channel
    BY StreamAssumption DEF Init
  <2>3. stream_enabled \in BOOLEAN /\ network \in {"open", "closed"}
    BY DEF Init
  <2>4. /\ held \in Seq(Packet) /\ Len(held) <= MaxDelay + 1
        /\ stream_q \in Seq(Frame) /\ Len(stream_q) <= 1
    BY EmptyFacts DEF Init
  <2>5. captured \in [Channel -> Frame \cup {NoFrame}] /\ thread_at \in ThreadPc
    BY DEF Init, ThreadPc
  <2>6. QED
    BY <2>1, <2>2, <2>3, <2>4, <2>5 DEF Init, TypeOK
<1>2. QueueIsCurrent /\ LabelMatchesSource /\ SendReady /\ NoLostWakeup /\ WorkIsCurrent
  BY StreamAssumption DEF Init, QueueIsCurrent, LabelMatchesSource, SendReady, NoLostWakeup,
                          WorkIsCurrent, Working
<1>3. HeldIsCurrent /\ KeyframeComes
  BY StreamAssumption DEF Init, HeldIsCurrent, HeldOf, KeyframeComes, Working
<1>4. caller_at = "idle"
  BY DEF Init
<1>5. QED
  BY <1>1, <1>2, <1>3, <1>4 DEF IInv
-----------------------------------------------------------------------------
LEMMA CaptureStep ==
  ASSUME IInv, NEW c \in Channel, Capture(c)
  PROVE  IInv'
<1>1. captured' \in [Channel -> Frame \cup {NoFrame}]
  BY DEF IInv, TypeOK, Capture, Frame
<1>2. QED
  BY <1>1 DEF IInv, TypeOK, Capture, QueueIsCurrent, LabelMatchesSource, SendReady, NoLostWakeup,
              WorkIsCurrent, Working, HeldIsCurrent, HeldOf, KeyframeComes, control, work,
              keyframes, codec, link, viewer

LEMMA PublishStep ==
  ASSUME IInv, NEW c \in Channel, Publish(c)
  PROVE  IInv'
<1>1. UNCHANGED <<stop, control, work, keyframes, codec, link, caller_at, viewer>>
  BY DEF Publish
<1>2. captured' \in [Channel -> Frame \cup {NoFrame}] /\ captured[c] \in Frame
  BY DEF IInv, TypeOK, Publish
<1>3. /\ thread_at' \in {thread_at, "top"}
      /\ thread_at # "waiting" => thread_at' = thread_at
  BY DEF Publish, WakeStream
<1>4. CASE Wanted(captured[c])
  <2>1. stream_q' = <<captured[c]>> /\ thread_at' # "waiting"
    BY <1>4 DEF Publish, WakeStream
  <2>2. /\ stream_q' \in Seq(Frame) /\ Len(stream_q') = 1 /\ stream_q'[1] = captured[c]
    BY <1>2, <2>1
  <2>3. QueueIsCurrent'
    BY <1>1, <1>4, <2>2 DEF QueueIsCurrent, Wanted, control
  <2>4. TypeOK'
    BY <1>1, <1>2, <1>3, <2>2
       DEF IInv, TypeOK, ThreadPc, control, work, keyframes, codec, link, viewer
  <2>5. QED
    BY <1>1, <1>3, <2>1, <2>3, <2>4
       DEF IInv, LabelMatchesSource, SendReady, NoLostWakeup, WorkIsCurrent, Working,
           HeldIsCurrent, HeldOf, KeyframeComes, control, work, keyframes, codec, link, viewer
<1>5. CASE ~Wanted(captured[c])
  <2>1. UNCHANGED <<stream_q, thread_at>>
    BY <1>5 DEF Publish
  <2>2. QED
    BY <1>1, <1>2, <2>1
       DEF IInv, TypeOK, QueueIsCurrent, LabelMatchesSource, SendReady, NoLostWakeup,
           WorkIsCurrent, Working, HeldIsCurrent, HeldOf, KeyframeComes, control, work,
           keyframes, codec, link, viewer
<1>6. QED
  BY <1>4, <1>5
-----------------------------------------------------------------------------
LEMMA AcknowledgeStep ==
  ASSUME IInv, Acknowledge
  PROVE  IInv'
<1>1. /\ stream_q' = <<>> /\ held' = <<>>
      /\ UNCHANGED <<stop, stream_ch, stream_enabled, stream_generation, captured, thread_at,
                     work, failures, encode_retry, network, caller_at, shown>>
      /\ thread_at = "top" /\ ~encoder_open' /\ ~primed' /\ ~synced'
      /\ switch_pending' = FALSE /\ output_retry' = FALSE
      /\ force_idr' = TRUE /\ wait_for_keyframe' = TRUE
      /\ encoder_open' = FALSE /\ primed' = FALSE /\ synced' = FALSE
  BY DEF Acknowledge, ResetEncoder, ExpectKeyframe, SetKeyframes
<1>2. TypeOK'
  <2>1. /\ held' \in Seq(Packet) /\ Len(held') <= MaxDelay + 1
        /\ stream_q' \in Seq(Frame) /\ Len(stream_q') <= 1
    BY <1>1, EmptyFacts
  <2>2. QED
    BY <1>1, <2>1 DEF IInv, TypeOK, work
<1>3. QED
  BY <1>1, <1>2, StreamAssumption
     DEF IInv, TypeOK, QueueIsCurrent, LabelMatchesSource, SendReady, NoLostWakeup,
         WorkIsCurrent, Working, HeldIsCurrent, HeldOf, KeyframeComes, work

LEMMA TakeFrameStep ==
  ASSUME IInv, TakeFrame
  PROVE  IInv'
<1>1. /\ UNCHANGED <<stop, control, captured, keyframes, codec, link, caller_at, viewer>>
      /\ thread_at = "top"
  BY DEF TakeFrame
<1>2. CASE stop /\ thread_at' = "done" /\ UNCHANGED <<stream_q, work>>
  BY <1>1, <1>2
     DEF IInv, TypeOK, ThreadPc, QueueIsCurrent, LabelMatchesSource, SendReady, NoLostWakeup,
         WorkIsCurrent, Working, HeldIsCurrent, HeldOf, KeyframeComes, control, work,
         keyframes, codec, link, viewer
<1>3. CASE /\ ~stop /\ ~switch_pending /\ (stream_q = <<>> \/ ~stream_enabled)
           /\ thread_at' = "waiting" /\ UNCHANGED <<stream_q, work>>
  BY <1>1, <1>3
     DEF IInv, TypeOK, ThreadPc, QueueIsCurrent, LabelMatchesSource, SendReady, NoLostWakeup,
         WorkIsCurrent, Working, HeldIsCurrent, HeldOf, KeyframeComes, control, work,
         keyframes, codec, link, viewer
<1>4. CASE /\ ~stop /\ ~switch_pending /\ stream_q # <<>>
           /\ frame' = Head(stream_q) /\ stream_q' = <<>>
           /\ frame_generation' = stream_generation
           /\ thread_at' = "draw" /\ UNCHANGED label
  <2>1. /\ frame' = stream_q[1] /\ frame' \in Frame /\ 1 \in 1..Len(stream_q)
    BY <1>4, TailFacts DEF IInv, TypeOK
  <2>2. frame'.source = stream_ch
    BY <1>4, <2>1 DEF IInv, QueueIsCurrent
  <2>3. TypeOK'
    BY <1>1, <1>4, <2>1, EmptyFacts
       DEF IInv, TypeOK, ThreadPc, control, keyframes, codec, link, viewer
  <2>4. WorkIsCurrent'
    <3>1. stream_generation <= stream_generation
      BY StreamAssumption DEF IInv, TypeOK, Generation
    <3>2. QED
      BY <1>1, <1>4, <2>2, <3>1 DEF IInv, WorkIsCurrent, Working, control, viewer
  <2>5. HeldIsCurrent'
    BY <1>1, <1>4 DEF IInv, HeldIsCurrent, HeldOf, Working, control, codec
  <2>6. QED
    BY <1>1, <1>4, <2>3, <2>4, <2>5
       DEF IInv, QueueIsCurrent, LabelMatchesSource, SendReady, NoLostWakeup, KeyframeComes,
           control, keyframes, codec, link, viewer
<1>5. QED
  BY <1>2, <1>3, <1>4 DEF TakeFrame

\* Steps that only move the stream thread, before a frame is sent.
LEMMA QuietStep ==
  ASSUME IInv, SpuriousWake \/ DrawLabel \/ DiscardStale \/ ReceiveNothing
  PROVE  IInv'
<1>1. UNCHANGED <<stop, control, stream_q, captured, frame, frame_generation, keyframes, codec,
                  link, caller_at, viewer>>
  BY DEF SpuriousWake, DrawLabel, DiscardStale, ReceiveNothing, work
<1>2. CASE SpuriousWake
  BY <1>1, <1>2
     DEF IInv, SpuriousWake, TypeOK, ThreadPc, QueueIsCurrent, LabelMatchesSource, SendReady,
         NoLostWakeup, WorkIsCurrent, Working, HeldIsCurrent, HeldOf, KeyframeComes, control,
         work, keyframes, codec, link, viewer
<1>3. CASE DrawLabel
  <2>1. thread_at = "draw" /\ thread_at' \in {"top", "prepare"} /\ label' \in {label, stream_ch}
        /\ (thread_at' = "prepare" => label' = stream_ch)
    BY <1>3 DEF DrawLabel
  <2>2. label' \in Channel
    BY <2>1, StreamAssumption DEF IInv, TypeOK
  <2>3. QED
    BY <1>1, <2>1, <2>2
       DEF IInv, TypeOK, ThreadPc, QueueIsCurrent, LabelMatchesSource, SendReady, NoLostWakeup,
           WorkIsCurrent, Working, HeldIsCurrent, HeldOf, KeyframeComes, control, keyframes,
           codec, link, viewer
<1>4. CASE DiscardStale
  BY <1>1, <1>4
     DEF IInv, DiscardStale, TypeOK, ThreadPc, QueueIsCurrent, LabelMatchesSource, SendReady,
         NoLostWakeup, WorkIsCurrent, Working, HeldIsCurrent, HeldOf, KeyframeComes, control,
         work, keyframes, codec, link, viewer
<1>5. CASE ReceiveNothing
  BY <1>1, <1>5
     DEF IInv, ReceiveNothing, TypeOK, ThreadPc, QueueIsCurrent, LabelMatchesSource, SendReady,
         NoLostWakeup, WorkIsCurrent, Working, HeldIsCurrent, HeldOf, KeyframeComes, control,
         work, keyframes, codec, link, viewer
<1>6. QED
  BY <1>2, <1>3, <1>4, <1>5

LEMMA PrepareOutputStep ==
  ASSUME IInv, PrepareOutput
  PROVE  IInv'
<1>1. /\ UNCHANGED <<stop, control, stream_q, captured, work, held, primed, failures,
                     encode_retry, caller_at, shown>>
      /\ thread_at = "prepare"
  BY DEF PrepareOutput
<1>2. CASE output_retry /\ thread_at' = "top" /\ UNCHANGED <<encoder_open, link, keyframes, synced>>
  BY <1>1, <1>2
     DEF IInv, TypeOK, ThreadPc, QueueIsCurrent, LabelMatchesSource, SendReady, NoLostWakeup,
         WorkIsCurrent, Working, HeldIsCurrent, HeldOf, KeyframeComes, control, work,
         keyframes, codec, link, viewer
<1>3. CASE /\ encoder_open' \in {encoder_open, TRUE} /\ network' = "closed" /\ output_retry' = TRUE
           /\ ExpectKeyframe /\ synced' = FALSE /\ thread_at' = "top"
  <2>1. force_idr' = TRUE /\ wait_for_keyframe' = TRUE
    BY <1>3 DEF ExpectKeyframe, SetKeyframes
  <2>2. encoder_open' \in BOOLEAN /\ (encoder_open => encoder_open')
    <3>1. encoder_open \in BOOLEAN
      BY DEF IInv, TypeOK
    <3>2. encoder_open' = encoder_open \/ encoder_open' = TRUE
      BY <1>3
    <3>3. QED
      BY <3>1, <3>2
  <2>3. TypeOK'
    BY <1>1, <1>3, <2>1, <2>2 DEF IInv, TypeOK, ThreadPc, control, work
  <2>4. QED
    BY <1>1, <1>3, <2>1, <2>2, <2>3
       DEF IInv, QueueIsCurrent, LabelMatchesSource, SendReady, NoLostWakeup, WorkIsCurrent,
           Working, HeldIsCurrent, HeldOf, KeyframeComes, control, work
<1>4. CASE /\ encoder_open' = TRUE /\ network' = "open" /\ output_retry' = FALSE
           /\ (IF output_retry THEN ExpectKeyframe ELSE UNCHANGED keyframes)
           /\ synced' = (synced /\ network = "open") /\ thread_at' = "check"
  <2>1. /\ force_idr' \in BOOLEAN /\ wait_for_keyframe' \in BOOLEAN
        /\ wait_for_keyframe => wait_for_keyframe'
    BY <1>4 DEF ExpectKeyframe, SetKeyframes, keyframes, IInv, TypeOK
  <2>2. synced' \in BOOLEAN /\ synced' = synced
    BY <1>4 DEF IInv, TypeOK, KeyframeComes
  <2>3. TypeOK'
    BY <1>1, <1>4, <2>1, <2>2 DEF IInv, TypeOK, ThreadPc, control, work
  <2>4. KeyframeComes'
    BY <1>1, <1>4, <2>1, <2>2 DEF IInv, KeyframeComes
  <2>5. QED
    BY <1>1, <1>4, <2>3, <2>4
       DEF IInv, QueueIsCurrent, LabelMatchesSource, SendReady, NoLostWakeup, WorkIsCurrent,
           Working, HeldIsCurrent, HeldOf, control, work
<1>5. QED
  BY <1>2, <1>3, <1>4 DEF PrepareOutput

LEMMA SendFrameStep ==
  ASSUME IInv, SendFrame
  PROVE  IInv'
<1>1. /\ UNCHANGED <<stop, control, stream_q, captured, work, link, caller_at, viewer>>
      /\ thread_at = "encode" /\ MaxFailures \in Nat /\ failures \in Nat
  BY StreamAssumption DEF SendFrame, IInv, TypeOK
<1>2. CASE encode_retry /\ thread_at' = "top" /\ UNCHANGED <<codec, keyframes>>
  BY <1>1, <1>2
     DEF IInv, TypeOK, ThreadPc, QueueIsCurrent, LabelMatchesSource, SendReady, NoLostWakeup,
         WorkIsCurrent, Working, HeldIsCurrent, HeldOf, KeyframeComes, control, work,
         keyframes, codec, link, viewer
<1>3. CASE /\ \E p \in Encoded : held' = Append(held, p)
           /\ primed' = TRUE /\ failures' = 0 /\ encode_retry' = FALSE
           /\ thread_at' = "receive" /\ UNCHANGED <<encoder_open, keyframes>>
  <2>1. PICK p \in Encoded : held' = Append(held, p)
    BY <1>3
  <2>2. p \in Packet /\ p.generation = frame_generation /\ (~primed => p.key)
    BY DEF Encoded
  <2>3. held \in Seq(Packet) /\ Len(held) <= MaxDelay
    BY <1>1 DEF IInv, TypeOK, HeldIsCurrent
  <2>4. /\ held' \in Seq(Packet) /\ Len(held') = Len(held) + 1 /\ held' # <<>>
        /\ Len(held) \in Nat
        /\ held = <<>> => held'[1] = p
        /\ held # <<>> => held'[1] = held[1]
        /\ \A i \in 1..Len(held') : \/ i \in 1..Len(held) /\ held'[i] = held[i]
                                    \/ held'[i] = p
    BY <2>1, <2>2, <2>3, AppendFacts
  <2>5. Len(held') <= MaxDelay + 1
    BY <2>3, <2>4, StreamAssumption
  <2>6. 0 \in 0..(MaxFailures - 1)
    BY StreamAssumption
  <2>7. TypeOK'
    <3>1. /\ primed' = TRUE /\ failures' = 0 /\ encode_retry' = FALSE
          /\ thread_at' = "receive" /\ UNCHANGED <<encoder_open, keyframes>>
      BY <1>3
    <3>2. /\ (thread_at \in ThreadPc /\ primed \in BOOLEAN /\ encode_retry \in BOOLEAN)'
          /\ (failures \in 0..(MaxFailures - 1))'
          /\ (held \in Seq(Packet) /\ Len(held) <= MaxDelay + 1)'
      BY <2>4, <2>5, <2>6, <3>1 DEF ThreadPc
    <3>3. /\ UNCHANGED <<stop, stream_ch, stream_enabled, switch_pending, stream_generation>>
          /\ UNCHANGED <<stream_q, captured, frame, frame_generation, label, network>>
          /\ UNCHANGED <<output_retry, caller_at, shown, synced, encoder_open>>
          /\ UNCHANGED <<force_idr, wait_for_keyframe>>
      BY <1>1, <3>1 DEF control, work, keyframes, link, viewer
    <3>4. TypeOK
      BY DEF IInv
    <3>5. QED
      BY <3>2, <3>3, <3>4 DEF TypeOK
  <2>8. HeldIsCurrent'
    <3>1. \A i \in 1..Len(held) : held[i].generation = frame_generation
      BY <1>1 DEF IInv, HeldIsCurrent, HeldOf, Working
    <3>2. \A i \in 1..Len(held') : held'[i].generation = frame_generation
      BY <2>2, <2>4, <3>1
    <3>3. ~switch_pending => frame_generation = stream_generation
      BY <1>1 DEF IInv, WorkIsCurrent, Working
    <3>4. QED
      BY <1>1, <1>3, <3>2, <3>3 DEF HeldIsCurrent, HeldOf, Working, control, work
  <2>9. KeyframeComes'
    BY <1>1, <1>3, <2>2, <2>4 DEF IInv, KeyframeComes, keyframes, link, viewer
  <2>10. QED
    BY <1>1, <1>3, <2>4, <2>7, <2>8, <2>9
       DEF IInv, QueueIsCurrent, LabelMatchesSource, SendReady, NoLostWakeup, WorkIsCurrent,
           Working, control, work, keyframes, link, viewer
<1>4. CASE /\ failures + 1 < MaxFailures /\ failures' = failures + 1
           /\ encode_retry' = TRUE /\ thread_at' = "top"
           /\ UNCHANGED <<encoder_open, held, primed, keyframes>>
  <2>1. failures' \in 0..(MaxFailures - 1)
    BY <1>1, <1>4
  <2>2. QED
    BY <1>1, <1>4, <2>1
       DEF IInv, TypeOK, ThreadPc, QueueIsCurrent, LabelMatchesSource, SendReady, NoLostWakeup,
           WorkIsCurrent, Working, HeldIsCurrent, HeldOf, KeyframeComes, control, work,
           keyframes, codec, link, viewer
<1>5. CASE /\ failures + 1 >= MaxFailures /\ ResetEncoder /\ failures' = 0
           /\ encode_retry' = TRUE /\ ExpectKeyframe /\ thread_at' = "top"
  <2>1. /\ force_idr' = TRUE /\ wait_for_keyframe' = TRUE /\ encoder_open' = FALSE
        /\ held' = <<>> /\ primed' = FALSE
    BY <1>5 DEF ExpectKeyframe, SetKeyframes, ResetEncoder
  <2>2. 0 \in 0..(MaxFailures - 1)
    BY StreamAssumption
  <2>3. held' \in Seq(Packet) /\ Len(held') <= MaxDelay + 1 /\ Len(held') <= MaxDelay
    BY <2>1, EmptyFacts
  <2>4. TypeOK'
    <3>1. UNCHANGED <<stop, stream_ch, stream_enabled, switch_pending, stream_generation,
                      stream_q, captured, frame, frame_generation, label, network,
                      output_retry, caller_at, shown, synced>>
      BY <1>1 DEF control, work, link, viewer
    <3>2. thread_at' \in ThreadPc /\ failures' \in 0..(MaxFailures - 1)
      BY <1>5, <2>2 DEF ThreadPc
    <3>3. /\ encode_retry' \in BOOLEAN /\ force_idr' \in BOOLEAN
          /\ wait_for_keyframe' \in BOOLEAN /\ encoder_open' \in BOOLEAN
          /\ primed' \in BOOLEAN
      BY <1>5, <2>1
    <3>4. TypeOK
      BY DEF IInv
    <3>5. held' \in Seq(Packet) /\ Len(held') <= MaxDelay + 1
      BY <2>3
    <3>6. QED
      BY ONLY <3>1, <3>2, <3>3, <3>4, <3>5 DEF TypeOK
  <2>5. HeldIsCurrent'
    BY <1>5, <2>1, <2>3 DEF HeldIsCurrent, HeldOf, Working
  <2>6. QED
    BY <1>1, <1>5, <2>1, <2>4, <2>5
       DEF IInv, QueueIsCurrent, LabelMatchesSource, SendReady, NoLostWakeup, WorkIsCurrent,
           Working, KeyframeComes, control, work, link, viewer
<1>6. QED
  BY <1>2, <1>3, <1>4, <1>5 DEF SendFrame
-----------------------------------------------------------------------------
\* What is left in the encoder once its first packet is out.
LEMMA PacketOut ==
  ASSUME IInv, thread_at = "receive", held # <<>>, held' = Tail(held)
  PROVE  /\ held' \in Seq(Packet) /\ Len(held') <= MaxDelay
         /\ Head(held) \in Packet /\ Head(held) = held[1]
         /\ Head(held).generation = frame_generation
         /\ \A g : HeldOf(g) => \A i \in 1..Len(held') : held'[i].generation = g
<1>1. held \in Seq(Packet) /\ Len(held) <= MaxDelay + 1 /\ HeldOf(frame_generation)
  BY DEF IInv, TypeOK, HeldIsCurrent, Working
<1>2. /\ Len(held) \in Nat /\ Len(held) >= 1
      /\ Head(held) = held[1] /\ Head(held) \in Packet
      /\ held' \in Seq(Packet) /\ Len(held') = Len(held) - 1
      /\ \A i \in 1..Len(held') : held'[i] = held[i + 1] /\ i + 1 \in 1..Len(held)
  BY <1>1, TailFacts
<1>3. Len(held') <= MaxDelay
  BY <1>1, <1>2, StreamAssumption
<1>4. held[1].generation = frame_generation
  BY <1>1, <1>2 DEF HeldOf
<1>5. QED
  BY <1>2, <1>3, <1>4 DEF HeldOf

LEMMA DropPacketStep ==
  ASSUME IInv, DropPacket
  PROVE  IInv'
<1>1. /\ UNCHANGED <<stop, control, stream_q, captured, thread_at, work, keyframes,
                     encoder_open, primed, failures, encode_retry, link, caller_at, viewer>>
      /\ thread_at = "receive" /\ held # <<>> /\ held' = Tail(held) /\ wait_for_keyframe
  BY DEF DropPacket, Skips
<1>2. /\ held' \in Seq(Packet) /\ Len(held') <= MaxDelay
      /\ \A g : HeldOf(g) => \A i \in 1..Len(held') : held'[i].generation = g
  BY <1>1, PacketOut
<1>3. Len(held') \in Nat /\ Len(held') <= MaxDelay + 1
  BY <1>2, StreamAssumption
<1>4. TypeOK'
  BY <1>1, <1>2, <1>3 DEF IInv, TypeOK, control, work, keyframes, link, viewer
<1>5. HeldIsCurrent'
  BY <1>1, <1>2 DEF IInv, HeldIsCurrent, HeldOf, Working, control, work
<1>6. KeyframeComes'
  BY <1>1 DEF IInv, KeyframeComes, keyframes, link, viewer
<1>7. QED
  BY <1>1, <1>4, <1>5, <1>6
     DEF IInv, QueueIsCurrent, LabelMatchesSource, SendReady, NoLostWakeup, WorkIsCurrent,
         Working, control, work, keyframes, link, viewer

LEMMA PublishPacketStep ==
  ASSUME IInv, PublishPacket
  PROVE  IInv'
<1>1. /\ UNCHANGED <<stop, control, stream_q, captured, thread_at, work, encoder_open, primed,
                     failures, encode_retry, link, caller_at>>
      /\ thread_at = "receive" /\ held # <<>> /\ held' = Tail(held) /\ network = "open"
      /\ shown' = Head(held).generation /\ synced' = (synced \/ Head(held).key)
      /\ wait_for_keyframe => Head(held).key
  BY DEF PublishPacket, Skips
<1>2. /\ held' \in Seq(Packet) /\ Len(held') <= MaxDelay
      /\ Head(held) \in Packet /\ Head(held) = held[1]
      /\ Head(held).generation = frame_generation
      /\ \A g : HeldOf(g) => \A i \in 1..Len(held') : held'[i].generation = g
  BY <1>1, PacketOut
<1>3. Len(held') \in Nat /\ Len(held') <= MaxDelay + 1
  BY <1>2, StreamAssumption
<1>4. /\ force_idr' \in BOOLEAN /\ wait_for_keyframe' \in BOOLEAN
      /\ ~wait_for_keyframe' /\ wait_for_keyframe => Head(held).key
      /\ wait_for_keyframe' => wait_for_keyframe
  BY <1>1 DEF PublishPacket, SetKeyframes, keyframes, IInv, TypeOK
<1>5. shown' \in Generation /\ synced' \in BOOLEAN /\ Head(held).key \in BOOLEAN
  BY <1>1, <1>2 DEF IInv, TypeOK, Packet
<1>6. TypeOK'
  BY <1>1, <1>2, <1>3, <1>4, <1>5 DEF IInv, TypeOK, control, work, link
<1>7. HeldIsCurrent'
  BY <1>1, <1>2 DEF IInv, HeldIsCurrent, HeldOf, Working, control, work
<1>8. synced'
  BY <1>1, <1>2 DEF IInv, KeyframeComes
<1>9. KeyframeComes'
  BY <1>1, <1>8 DEF IInv, KeyframeComes, link
<1>10. WorkIsCurrent'
  <2>1. frame_generation <= frame_generation /\ stream_generation <= stream_generation
    BY DEF IInv, TypeOK, Generation
  <2>2. shown' = frame_generation
    BY <1>1, <1>2
  <2>3. frame_generation <= stream_generation
    BY <1>1 DEF IInv, WorkIsCurrent, Working
  <2>4. QED
    BY <1>1, <2>1, <2>2, <2>3 DEF IInv, WorkIsCurrent, Working, control, work
<1>11. QED
  BY <1>1, <1>6, <1>7, <1>9, <1>10
     DEF IInv, QueueIsCurrent, LabelMatchesSource, SendReady, NoLostWakeup,
         control, work, link

LEMMA PublishFailsStep ==
  ASSUME IInv, PublishFails
  PROVE  IInv'
<1>1. /\ UNCHANGED <<stop, control, stream_q, captured, work, encoder_open, primed, failures,
                     encode_retry, caller_at, shown>>
      /\ thread_at = "receive" /\ held # <<>> /\ held' = Tail(held)
      /\ network' = "closed" /\ output_retry' = TRUE /\ synced' = FALSE /\ thread_at' = "top"
      /\ force_idr' = TRUE /\ wait_for_keyframe' = TRUE
  BY DEF PublishFails, ExpectKeyframe, SetKeyframes
<1>2. /\ held' \in Seq(Packet) /\ Len(held') <= MaxDelay
      /\ \A g : HeldOf(g) => \A i \in 1..Len(held') : held'[i].generation = g
  BY <1>1, PacketOut
<1>3. Len(held') \in Nat /\ Len(held') <= MaxDelay + 1
  BY <1>2, StreamAssumption
<1>4. TypeOK'
  <2>1. UNCHANGED <<stop, stream_ch, stream_enabled, switch_pending, stream_generation,
                    stream_q, captured, frame, frame_generation, label, encoder_open, primed,
                    failures, encode_retry, caller_at, shown>>
    BY <1>1 DEF control, work
  <2>2. /\ thread_at' \in ThreadPc /\ network' \in {"open", "closed"}
        /\ output_retry' \in BOOLEAN /\ synced' \in BOOLEAN
        /\ force_idr' \in BOOLEAN /\ wait_for_keyframe' \in BOOLEAN
    BY <1>1 DEF ThreadPc
  <2>3. TypeOK
    BY DEF IInv
  <2>4. QED
    BY <1>2, <1>3, <2>1, <2>2, <2>3 DEF TypeOK
<1>5. HeldIsCurrent'
  BY <1>1, <1>2 DEF IInv, HeldIsCurrent, HeldOf, Working, control, work
<1>6. KeyframeComes'
  <2>1. ~primed => FALSE
    BY <1>1 DEF IInv, KeyframeComes
  <2>2. QED
    BY <1>1, <2>1 DEF KeyframeComes
<1>7. QED
  BY <1>1, <1>4, <1>5, <1>6
     DEF IInv, QueueIsCurrent, LabelMatchesSource, SendReady, NoLostWakeup, WorkIsCurrent,
         Working, control, work
-----------------------------------------------------------------------------
\* A new generation leaves the stream thread's work to the old one.
LEMMA GenerationStep ==
  ASSUME IInv, NewGeneration, stream_generation < MaxGeneration,
         UNCHANGED <<stop, captured, work, keyframes, codec, link, viewer>>,
         stream_ch' \in Selectable, stream_enabled' \in BOOLEAN,
         stream_q' \in Seq(Frame), Len(stream_q') <= 1,
         caller_at' = "idle"
  PROVE  IInv'
<1>1. /\ stream_generation' = stream_generation + 1 /\ switch_pending' = TRUE
      /\ thread_at' \in {thread_at, "top"} /\ thread_at' # "waiting"
      /\ thread_at # "waiting" => thread_at' = thread_at
      /\ thread_at = "waiting" => thread_at' = "top"
  BY DEF NewGeneration, WakeStream
<1>2. stream_generation' \in Generation /\ stream_generation <= stream_generation'
  BY <1>1, StreamAssumption DEF IInv, TypeOK, Generation
<1>3. thread_at' \in ThreadPc
  BY <1>1 DEF IInv, TypeOK, ThreadPc
<1>4. TypeOK'
  BY <1>1, <1>2, <1>3 DEF IInv, TypeOK, work, keyframes, codec, link, viewer
<1>5. WorkIsCurrent'
  <2>1. /\ stream_generation \in Nat /\ frame_generation \in Nat /\ shown \in Nat
    BY StreamAssumption DEF IInv, TypeOK, Generation
  <2>2. /\ shown <= stream_generation'
        /\ frame_generation <= stream_generation => frame_generation <= stream_generation'
    BY <1>1, <2>1 DEF IInv, WorkIsCurrent
  <2>3. Working' => Working
    BY <1>1 DEF Working
  <2>4. QED
    BY <1>1, <2>2, <2>3 DEF IInv, WorkIsCurrent, work, viewer
<1>6. HeldIsCurrent'
  BY <1>1 DEF IInv, HeldIsCurrent, HeldOf, Working, work, codec
<1>7. QED
  BY <1>1, <1>4, <1>5, <1>6
     DEF IInv, QueueIsCurrent, LabelMatchesSource, SendReady, NoLostWakeup, KeyframeComes,
         work, keyframes, codec, link, viewer

LEMMA SelectStep ==
  ASSUME IInv, NEW c \in Selectable, Select(c)
  PROVE  IInv'
<1>1. stream_q \in Seq(Frame) /\ Len(stream_q) <= 1 /\ stream_enabled \in BOOLEAN
  BY DEF IInv, TypeOK
<1>2. QED
  BY <1>1, GenerationStep DEF Select

LEMMA SetEnabledStep ==
  ASSUME IInv, SetEnabled
  PROVE  IInv'
<1>1. /\ stream_enabled' \in BOOLEAN /\ stream_q' = <<>> /\ caller_at' = "idle"
      /\ stream_ch' = stream_ch /\ stream_ch \in Selectable
      /\ stream_generation < MaxGeneration
  BY DEF SetEnabled, IInv, TypeOK
<1>2. stream_q' \in Seq(Frame) /\ Len(stream_q') <= 1
  BY <1>1, EmptyFacts
<1>3. QED
  BY <1>1, <1>2, GenerationStep DEF SetEnabled

LEMMA CallerStep ==
  ASSUME IInv, SetEnabledRequest \/ OpenSocket \/ DeinitRequest
  PROVE  IInv'
<1>1. UNCHANGED <<control, stream_q, captured, work, keyframes, codec, output_retry, viewer>>
  BY DEF SetEnabledRequest, OpenSocket, DeinitRequest, link
<1>2. CASE SetEnabledRequest
  <2>1. /\ caller_at' \in {"idle", "open", "enable", "disable"}
        /\ UNCHANGED <<stop, thread_at, network>>
        /\ stream_generation < MaxGeneration
    BY <1>2 DEF SetEnabledRequest, link
  <2>2. QED
    BY <1>1, <2>1
       DEF IInv, TypeOK, ThreadPc, QueueIsCurrent, LabelMatchesSource, SendReady, NoLostWakeup,
         WorkIsCurrent, Working, HeldIsCurrent, HeldOf, KeyframeComes, control, work, keyframes, codec, viewer
<1>3. CASE OpenSocket
  <2>1. /\ caller_at' \in {"idle", "open", "enable", "disable"}
        /\ UNCHANGED <<stop, thread_at>> /\ network' \in {network, "open"}
        /\ caller_at # "idle"
    BY <1>3 DEF OpenSocket
  <2>2. network' \in {"open", "closed"}
    BY <2>1 DEF IInv, TypeOK
  <2>3. QED
    BY <1>1, <2>1, <2>2
       DEF IInv, TypeOK, ThreadPc, QueueIsCurrent, LabelMatchesSource, SendReady, NoLostWakeup,
         WorkIsCurrent, Working, HeldIsCurrent, HeldOf, KeyframeComes, control, work, keyframes, codec, viewer
<1>4. CASE DeinitRequest
  <2>1. /\ UNCHANGED <<caller_at, network>> /\ stop' = TRUE
        /\ thread_at' \in {thread_at, "top"} /\ thread_at' # "waiting"
        /\ thread_at # "waiting" => thread_at' = thread_at
        /\ thread_at = "waiting" => thread_at' = "top"
    BY <1>4 DEF DeinitRequest, WakeStream, link
  <2>2. QED
    BY <1>1, <2>1
       DEF IInv, TypeOK, ThreadPc, QueueIsCurrent, LabelMatchesSource, SendReady, NoLostWakeup,
         WorkIsCurrent, Working, HeldIsCurrent, HeldOf, KeyframeComes, control, work, keyframes, codec, viewer
<1>5. QED
  BY <1>2, <1>3, <1>4

LEMMA StutterStep ==
  ASSUME IInv, UNCHANGED vars
  PROVE  IInv'
BY DEF IInv, TypeOK, ThreadPc, QueueIsCurrent, LabelMatchesSource, SendReady, NoLostWakeup,
         WorkIsCurrent, Working, HeldIsCurrent, HeldOf, KeyframeComes, vars, control, work, keyframes,
       codec, link, viewer
-----------------------------------------------------------------------------
LEMMA NextIInv == IInv /\ [Next]_vars => IInv'
<1> SUFFICES ASSUME IInv, [Next]_vars PROVE IInv'
  OBVIOUS
<1>1. ASSUME NEW c \in Channel, Capture(c) \/ Publish(c) PROVE IInv'
  BY <1>1, CaptureStep, PublishStep
<1>2. CASE Acknowledge \/ TakeFrame \/ DrawLabel \/ PrepareOutput \/ DiscardStale \/ SendFrame
  BY <1>2, AcknowledgeStep, TakeFrameStep, QuietStep, PrepareOutputStep, SendFrameStep
<1>3. CASE ReceiveNothing \/ DropPacket \/ PublishPacket \/ PublishFails
  BY <1>3, QuietStep, DropPacketStep, PublishPacketStep, PublishFailsStep
<1>4. ASSUME NEW c \in Selectable, Select(c) PROVE IInv'
  BY <1>4, SelectStep
<1>5. CASE SpuriousWake \/ SetEnabledRequest \/ OpenSocket \/ SetEnabled \/ DeinitRequest
  BY <1>5, QuietStep, CallerStep, SetEnabledStep
<1>6. CASE Terminated \/ UNCHANGED vars
  BY <1>6, StutterStep DEF Terminated
<1>7. QED
  BY <1>1, <1>2, <1>3, <1>4, <1>5, <1>6 DEF Next, StreamThread

LEMMA Invariance == Spec => []IInv
BY InitIInv, NextIInv, PTL DEF Spec
-----------------------------------------------------------------------------
\* Every variable keeps its type, and the queue, the encoder's backlog and the failure
\* counter stay within their bounds.
THEOREM TypeCorrect == Spec => []TypeOK
<1>1. IInv => TypeOK
  BY DEF IInv
<1>2. QED
  BY <1>1, Invariance, PTL

\* Whatever the interleaving of vp_stream_select with the capture threads, no frame of an
\* earlier selection waits for the stream thread.
THEOREM QueueCurrent == Spec => []QueueIsCurrent
<1>1. IInv => QueueIsCurrent
  BY DEF IInv
<1>2. QED
  BY <1>1, Invariance, PTL

\* A frame that is encoded bears the name of the source it came from.
THEOREM LabelIsSource == Spec => []LabelMatchesSource
<1>1. IInv => LabelMatchesSource
  BY DEF IInv
<1>2. QED
  BY <1>1, Invariance, PTL

\* vp_stream_thread has an encoder and an output whenever it uses them.
THEOREM SenderReady == Spec => []SendReady
<1>1. IInv => SendReady
  BY DEF IInv
<1>2. QED
  BY <1>1, Invariance, PTL

\* No signal on stream_cond is lost.
THEOREM NoWakeupIsLost == Spec => []NoLostWakeup
<1>1. IInv => NoLostWakeup
  BY DEF IInv
<1>2. QED
  BY <1>1, Invariance, PTL

\* The first packet after a switch or a reconnect is a keyframe, whatever the encoder
\* holds back and however often it is reset.
THEOREM KeyframeComesFirst == Spec => KeyframeFirst
<1>1. ASSUME IInv, PublishPacket PROVE synced \/ Head(held).key
  <2>1. /\ thread_at = "receive" /\ held # <<>> /\ held' = Tail(held)
        /\ wait_for_keyframe => Head(held).key
    BY <1>1 DEF PublishPacket, Skips
  <2>2. Head(held) = held[1]
    BY <1>1, <2>1, PacketOut
  <2>3. QED
    BY <1>1, <2>1, <2>2 DEF IInv, KeyframeComes
<1>2. IInv /\ [Next]_vars => [PublishPacket => synced \/ Head(held).key]_vars
  BY <1>1
<1>3. QED
  BY <1>2, Invariance, PTL DEF Spec, KeyframeFirst

\* Once a switch is acknowledged nothing of an earlier generation is published.
THEOREM SwitchIsFinal == Spec => OldSourceEnds
<1> DEFINE Current == /\ Head(held).generation >= shown
                      /\ Head(held).generation = stream_generation \/ switch_pending
<1>1. ASSUME IInv, PublishPacket PROVE Current
  <2>1. thread_at = "receive" /\ held # <<>> /\ held' = Tail(held)
    BY <1>1 DEF PublishPacket
  <2>2. Head(held).generation = frame_generation
    BY <1>1, <2>1, PacketOut
  <2>3. /\ shown <= frame_generation /\ shown \in Nat /\ frame_generation \in Nat
        /\ frame_generation = stream_generation \/ switch_pending
    BY <1>1, <2>1 DEF IInv, TypeOK, Generation, WorkIsCurrent, Working
  <2>4. QED
    BY <2>2, <2>3
<1>2. IInv /\ [Next]_vars => [PublishPacket => Current]_vars
  BY <1>1
<1>3. QED
  BY <1>2, Invariance, PTL DEF Spec, OldSourceEnds
=============================================================================
