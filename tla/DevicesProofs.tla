--------------------------- MODULE DevicesProofs ----------------------------
(***************************************************************************)
(* Proofs about Devices: what each component with a thread of its own      *)
(* leaves behind, for queues of every length, any ground stations and any  *)
(* number of failing calls. Each section has the inductive invariant of    *)
(* one component and shows that its steps keep it; the last section puts   *)
(* them together.                                                          *)
(***************************************************************************)
EXTENDS Devices, TLAPS

(***************************************************************************)
(* The recorder. The invariant follows one frame: of what is on its way to *)
(* the file at most the first frame was queued for an earlier recording,   *)
(* and once such a frame is in the file there is no other behind it.       *)
(***************************************************************************)
Steps == {"start", "top", "pop", "asleep", "frame", "empty", "finalize", "check", "ended"}
Files == [header : BOOLEAN, own : BOOLEAN, earlier : Nat, trailer : BOOLEAN]

Typing ==
  /\ main \in {"none", "up", "joining"}
  /\ stop_requested \in BOOLEAN /\ recording \in BOOLEAN /\ record_stop_request \in BOOLEAN
  /\ stopper \in BOOLEAN /\ encoded \in BOOLEAN /\ finished \in BOOLEAN /\ spoiled \in BOOLEAN
  /\ queue \in Seq(Nat) /\ tag \in Nat /\ frame \in Nat
  /\ capture \in {"start", "read", "want", "push", "leave", "ended"}
  /\ encode \in Steps
  /\ output \in {"none", "unready", "headless", "open"}
  /\ file \in Files
  /\ serial \in Nat /\ asked \in Nat

\* Who runs when: nothing is open or recorded but by a thread that will end it.
Threads ==
  /\ stopper => main = "up"
  /\ main = "none" => capture = "ended" /\ encode = "ended" /\ queue = <<>>
  /\ encode \in {"start", "ended"} => ~recording
  /\ ~recording => output = "none"
  /\ encode = "finalize" => recording /\ record_stop_request

\* For which recording the pending stop was asked.
Asked ==
  /\ stopper => asked = serial
  /\ record_stop_request => IF recording THEN serial - asked <= 1 ELSE serial - asked <= 0

\* What has been put into the file of the recording, or of the last one.
Whole ==
  /\ recording => ~finished
  /\ output \in {"unready", "headless"} => spoiled
  /\ recording /\ encoded /\ ~spoiled =>
       output = "open" /\ file.header /\ (file.own \/ file.earlier > 0)
  /\ FinishedWhole

\* At most one frame is on its way when nothing is recorded, or nothing will be.
Drained ==
  /\ EndsDrained
  /\ encode = "finalize" => Len(queue) + (IF capture = "push" THEN 1 ELSE 0) <= 1

\* The frames on their way: only the first may belong to an earlier recording.
Own ==
  /\ file.earlier <= 1
  /\ recording =>
       /\ \A i \in 2..Len(queue) : queue[i] = serial
       /\ capture = "push" /\ queue # <<>> => tag = serial
       /\ encode = "frame" \/ file.earlier = 1 =>
            /\ \A i \in 1..Len(queue) : queue[i] = serial
            /\ capture = "push" => tag = serial
       /\ encode = "frame" /\ file.earlier = 1 => frame = serial

RecordingInv == Typing /\ Threads /\ Asked /\ Whole /\ Drained /\ Own
-----------------------------------------------------------------------------
\* What writing makes of a file.
LEMMA WithHeaderTyped == ASSUME Typing PROVE WithHeader \in Files
<1>1. (file.header \/ output = "none") \in BOOLEAN
  OBVIOUS
<1> QED
  BY <1>1 DEF Typing, Files, WithHeader

LEMMA WithFrameTyped == ASSUME Typing PROVE WithFrame \in Files
<1>1. (file.own \/ frame = serial) \in BOOLEAN
  OBVIOUS
<1>2. (IF frame = serial THEN file.earlier ELSE file.earlier + 1) \in Nat
  BY DEF Typing, Files
<1> QED
  BY <1>1, <1>2 DEF Typing, Files, WithFrame

\* The variables keep their types.
LEMMA TypingKept ==
  ASSUME Depth \in Nat \ {0}, Typing, [Next]_vars
  PROVE  Typing'
<1> USE DEF Typing, Steps, Files, vars, flags, queueing, writing, pictures, ghosts
<1>1. CASE InitRecorder
  <2>1. main' \in {"none", "up", "joining"} /\ stop_requested' \in BOOLEAN
    BY <1>1 DEF InitRecorder
  <2>2. capture' \in {"start", "read", "want", "push", "leave", "ended"} /\ encode' \in Steps
    BY <1>1 DEF InitRecorder
  <2> QED
    BY <1>1, <2>1, <2>2 DEF InitRecorder
<1>2. CASE DeinitRecorder
  BY <1>2 DEF DeinitRecorder, Wake
<1>3. CASE Joined
  <2>1. queue' \in Seq(Nat)
    BY <1>3 DEF Joined
  <2> QED
    BY <1>3, <2>1, ZenonT(40) DEF Joined
<1>4. CASE record_start
  BY <1>4 DEF record_start, Wake
<1>5. CASE record_stop
  BY <1>5 DEF record_stop
<1>6. CASE RecordStopAsks
  <2>1. Wake /\ record_stop_request' \in BOOLEAN /\ stopper' \in BOOLEAN
    BY <1>6 DEF RecordStopAsks
  <2>2. encode' \in Steps
    BY <2>1 DEF Wake
  <2> QED
    BY <1>6, <2>1, <2>2 DEF RecordStopAsks
<1>7. CASE snapshot
  BY <1>7 DEF snapshot, WriteJpeg
<1>8. CASE CaptureStarts
  BY <1>8 DEF CaptureStarts
<1>9. CASE CaptureReads
  BY <1>9 DEF CaptureReads
<1>10. CASE CaptureWants
  BY <1>10 DEF CaptureWants, Want
<1>11. CASE CapturePushes
  <2> USE <1>11 DEF CapturePushes
  <2> DEFINE kept == IF Len(queue) = Depth THEN Tail(queue) ELSE queue
  <2>1. kept \in Seq(Nat)
    OBVIOUS
  <2>2. Append(kept, tag) \in Seq(Nat)
    BY <2>1
  <2>3. queue' = kept \/ queue' = Append(kept, tag)
    OBVIOUS
  <2>4. queue' \in Seq(Nat)
    BY <2>1, <2>2, <2>3
  <2>5. encode' \in Steps /\ spoiled' \in BOOLEAN
    BY DEF Wake
  <2> QED
    BY <2>4, <2>5
<1>12. CASE CaptureStops
  BY <1>12 DEF CaptureStops
<1>13. CASE CaptureLeaves
  BY <1>13 DEF CaptureLeaves, Wake
<1>14. CASE EncodeStarts
  BY <1>14 DEF EncodeStarts
<1>15. CASE EncodeTop
  BY <1>15 DEF EncodeTop, NoFile
<1>16. CASE EncodePops
  <2> USE <1>16 DEF EncodePops
  <2>1. queue' \in Seq(Nat)
    BY SMTT(30)
  <2>2. frame' \in Nat
    OBVIOUS
  <2>3. encode' \in Steps
    OBVIOUS
  <2> QED
    BY <2>1, <2>2, <2>3
<1>17. CASE EncodeTakes
  <2> USE <1>17 DEF EncodeTakes
  <2>1. CASE OpenOutput
    BY <2>1, ZenonT(40) DEF OpenOutput, NoFile
  <2>2. CASE EncodeFrame
    <3>1. file' \in Files
      <4>1. CASE UNCHANGED file
        BY <4>1
      <4>2. CASE file' = WithFrame
        BY <4>2, WithFrameTyped
      <4>3. CASE file' = WithHeader
        BY <4>3, WithHeaderTyped
      <4> QED
        BY <2>2, <4>1, <4>2, <4>3 DEF EncodeFrame
    <3>2. /\ output' \in {"none", "unready", "headless", "open"}
          /\ encoded' \in BOOLEAN /\ spoiled' \in BOOLEAN /\ asked' \in Nat
          /\ finished' \in BOOLEAN /\ record_stop_request' \in BOOLEAN
      BY <2>2 DEF EncodeFrame
    <3> QED
      BY <3>1, <3>2
  <2>3. CASE ~recording
    BY <2>3
  <2> QED
    BY <2>1, <2>2, <2>3
<1>18. CASE EncodeEmpty
  BY <1>18 DEF EncodeEmpty, Finalize
<1>19. CASE FinalizeRecord
  <2>1. CASE output = "headless"
    BY <1>19, <2>1 DEF FinalizeRecord
  <2>2. CASE output # "headless"
    <3>1. (output = "open") \in BOOLEAN
      OBVIOUS
    <3>2. file' \in Files
      BY <1>19, <2>2, <3>1 DEF FinalizeRecord
    <3> QED
      BY <1>19, <2>2, <3>2 DEF FinalizeRecord
  <2> QED
    BY <2>1, <2>2
<1>20. CASE EncodeChecks
  BY <1>20 DEF EncodeChecks
<1>21. CASE UNCHANGED vars
  BY <1>21
<1> QED
  BY <1>1, <1>2, <1>3, <1>4, <1>5, <1>6, <1>7, <1>8, <1>9, <1>10,
     <1>11, <1>12, <1>13, <1>14, <1>15, <1>16, <1>17, <1>18, <1>19, <1>20, <1>21
  DEF Next, CaptureStep, EncodeStep, CallerStep

\* Nothing is open or recorded but by a thread that will end it.
LEMMA ThreadsKept ==
  ASSUME Depth \in Nat \ {0}, RecordingInv, [Next]_vars
  PROVE  Threads'
<1> USE DEF RecordingInv, Typing, Steps, Files, Threads, Asked, Whole, Drained, Own, FinishedWhole,
            EndsDrained, vars, flags, queueing, writing, pictures, ghosts
<1>1. CASE InitRecorder
  BY <1>1 DEF InitRecorder
<1>2. CASE DeinitRecorder
  BY <1>2 DEF DeinitRecorder, Wake
<1>3. CASE Joined
  BY <1>3 DEF Joined
<1>4. CASE record_start
  BY <1>4 DEF record_start, Wake
<1>5. CASE record_stop
  BY <1>5 DEF record_stop
<1>6. CASE RecordStopAsks
  BY <1>6 DEF RecordStopAsks, Wake
<1>7. CASE snapshot
  BY <1>7 DEF snapshot, WriteJpeg
<1>8. CASE CaptureStarts
  BY <1>8 DEF CaptureStarts
<1>9. CASE CaptureReads
  BY <1>9 DEF CaptureReads
<1>10. CASE CaptureWants
  BY <1>10 DEF CaptureWants, Want
<1>11. CASE CapturePushes
  BY <1>11 DEF CapturePushes, Wake
<1>12. CASE CaptureStops
  BY <1>12 DEF CaptureStops
<1>13. CASE CaptureLeaves
  BY <1>13 DEF CaptureLeaves, Wake
<1>14. CASE EncodeStarts
  BY <1>14 DEF EncodeStarts
<1>15. CASE EncodeTop
  BY <1>15 DEF EncodeTop, NoFile
<1>16. CASE EncodePops
  BY <1>16 DEF EncodePops, Idle
<1>17. CASE EncodeTakes
  BY <1>17 DEF EncodeTakes, OpenOutput, EncodeFrame, WithHeader, WithFrame, NoFile
<1>18. CASE EncodeEmpty
  BY <1>18 DEF EncodeEmpty, Finalize
<1>19. CASE FinalizeRecord
  BY <1>19 DEF FinalizeRecord
<1>20. CASE EncodeChecks
  BY <1>20 DEF EncodeChecks
<1>21. CASE UNCHANGED vars
  BY <1>21
<1> QED
  BY <1>1, <1>2, <1>3, <1>4, <1>5, <1>6, <1>7, <1>8, <1>9, <1>10,
     <1>11, <1>12, <1>13, <1>14, <1>15, <1>16, <1>17, <1>18, <1>19, <1>20, <1>21
  DEF Next, CaptureStep, EncodeStep, CallerStep

\* A pending stop was asked for this recording or for the one before.
LEMMA AskedKept ==
  ASSUME Depth \in Nat \ {0}, RecordingInv, [Next]_vars
  PROVE  Asked'
<1> USE DEF RecordingInv, Typing, Steps, Files, Threads, Asked, Whole, Drained, Own, FinishedWhole,
            EndsDrained, vars, flags, queueing, writing, pictures, ghosts
<1>1. CASE InitRecorder
  BY <1>1 DEF InitRecorder
<1>2. CASE DeinitRecorder
  BY <1>2 DEF DeinitRecorder, Wake
<1>3. CASE Joined
  BY <1>3 DEF Joined
<1>4. CASE record_start
  BY <1>4 DEF record_start, Wake
<1>5. CASE record_stop
  BY <1>5 DEF record_stop
<1>6. CASE RecordStopAsks
  BY <1>6 DEF RecordStopAsks, Wake
<1>7. CASE snapshot
  BY <1>7 DEF snapshot, WriteJpeg
<1>8. CASE CaptureStarts
  BY <1>8 DEF CaptureStarts
<1>9. CASE CaptureReads
  BY <1>9 DEF CaptureReads
<1>10. CASE CaptureWants
  BY <1>10 DEF CaptureWants, Want
<1>11. CASE CapturePushes
  BY <1>11 DEF CapturePushes, Wake
<1>12. CASE CaptureStops
  BY <1>12 DEF CaptureStops
<1>13. CASE CaptureLeaves
  BY <1>13 DEF CaptureLeaves, Wake
<1>14. CASE EncodeStarts
  BY <1>14 DEF EncodeStarts
<1>15. CASE EncodeTop
  BY <1>15 DEF EncodeTop, NoFile
<1>16. CASE EncodePops
  BY <1>16 DEF EncodePops, Idle
<1>17. CASE EncodeTakes
  BY <1>17 DEF EncodeTakes, OpenOutput, EncodeFrame, WithHeader, WithFrame, NoFile
<1>18. CASE EncodeEmpty
  BY <1>18 DEF EncodeEmpty, Finalize
<1>19. CASE FinalizeRecord
  BY <1>19 DEF FinalizeRecord
<1>20. CASE EncodeChecks
  BY <1>20 DEF EncodeChecks
<1>21. CASE UNCHANGED vars
  BY <1>21
<1> QED
  BY <1>1, <1>2, <1>3, <1>4, <1>5, <1>6, <1>7, <1>8, <1>9, <1>10,
     <1>11, <1>12, <1>13, <1>14, <1>15, <1>16, <1>17, <1>18, <1>19, <1>20, <1>21
  DEF Next, CaptureStep, EncodeStep, CallerStep

\* A frame that was encoded is in the file, but for a failed call.
LEMMA WholeKept ==
  ASSUME Depth \in Nat \ {0}, RecordingInv, [Next]_vars
  PROVE  Whole'
<1> USE DEF RecordingInv, Typing, Steps, Files, Threads, Asked, Whole, Drained, Own, FinishedWhole,
            EndsDrained, vars, flags, queueing, writing, pictures, ghosts
<1>1. CASE InitRecorder
  BY <1>1 DEF InitRecorder
<1>2. CASE DeinitRecorder
  BY <1>2 DEF DeinitRecorder, Wake
<1>3. CASE Joined
  BY <1>3 DEF Joined
<1>4. CASE record_start
  BY <1>4 DEF record_start, Wake
<1>5. CASE record_stop
  BY <1>5 DEF record_stop
<1>6. CASE RecordStopAsks
  BY <1>6 DEF RecordStopAsks, Wake
<1>7. CASE snapshot
  BY <1>7 DEF snapshot, WriteJpeg
<1>8. CASE CaptureStarts
  BY <1>8 DEF CaptureStarts
<1>9. CASE CaptureReads
  BY <1>9 DEF CaptureReads
<1>10. CASE CaptureWants
  BY <1>10 DEF CaptureWants, Want
<1>11. CASE CapturePushes
  BY <1>11 DEF CapturePushes, Wake
<1>12. CASE CaptureStops
  BY <1>12 DEF CaptureStops
<1>13. CASE CaptureLeaves
  BY <1>13 DEF CaptureLeaves, Wake
<1>14. CASE EncodeStarts
  BY <1>14 DEF EncodeStarts
<1>15. CASE EncodeTop
  BY <1>15 DEF EncodeTop, NoFile
<1>16. CASE EncodePops
  BY <1>16 DEF EncodePops, Idle
<1>17. CASE EncodeTakes
  <2> USE <1>17 DEF EncodeTakes
  <2>1. CASE OpenOutput
    BY <2>1 DEF OpenOutput, NoFile
  <2>2. CASE recording /\ EncodeFrame
    <3>1. ~finished' /\ recording'
      BY <2>2 DEF EncodeFrame
    <3>2. CASE output' = "open" /\ file' = WithFrame
      <4>1. file'.header /\ (file'.own \/ file'.earlier > 0)
        BY <3>2 DEF WithFrame
      <4> QED
        BY <3>1, <3>2, <4>1
    <3>3. CASE spoiled'
      BY <3>1, <3>3
    <3>4. CASE output = "headless" /\ UNCHANGED <<file, spoiled>>
      BY <2>2, <3>1, <3>4
    <3> QED
      BY <2>2, <3>2, <3>3, <3>4 DEF EncodeFrame
  <2>3. CASE ~recording
    BY <2>3
  <2> QED
    BY <2>1, <2>2, <2>3
<1>18. CASE EncodeEmpty
  BY <1>18 DEF EncodeEmpty, Finalize
<1>19. CASE FinalizeRecord
  <2>1. CASE output = "headless"
    BY <1>19, <2>1 DEF FinalizeRecord
  <2>2. CASE output # "headless"
    <3>1. /\ file'.header = file.header /\ file'.own = file.own /\ file'.earlier = file.earlier
          /\ file'.trailer = (output = "open")
      BY <1>19, <2>2 DEF FinalizeRecord
    <3>2. finished' = encoded /\ spoiled' = spoiled /\ ~recording' /\ output' = "none" /\ recording
      BY <1>19, <2>2 DEF FinalizeRecord
    <3> HIDE <1>19
    <3> QED
      BY <3>1, <3>2
  <2> QED
    BY <2>1, <2>2
<1>20. CASE EncodeChecks
  BY <1>20 DEF EncodeChecks
<1>21. CASE UNCHANGED vars
  BY <1>21
<1> QED
  BY <1>1, <1>2, <1>3, <1>4, <1>5, <1>6, <1>7, <1>8, <1>9, <1>10,
     <1>11, <1>12, <1>13, <1>14, <1>15, <1>16, <1>17, <1>18, <1>19, <1>20, <1>21
  DEF Next, CaptureStep, EncodeStep, CallerStep

\* A recording ends when at most one frame is left.
LEMMA DrainedKept ==
  ASSUME Depth \in Nat \ {0}, RecordingInv, [Next]_vars
  PROVE  Drained'
<1> USE DEF RecordingInv, Typing, Steps, Files, Threads, Asked, Whole, Drained, Own, FinishedWhole,
            EndsDrained, vars, flags, queueing, writing, pictures, ghosts
<1>1. CASE InitRecorder
  BY <1>1 DEF InitRecorder
<1>2. CASE DeinitRecorder
  BY <1>2 DEF DeinitRecorder, Wake
<1>3. CASE Joined
  BY <1>3 DEF Joined
<1>4. CASE record_start
  BY <1>4 DEF record_start, Wake
<1>5. CASE record_stop
  BY <1>5 DEF record_stop
<1>6. CASE RecordStopAsks
  BY <1>6 DEF RecordStopAsks, Wake
<1>7. CASE snapshot
  BY <1>7 DEF snapshot, WriteJpeg
<1>8. CASE CaptureStarts
  BY <1>8 DEF CaptureStarts
<1>9. CASE CaptureReads
  BY <1>9 DEF CaptureReads
<1>10. CASE CaptureWants
  BY <1>10 DEF CaptureWants, Want
<1>11. CASE CapturePushes
  BY <1>11 DEF CapturePushes, Wake
<1>12. CASE CaptureStops
  BY <1>12 DEF CaptureStops
<1>13. CASE CaptureLeaves
  BY <1>13 DEF CaptureLeaves, Wake
<1>14. CASE EncodeStarts
  BY <1>14 DEF EncodeStarts
<1>15. CASE EncodeTop
  BY <1>15 DEF EncodeTop, NoFile
<1>16. CASE EncodePops
  <2> USE <1>16 DEF EncodePops
  <2>1. Len(queue) \in Nat /\ UNCHANGED <<recording, capture>> /\ encode # "frame"
    OBVIOUS
  <2>2. encode' # "finalize"
    OBVIOUS
  <2>3. \/ UNCHANGED queue /\ encode' # "frame"
        \/ Len(queue') = Len(queue) - 1 /\ encode' = "frame"
    OBVIOUS
  <2>4. encode = "pop"
    OBVIOUS
  <2> HIDE <1>16 DEF EncodePops
  <2>5. ~recording => Len(queue) + (IF capture = "push" THEN 1 ELSE 0) <= 1
    BY <2>1, <2>4
  <2>6. CASE capture = "push"
    BY <2>1, <2>2, <2>3, <2>5, <2>6
  <2>7. CASE capture # "push"
    BY <2>1, <2>2, <2>3, <2>5, <2>7
  <2> QED
    BY <2>6, <2>7
<1>17. CASE EncodeTakes
  BY <1>17 DEF EncodeTakes, OpenOutput, EncodeFrame, WithHeader, WithFrame, NoFile
<1>18. CASE EncodeEmpty
  BY <1>18 DEF EncodeEmpty, Finalize
<1>19. CASE FinalizeRecord
  <2>1. Len(queue) + (IF capture = "push" THEN 1 ELSE 0) <= 1 /\ recording
    BY <1>19 DEF FinalizeRecord
  <2>2. CASE encode' = "check"
    <3>1. UNCHANGED <<queue, capture>>
      BY <1>19 DEF FinalizeRecord
    <3> QED
      BY <2>1, <2>2, <3>1
  <2>3. CASE UNCHANGED <<recording, encode, queue, capture>>
    BY <2>1, <2>3
  <2> QED
    BY <1>19, <2>2, <2>3 DEF FinalizeRecord
<1>20. CASE EncodeChecks
  BY <1>20 DEF EncodeChecks
<1>21. CASE UNCHANGED vars
  BY <1>21
<1> QED
  BY <1>1, <1>2, <1>3, <1>4, <1>5, <1>6, <1>7, <1>8, <1>9, <1>10,
     <1>11, <1>12, <1>13, <1>14, <1>15, <1>16, <1>17, <1>18, <1>19, <1>20, <1>21
  DEF Next, CaptureStep, EncodeStep, CallerStep

\* Behind a frame of this recording comes none of an earlier one.
LEMMA OwnKept ==
  ASSUME Depth \in Nat \ {0}, RecordingInv, [Next]_vars
  PROVE  Own'
<1> USE DEF RecordingInv, Typing, Steps, Files, Threads, Asked, Whole, Drained, Own, FinishedWhole,
            EndsDrained, vars, flags, queueing, writing, pictures, ghosts
<1>1. CASE InitRecorder
  BY <1>1 DEF InitRecorder
<1>2. CASE DeinitRecorder
  BY <1>2 DEF DeinitRecorder, Wake
<1>3. CASE Joined
  BY <1>3 DEF Joined
<1>4. CASE record_start
  BY <1>4 DEF record_start, Wake
<1>5. CASE record_stop
  BY <1>5 DEF record_stop
<1>6. CASE RecordStopAsks
  BY <1>6 DEF RecordStopAsks, Wake
<1>7. CASE snapshot
  BY <1>7 DEF snapshot, WriteJpeg
<1>8. CASE CaptureStarts
  BY <1>8 DEF CaptureStarts
<1>9. CASE CaptureReads
  BY <1>9 DEF CaptureReads
<1>10. CASE CaptureWants
  BY <1>10 DEF CaptureWants, Want
<1>11. CASE CapturePushes
  <2> USE <1>11 DEF CapturePushes
  <2> DEFINE kept == IF Len(queue) = Depth THEN Tail(queue) ELSE queue
  <2>1. /\ kept \in Seq(Nat) /\ Len(kept) <= Len(queue)
        /\ \A i \in 1..Len(kept) : \E j \in i..Len(queue) : kept[i] = queue[j]
    <3>1. CASE Len(queue) = Depth
      <4>1. Len(kept) = Len(queue) - 1 /\ \A i \in 1..Len(kept) : kept[i] = queue[i + 1]
        BY <3>1
      <4> QED
        BY <3>1, <4>1
    <3>2. CASE Len(queue) # Depth
      BY <3>2
    <3> QED
      BY <3>1, <3>2
  <2>2. /\ UNCHANGED <<recording, serial, file, frame>>
        /\ capture' = "read" /\ (encode' = "frame" <=> encode = "frame")
    BY DEF Wake
  <2>3. queue' = kept \/ queue' = Append(kept, tag)
    OBVIOUS
  <2> HIDE DEF kept
  <2>4. ASSUME recording
        PROVE  \A i \in 2..Len(queue') : queue'[i] = serial
    <3> SUFFICES ASSUME NEW i \in 2..Len(queue') PROVE queue'[i] = serial
      OBVIOUS
    <3>1. CASE i <= Len(kept)
      <4>1. queue'[i] = kept[i]
        <5>1. CASE queue' = kept
          BY <5>1
        <5>2. CASE queue' = Append(kept, tag)
          BY <2>1, <3>1, <5>2
        <5> QED
          BY <2>3, <5>1, <5>2
      <4>2. PICK j \in i..Len(queue) : kept[i] = queue[j]
        BY <2>1, <3>1
      <4> QED
        BY <2>4, <4>1, <4>2
    <3>2. CASE i > Len(kept)
      <4>1. queue'[i] = tag /\ Len(kept) >= 1
        BY <2>1, <2>3, <3>2
      <4>2. queue # <<>>
        BY <2>1, <4>1
      <4> QED
        BY <2>4, <4>1, <4>2
    <3> QED
      BY <3>1, <3>2, <2>1
  <2>5. ASSUME recording, encode = "frame" \/ file.earlier = 1
        PROVE  \A i \in 1..Len(queue') : queue'[i] = serial
    <3> SUFFICES ASSUME NEW i \in 1..Len(queue') PROVE queue'[i] = serial
      OBVIOUS
    <3>1. CASE i <= Len(kept)
      <4>1. queue'[i] = kept[i]
        <5>1. CASE queue' = kept
          BY <5>1
        <5>2. CASE queue' = Append(kept, tag)
          BY <2>1, <3>1, <5>2
        <5> QED
          BY <2>3, <5>1, <5>2
      <4>2. PICK j \in i..Len(queue) : kept[i] = queue[j]
        BY <2>1, <3>1
      <4> QED
        BY <2>5, <4>1, <4>2
    <3>2. CASE i > Len(kept)
      <4>1. queue'[i] = tag
        BY <2>1, <2>3, <3>2
      <4> QED
        BY <2>5, <4>1
    <3> QED
      BY <3>1, <3>2, <2>1
  <2> HIDE <1>11 DEF CapturePushes
  <2> QED
    BY <2>2, <2>4, <2>5
<1>12. CASE CaptureStops
  BY <1>12 DEF CaptureStops
<1>13. CASE CaptureLeaves
  BY <1>13 DEF CaptureLeaves, Wake
<1>14. CASE EncodeStarts
  BY <1>14 DEF EncodeStarts
<1>15. CASE EncodeTop
  BY <1>15 DEF EncodeTop, NoFile
<1>16. CASE EncodePops
  <2> USE <1>16 DEF EncodePops
  <2>1. CASE UNCHANGED queue /\ encode' # "frame"
    BY <2>1
  <2>2. CASE queue # <<>> /\ encode' = "frame" /\ frame' = Head(queue) /\ queue' = Tail(queue)
    <3>1. \A i \in 1..Len(queue') : i + 1 \in 2..Len(queue) /\ queue'[i] = queue[i + 1]
      BY <2>2
    <3>2. frame' = queue[1] /\ 1 \in 1..Len(queue)
      BY <2>2
    <3>3. \A i \in 2..Len(queue') : i \in 1..Len(queue')
      BY <2>2
    <3> QED
      BY <2>2, <3>1, <3>2, <3>3
  <2> QED
    BY <2>1, <2>2
<1>17. CASE EncodeTakes
  <2> USE <1>17 DEF EncodeTakes
  <2>1. CASE OpenOutput
    BY <2>1 DEF OpenOutput, NoFile
  <2>2. CASE EncodeFrame
    <3>1. CASE UNCHANGED file
      BY <2>2, <3>1 DEF EncodeFrame
    <3>2. CASE file' = WithFrame
      <4>1. file'.earlier = IF frame = serial THEN file.earlier ELSE file.earlier + 1
        BY <3>2 DEF WithFrame
      <4> QED
        BY <2>2, <4>1
    <3>3. CASE file' = WithHeader
      <4>1. file'.earlier = file.earlier
        BY <3>3 DEF WithHeader
      <4> QED
        BY <2>2, <4>1
    <3> QED
      BY <2>2, <3>1, <3>2, <3>3 DEF EncodeFrame
  <2>3. CASE ~recording
    BY <2>3
  <2> QED
    BY <2>1, <2>2, <2>3
<1>18. CASE EncodeEmpty
  BY <1>18 DEF EncodeEmpty, Finalize
<1>19. CASE FinalizeRecord
  BY <1>19 DEF FinalizeRecord
<1>20. CASE EncodeChecks
  BY <1>20 DEF EncodeChecks
<1>21. CASE UNCHANGED vars
  BY <1>21
<1> QED
  BY <1>1, <1>2, <1>3, <1>4, <1>5, <1>6, <1>7, <1>8, <1>9, <1>10,
     <1>11, <1>12, <1>13, <1>14, <1>15, <1>16, <1>17, <1>18, <1>19, <1>20, <1>21
  DEF Next, CaptureStep, EncodeStep, CallerStep

LEMMA RecordingInit == Init => RecordingInv
<1> SUFFICES ASSUME Init PROVE RecordingInv
  OBVIOUS
<1> USE DEF Init, Fresh, NoFile
<1>1. Typing
  <2>1. queue \in Seq(Nat) /\ file \in Files
    BY DEF Files
  <2> QED
    BY <2>1 DEF Typing, Steps
<1>2. Threads /\ Asked /\ Whole
  BY DEF Threads, Asked, Whole, FinishedWhole
<1>3. Len(queue) = 0 /\ Drained /\ Own
  BY DEF Drained, Own, EndsDrained
<1> QED
  BY <1>1, <1>2, <1>3 DEF RecordingInv

LEMMA RecordingKept ==
  ASSUME Depth \in Nat \ {0}, RecordingInv, [Next]_vars PROVE RecordingInv'
BY TypingKept, ThreadsKept, AskedKept, WholeKept, DrainedKept, OwnKept DEF RecordingInv
-----------------------------------------------------------------------------
(***************************************************************************)
(* The lens. The thread's locals are the key: while it turns from one      *)
(* movement to another, and while a stop is on the wire, what it remembers *)
(* must still be what the lens does.                                       *)
(***************************************************************************)
\* What the thread's place says of its locals.
LensThread ==
  /\ z_at = "send" => z_motion_active /\ z_taken = z_last_action
  /\ z_at = "done" => ~z_motion_active
  /\ ~z_thread_started => z_at = "done"

LensInv == Z!TypeOK /\ LensThread /\ Z!MovesAsRemembered

\* Every movement is one of an axis, and no movement is rest.
LEMMA AxisFacts ==
  /\ \A a \in Z!Action : Z!AxisOf(a) \in Z!Axis
  /\ Z!Still \notin Z!Action
BY DEF Z!AxisOf, Z!Axis, Z!Action, Z!Still

\* What a stop command does to the lens, whether it arrives or not.
LEMMA StopMotionFacts ==
  ASSUME Z!TypeOK, NEW a \in Z!Action, Z!stop_motion(a)
  PROVE  /\ z_moves' \in [Z!Axis -> Z!Action \cup {Z!Still}]
         /\ \A x \in Z!Axis : z_moves'[x] # Z!Still => z_moves'[x] = z_moves[x]
         /\ z_losses' \in 0..MaxLensLosses
         /\ z_stop_lost' \subseteq Z!Axis
         /\ Z!AxisOf(a) \in z_stop_lost' \/ z_moves'[Z!AxisOf(a)] = Z!Still
         /\ \A x \in Z!Axis : x # Z!AxisOf(a) => z_moves'[x] = z_moves[x] /\ (x \in z_stop_lost' <=> x \in z_stop_lost)
<1> USE AxisFacts
<1>1. CASE /\ z_moves' = [z_moves EXCEPT ![Z!AxisOf(a)] = Z!Still]
           /\ z_stop_lost' = z_stop_lost \ {Z!AxisOf(a)}
           /\ UNCHANGED z_losses
  BY <1>1 DEF Z!TypeOK
<1>2. CASE Z!Lost /\ z_stop_lost' = z_stop_lost \cup {Z!AxisOf(a)}
  BY <1>2, DevicesAssumption DEF Z!TypeOK, Z!Lost
<1>3. QED
  BY <1>1, <1>2 DEF Z!stop_motion, Z!StopAxis

LEMMA LensInit == Z!Init => LensInv
<1>1. ASSUME Z!Init PROVE LensInv
  <2>1. z_moves \in [Z!Axis -> Z!Action \cup {Z!Still}] /\ \A x \in Z!Axis : z_moves[x] = Z!Still
    BY <1>1 DEF Z!Init
  <2>2. z_losses \in 0..MaxLensLosses
    BY <1>1, DevicesAssumption DEF Z!Init
  <2>3. Z!TypeOK
    BY <1>1, <2>1, <2>2, Zenon DEF Z!Init, Z!TypeOK, Z!Action
  <2>4. QED
    BY <1>1, <2>1, <2>3 DEF Z!Init, LensInv, LensThread, Z!MovesAsRemembered
<1>2. QED
  BY <1>1

\* If the lens and the memory of the thread stay, so does what relates them.
LEMMA LensUnchanged ==
  ASSUME Z!MovesAsRemembered, UNCHANGED <<z_moves, z_stop_lost, z_last_action, z_motion_active>>
  PROVE  Z!MovesAsRemembered'
BY DEF Z!MovesAsRemembered

LEMMA LensKept == LensInv /\ [Z!Next]_z_vars => LensInv'
<1> SUFFICES ASSUME LensInv, [Z!Next]_z_vars PROVE LensInv'
  OBVIOUS
<1> USE AxisFacts DEF LensInv
<1>1. ASSUME NEW a \in Z!Action, Z!Press(a) PROVE LensInv'
  BY <1>1, LensUnchanged DEF Z!Press, Z!thread, Z!lens, Z!TypeOK, LensThread
<1>2. CASE Z!Release
  BY <1>2, LensUnchanged DEF Z!Release, Z!thread, Z!lens, Z!TypeOK, LensThread
<1>3. CASE Z!StopRequest \/ Z!StopReturn
  <2>1. /\ UNCHANGED <<z_action, Z!thread, Z!lens>>
        /\ {z_running', z_stop_requested', z_thread_started'} \subseteq BOOLEAN
    BY <1>3 DEF Z!StopRequest, Z!StopReturn, Z!TypeOK
  <2>2. LensThread'
    BY <1>3, <2>1 DEF Z!StopRequest, Z!StopReturn, Z!thread, LensThread
  <2>3. QED
    BY <2>1, <2>2, LensUnchanged DEF Z!thread, Z!lens, Z!TypeOK
<1>4. CASE Z!TakeAction \/ Z!TakeStop \/ Z!Hold
  BY <1>4, LensUnchanged DEF Z!TakeAction, Z!TakeStop, Z!Hold, Z!wishes, Z!lens, Z!TypeOK, LensThread
<1>5. CASE Z!Turn
  <2>1. CASE z_motion_active /\ z_taken # z_last_action
    <3>1. Z!stop_motion(z_last_action)
      BY <1>5, <2>1 DEF Z!Turn
    <3>2. Z!TypeOK' /\ LensThread'
      BY <1>5, <3>1, StopMotionFacts DEF Z!Turn, Z!wishes, Z!TypeOK, LensThread
    <3>3. Z!MovesAsRemembered'
      <4> SUFFICES ASSUME NEW x \in Z!Axis, x \notin z_stop_lost', z_moves'[x] # Z!Still PROVE FALSE
        BY DEF Z!MovesAsRemembered
      <4>1. x # Z!AxisOf(z_last_action) /\ x \notin z_stop_lost /\ z_moves[x] # Z!Still
        BY <3>1, StopMotionFacts DEF Z!TypeOK
      <4>2. z_moves[x] = z_last_action /\ Z!AxisOf(z_moves[x]) = x
        BY <4>1 DEF Z!MovesAsRemembered, Z!TypeOK
      <4>3. QED
        BY <4>1, <4>2
    <3>4. QED
      BY <3>2, <3>3
  <2>2. CASE ~(z_motion_active /\ z_taken # z_last_action)
    BY <1>5, <2>2 DEF Z!Turn, Z!wishes, Z!lens, Z!TypeOK, LensThread, Z!MovesAsRemembered
  <2>3. QED
    BY <2>1, <2>2
<1>6. CASE Z!SendMotion
  <2>1. z_motion_active /\ z_taken = z_last_action /\ UNCHANGED <<z_taken, z_last_action, z_motion_active, Z!wishes>>
    BY <1>6 DEF Z!SendMotion, LensThread
  <2>2. CASE /\ z_moves' = [z_moves EXCEPT ![Z!AxisOf(z_taken)] = z_taken]
             /\ z_stop_lost' = z_stop_lost \ {Z!AxisOf(z_taken)}
             /\ UNCHANGED z_losses
    <3>1. Z!TypeOK' /\ LensThread'
      BY <1>6, <2>1, <2>2 DEF Z!SendMotion, Z!wishes, Z!TypeOK, LensThread
    <3>2. Z!MovesAsRemembered'
      BY <2>1, <2>2 DEF Z!MovesAsRemembered, Z!TypeOK
    <3>3. QED
      BY <3>1, <3>2
  <2>3. CASE Z!Lost /\ UNCHANGED z_stop_lost
    <3>1. z_losses' \in 0..MaxLensLosses /\ UNCHANGED z_moves
      BY <2>3, DevicesAssumption DEF Z!Lost, Z!TypeOK
    <3>2. Z!MovesAsRemembered'
      BY <2>1, <2>3, <3>1, LensUnchanged
    <3>3. QED
      BY <1>6, <2>1, <2>3, <3>1, <3>2 DEF Z!SendMotion, Z!wishes, Z!TypeOK, LensThread
  <2>4. QED
    BY <1>6, <2>2, <2>3 DEF Z!SendMotion, Z!send_motion
<1>7. ASSUME Z!stop_motion(z_last_action), z_motion_active' = FALSE, z_at' \in {"top", "done"},
             z_at \in {"released", "leaving"}, UNCHANGED <<z_taken, z_last_action, Z!wishes>>
      PROVE  LensInv'
  <2>1. Z!TypeOK' /\ LensThread'
    BY <1>7, StopMotionFacts DEF Z!wishes, Z!TypeOK, LensThread
  <2>2. Z!MovesAsRemembered'
    <3> SUFFICES ASSUME NEW x \in Z!Axis, x \notin z_stop_lost', z_moves'[x] # Z!Still PROVE FALSE
      BY DEF Z!MovesAsRemembered
    <3>1. x # Z!AxisOf(z_last_action) /\ x \notin z_stop_lost /\ z_moves[x] # Z!Still
      BY <1>7, StopMotionFacts DEF Z!TypeOK
    <3>2. z_moves[x] = z_last_action /\ Z!AxisOf(z_moves[x]) = x
      BY <3>1 DEF Z!MovesAsRemembered, Z!TypeOK
    <3>3. QED
      BY <3>1, <3>2
  <2>3. QED
    BY <2>1, <2>2
<1>8. CASE Z!StopMotion
  BY <1>7, <1>8 DEF Z!StopMotion
<1>9. CASE Z!Leave
  <2>1. CASE z_motion_active
    BY <1>7, <1>9, <2>1 DEF Z!Leave
  <2>2. CASE ~z_motion_active
    BY <1>9, <2>2 DEF Z!Leave, Z!wishes, Z!lens, Z!TypeOK, LensThread, Z!MovesAsRemembered
  <2>3. QED
    BY <2>1, <2>2
<1>10. CASE Z!Terminated \/ UNCHANGED z_vars
  <2>1. UNCHANGED z_vars
    BY <1>10 DEF Z!Terminated, Z!vars, Z!wishes, Z!thread, Z!lens, z_vars
  <2>2. QED
    BY <2>1, LensUnchanged DEF z_vars, Z!wishes, Z!thread, Z!lens, Z!TypeOK, LensThread
<1>11. QED
  BY <1>1, <1>2, <1>3, <1>4, <1>5, <1>6, <1>8, <1>9, <1>10 DEF Z!Next, Z!ThreadStep
-----------------------------------------------------------------------------
(***************************************************************************)
(* The gimbal. What it was last told is what is pressed, or a command that *)
(* says so is about to be made or on its way.                              *)
(***************************************************************************)
GimbalInv ==
  /\ g_direction_pressed \subseteq G!Direction
  /\ {g_center_requested, g_pending, g_expired, g_thread_started, g_initialized,
      g_stop_requested, g_failed} \subseteq BOOLEAN
  /\ g_pc \in {"none", "begin", "loop", "send", "angles"}
  /\ g_main \in {"idle", "joining"}
  /\ g_center_requested => g_direction_pressed = {}
  /\ ~g_thread_started =>
       /\ g_pc = "none" /\ g_main = "idle"
       /\ g_initialized => g_direction_pressed = {} /\ ~g_pending
  /\ g_pc \in {"none", "begin"} /\ ~g_failed => g_gimbal = G!Still
  /\ g_pc \in {"begin", "loop", "angles"} /\ ~g_pending /\ ~g_failed =>
       \/ g_gimbal = G!SpeedOf(g_direction_pressed)
       \/ g_gimbal = G!Centre /\ g_direction_pressed = {}
  /\ g_pc = "send" /\ ~g_pending =>
       \/ g_command = G!SpeedOf(g_direction_pressed)
       \/ g_command = G!Centre /\ g_direction_pressed = {}

LEMMA NothingPressedIsStill == G!SpeedOf({}) = G!Still
BY DEF G!SpeedOf, G!Axis, G!Still

LEMMA GimbalKept ==
  ASSUME GimbalInv, [G!Next]_g_vars PROVE GimbalInv'
<1> USE NothingPressedIsStill DEF GimbalInv, G!control, G!lifecycle
<1>1. ASSUME NEW d \in G!Direction, NEW pressed \in BOOLEAN, G!set_gimbal_direction(d, pressed)
      PROVE  GimbalInv'
  BY <1>1 DEF G!set_gimbal_direction, G!Confirmed
<1>2. CASE G!center_gimbal
  BY <1>2 DEF G!center_gimbal, G!Confirmed
<1>3. CASE G!Elapse
  BY <1>3 DEF G!Elapse
<1>4. CASE G!Apply
  BY <1>4 DEF G!Apply, G!Watchdog
<1>5. CASE G!SendCommand
  BY <1>5 DEF G!SendCommand, G!Send
<1>6. CASE G!ReadAngles
  BY <1>6 DEF G!ReadAngles
<1>7. CASE G!ThreadEnds
  BY <1>7 DEF G!ThreadEnds, G!LastStop, G!Send
<1>8. CASE G!service_init
  BY <1>8 DEF G!service_init, G!Main
<1>9. CASE G!service_start
  BY <1>9 DEF G!service_start, G!Main
<1>10. CASE G!service_stop
  BY <1>10 DEF G!service_stop, G!Main
<1>11. CASE G!Joined
  BY <1>11 DEF G!Joined
<1>12. CASE UNCHANGED g_vars
  BY <1>12 DEF g_vars
<1>13. CASE G!ThreadBegins
  BY <1>13 DEF G!ThreadBegins
<1>14. CASE G!ClockFails
  BY <1>14 DEF G!ClockFails
<1> QED
  BY <1>1, <1>2, <1>3, <1>4, <1>5, <1>6, <1>7, <1>8, <1>9, <1>10, <1>11, <1>12, <1>13, <1>14
  DEF G!Next, G!ThreadStep
-----------------------------------------------------------------------------
(***************************************************************************)
(* The unlock key. A request is never forgotten while the thread runs: what *)
(* is pending has been asked for, and a service that is opened again has   *)
(* nothing pending.                                                        *)
(***************************************************************************)
UnlockInv ==
  /\ {u_opened, u_running, u_thread_started, u_stop_requested, u_unlock_pending,
      u_asked} \subseteq BOOLEAN
  /\ u_pc \in {"none", "loop", "press", "read", "closing", "closed"}
  /\ u_running <=> u_pc # "none"
  /\ u_thread_started <=> u_running
  /\ u_pc = "closed" => ~u_opened
  /\ u_unlock_pending => IF u_running THEN u_asked ELSE ~u_opened

LEMMA UnlockKept == ASSUME UnlockInv, [U!Next]_u_vars PROVE UnlockInv'
<1> USE DEF UnlockInv, U!lifecycle
<1>1. CASE U!request_unlock
  BY <1>1 DEF U!request_unlock
<1>2. CASE U!Snapshot
  BY <1>2 DEF U!Snapshot, U!ClearPending
<1>3. CASE U!SendKey
  BY <1>3 DEF U!SendKey
<1>4. CASE U!ProcessOnce
  BY <1>4 DEF U!ProcessOnce
<1>5. CASE U!ClosePort
  BY <1>5 DEF U!ClosePort
<1>6. CASE U!ThreadEnds
  BY <1>6 DEF U!ThreadEnds
<1>7. CASE U!service_init
  BY <1>7 DEF U!service_init, U!Main
<1>8. CASE U!service_start
  <2> USE <1>8 DEF U!service_start, U!Main
  <2>1. ~u_unlock_pending
    OBVIOUS
  <2>2. CASE u_running' /\ u_thread_started' /\ u_pc' = "loop"
    BY <2>1, <2>2
  <2>3. CASE UNCHANGED <<u_running, u_thread_started, u_pc>>
    BY <2>1, <2>3
  <2> QED
    BY <2>2, <2>3
<1>9. CASE U!service_stop
  BY <1>9 DEF U!service_stop, U!Main
<1>10. CASE U!Joined
  BY <1>10 DEF U!Joined
<1>11. CASE UNCHANGED u_vars
  BY <1>11 DEF u_vars
<1> QED
  BY <1>1, <1>2, <1>3, <1>4, <1>5, <1>6, <1>7, <1>8, <1>9, <1>10, <1>11
  DEF U!Next, U!ThreadStep

\* Only the snapshot leads to a press, and it takes what was asked for.
LEMMA PressTakesRequest ==
  ASSUME UnlockInv, [U!Next]_u_vars, u_pc' = "press", u_pc # "press"
  PROVE  u_asked /\ ~u_asked'
<1>1. U!Snapshot
  BY DEF U!Next, U!ThreadStep, u_vars, U!request_unlock, U!SendKey, U!ProcessOnce, U!ClosePort,
         U!ThreadEnds, U!service_init, U!service_start, U!service_stop, U!Joined, U!Main
<1> QED
  BY <1>1 DEF U!Snapshot, UnlockInv
-----------------------------------------------------------------------------
(***************************************************************************)
(* The transport. Over a connection everything read is of the peer it was  *)
(* made with, since what is left of one is dropped before the next; a      *)
(* datagram names its sender when it is read.                              *)
(***************************************************************************)
Halves == {"whole", "head", "tail"}
Parts == [command : [from : Peer, number : Nat], half : Halves]
Streams == {"tcp_server", "tcp_client"}
TalkingTo == a_pc \in {"connected", "answer"}

TransportInv ==
  /\ a_transport \in A!Kinds
  /\ a_pc \in {"none", "turn", "open", "connecting", "listening", "connected", "answer",
               "reconnect", "ended"}
  /\ a_inbox \in Seq(Parts)
  /\ a_sent \in Nat
  /\ a_main = "none" => a_pc = "none"
  /\ a_transport \in Streams =>
       IF TalkingTo THEN \A i \in 1..Len(a_inbox) : a_inbox[i].command.from = a_peer
                    ELSE a_inbox = <<>>
  /\ a_pc = "answer" => a_in_work.from = a_peer \/ a_transport = "serial"
  /\ a_pc \in {"none", "turn", "open", "reconnect", "ended"} => a_open = {}
  /\ a_pc = "listening" => a_transport = "tcp_server" /\ a_open = {"listen"}
  /\ a_pc = "connecting" => a_transport = "tcp_client" /\ a_open = {"link"}
  /\ TalkingTo =>
       a_open = IF a_transport = "tcp_server" THEN {"listen", "link"} ELSE {"link"}
  /\ A!AnswersTheSender

\* A command is put on the wire whole or in parts, all of its sender.
LEMMA WhatPeersSend ==
  ASSUME TransportInv, A!PeerSends
  PROVE  /\ a_inbox' \in Seq(Parts)
         /\ a_transport \in Streams =>
              \A i \in 1..Len(a_inbox') : a_inbox'[i].command.from = a_peer
<1>1. PICK p \in Peer :
        /\ a_transport \in Streams => p = a_peer
        /\ LET c == [from |-> p, number |-> a_sent + 1]
           IN \/ a_inbox' = Append(a_inbox, A!Part(c, "whole"))
              \/ a_inbox' = a_inbox \o <<A!Part(c, "head"), A!Part(c, "tail")>>
              \/ a_inbox' = Append(a_inbox, A!Part(c, "head"))
  BY DEF A!PeerSends, Streams
<1> DEFINE c == [from |-> p, number |-> a_sent + 1]
<1>2. c \in [from : Peer, number : Nat] /\ c.from = p
  BY DEF TransportInv
<1>3. \A half \in Halves : A!Part(c, half) \in Parts /\ A!Part(c, half).command.from = p
  BY <1>2 DEF A!Part, Parts
<1>4. a_inbox \in Seq(Parts)
  BY DEF TransportInv
<1>5. a_transport \in Streams => \A i \in 1..Len(a_inbox) : a_inbox[i].command.from = a_peer
  BY DEF TransportInv, A!PeerSends, TalkingTo
<1> HIDE DEF c
<1>6. CASE \E half \in Halves : a_inbox' = Append(a_inbox, A!Part(c, half))
  <2>1. PICK half \in Halves : a_inbox' = Append(a_inbox, A!Part(c, half))
    BY <1>6
  <2> DEFINE part == A!Part(c, half)
  <2>2. part \in Parts /\ part.command.from = p
    BY <1>3
  <2> HIDE DEF part
  <2>3. a_inbox' = Append(a_inbox, part)
    BY <2>1 DEF part
  <2> QED
    BY <1>1, <1>4, <1>5, <2>2, <2>3
<1>7. CASE a_inbox' = a_inbox \o <<A!Part(c, "head"), A!Part(c, "tail")>>
  <2> DEFINE first == A!Part(c, "head")  second == A!Part(c, "tail")
  <2>1. {first, second} \subseteq Parts /\ first.command.from = p /\ second.command.from = p
    BY <1>3 DEF Halves
  <2> HIDE DEF first, second
  <2>2. a_inbox' = a_inbox \o <<first, second>>
    BY <1>7 DEF first, second
  <2> QED
    BY <1>1, <1>4, <1>5, <2>1, <2>2
<1> QED
  BY <1>1, <1>6, <1>7 DEF c, Halves

\* Reading takes the oldest part.
LEMMA WhatIsLeft ==
  ASSUME TransportInv, a_inbox # <<>>, a_inbox' = Tail(a_inbox)
  PROVE  /\ a_inbox' \in Seq(Parts)
         /\ \A i \in 1..Len(a_inbox') : i + 1 \in 1..Len(a_inbox) /\ a_inbox'[i] = a_inbox[i + 1]
BY DEF TransportInv

\* When the transport is closed no descriptor is left, and when the connection of a
\* server ends, the one it listens on.
LEMMA AfterReturn ==
  ASSUME TransportInv, A!RunReturns
  PROVE  a_open' = {} /\ a_inbox' = <<>> /\ a_pc' \in {"ended", "reconnect"}
<1>1. a_open \subseteq {"listen", "link"}
  BY DEF TransportInv, TalkingTo
<1> QED
  BY <1>1 DEF A!RunReturns, A!Closed

LEMMA AfterDisconnection ==
  ASSUME TransportInv, TalkingTo, A!Disconnected
  PROVE  /\ a_inbox' = <<>>
         /\ IF a_transport = "tcp_server"
            THEN a_open' = {"listen"} /\ a_pc' = "listening"
            ELSE a_open' = {} /\ a_pc' \in {"ended", "reconnect"}
<1>1. CASE a_transport = "tcp_server"
  BY <1>1 DEF TransportInv, TalkingTo, A!Disconnected, A!Closed
<1>2. CASE a_transport # "tcp_server"
  BY <1>2, AfterReturn DEF A!Disconnected
<1> QED
  BY <1>1, <1>2

LEMMA TransportKept == ASSUME TransportInv, [A!Next]_a_vars PROVE TransportInv'
<1> USE DEF TransportInv, A!Thread, A!Fault, A!thread, A!Kinds, Streams, TalkingTo,
            A!AnswersTheSender
<1>0. <<>> \in Seq(Parts)
  OBVIOUS
<1>1. CASE A!Turn
  BY <1>1 DEF A!Turn
<1>2. CASE A!Open
  BY <1>0, <1>2, AfterReturn DEF A!Open
<1>3. CASE A!Connecting
  <2>1. CASE a_pc' = "connected" /\ UNCHANGED <<a_open, a_inbox>>
    <3>1. a_transport = "tcp_client" /\ a_open = {"link"} /\ a_inbox = <<>>
      BY <1>3 DEF A!Connecting
    <3>2. UNCHANGED <<a_transport, a_main, a_sent, a_acked>>
      BY <1>3 DEF A!Connecting
    <3> QED
      BY <2>1, <3>1, <3>2
  <2>2. CASE A!RunReturns
    BY <1>0, <1>3, <2>2, AfterReturn DEF A!Connecting
  <2> QED
    BY <1>3, <2>1, <2>2 DEF A!Connecting
<1>4. CASE A!LeavesOnStop
  BY <1>0, <1>4, AfterReturn, AfterDisconnection DEF A!LeavesOnStop
<1>5. CASE A!Answer
  <2>1. CASE a_acked' = a_acked \cup {[command |-> a_in_work, to |-> a_peer]} /\ a_pc' = "connected"
             /\ UNCHANGED <<a_open, a_peer, a_inbox, a_faults>>
    BY <1>5, <2>1 DEF A!Answer
  <2>2. CASE UNCHANGED a_acked
    BY <1>0, <1>5, <2>2, AfterDisconnection DEF A!Answer
  <2> QED
    BY <1>5, <2>1, <2>2 DEF A!Answer, A!ReplyTo
<1>6. CASE A!Accept
  BY <1>6 DEF A!Accept
<1>7. CASE A!ConnectionEnds
  BY <1>0, <1>7, AfterReturn, AfterDisconnection DEF A!ConnectionEnds
<1>8. CASE A!Receive
  <2> DEFINE part == Head(a_inbox)
  <2>1. /\ a_pc = "connected" /\ a_inbox # <<>> /\ a_inbox' = Tail(a_inbox)
        /\ a_peer' = IF a_transport = "udp" THEN part.command.from ELSE a_peer
        /\ (a_in_work' = part.command /\ a_pc' = "answer") \/ UNCHANGED <<a_in_work, a_pc>>
        /\ UNCHANGED <<a_transport, a_main, a_sent, a_open, a_acked>>
    BY <1>8 DEF A!Receive
  <2>2. part = a_inbox[1] /\ 1 \in 1..Len(a_inbox)
    BY <2>1
  <2>3. a_transport \in Streams => part.command.from = a_peer
    BY <2>1, <2>2
  <2> HIDE DEF part
  <2> QED
    BY <2>1, <2>3, WhatIsLeft
<1>9. CASE A!PeerSends
  <2>1. /\ TalkingTo /\ a_sent' = a_sent + 1
        /\ UNCHANGED <<a_transport, a_pc, a_open, a_peer, a_in_work, a_acked, a_main>>
    BY <1>9 DEF A!PeerSends
  <2> QED
    BY <1>9, <2>1, WhatPeersSend
<1>10. CASE A!service_init
  BY <1>10 DEF A!service_init
<1>11. CASE A!service_deinit
  BY <1>11 DEF A!service_deinit
<1>12. CASE A!Joined
  BY <1>12 DEF A!Joined
<1>13. CASE UNCHANGED a_vars
  BY <1>13 DEF a_vars
<1> QED
  BY <1>1, <1>2, <1>3, <1>4, <1>5, <1>6, <1>7, <1>8, <1>9, <1>10, <1>11, <1>12, <1>13
  DEF A!Next, A!ThreadStep
-----------------------------------------------------------------------------
(***************************************************************************)
(* The services of the motor, the laser and the thermal camera. Their      *)
(* thread lives from the start to the end of running, and while it serves  *)
(* nothing it has nothing in hand; a queue that no thread serves is empty. *)
(***************************************************************************)
Mine == D!Requests[d_service]
Requested == UNION {D!Requests[s] : s \in DOMAIN D!Requests}
InHand == Requested \cup {D!None}
DeviceStates == [moving : InHand, coil : BOOLEAN, emitting : BOOLEAN, palette : InHand]

ServiceTyping ==
  /\ d_service \in DOMAIN D!Requests
  /\ {d_opened, d_running, d_thread_started, d_stop_requested, d_active, d_lamp_due,
      d_measuring, d_late} \subseteq BOOLEAN
  /\ d_queue \in Seq(Mine) /\ d_inHand \in Mine \cup {D!None}
  /\ d_pc \in {"none", "loop", "wait", "serve", "pulse", "read", "leave", "closed"}
  /\ d_main \in {"idle", "joining"}
  /\ d_device \in DeviceStates

ThreadServes ==
  /\ d_running <=> d_pc # "none"
  /\ d_thread_started <=> d_running
  /\ d_pc \in {"serve", "pulse"} <=> d_inHand # D!None
  /\ d_pc \in {"leave", "closed"} \/ d_main = "joining" => d_stop_requested
  /\ ~d_running => d_queue = <<>>
  /\ d_lamp_due \/ d_measuring => d_service = "laser"

ServiceInv == ServiceTyping /\ ThreadServes /\ D!QuietAtRest

LEMMA RequestFacts ==
  /\ DOMAIN D!Requests = {"motor", "laser", "thermal"}
  /\ D!Requests["laser"] = {"single", "continuous", "standby"}
  /\ \A s \in DOMAIN D!Requests : D!Requests[s] \subseteq Requested
  /\ {"stop", "white_hot"} \subseteq Requested
  /\ D!None \notin Requested
<1>1. /\ DOMAIN D!Requests = {"motor", "laser", "thermal"}
      /\ D!Requests["motor"] = {"forward", "backward", "stop", "trigger"}
      /\ D!Requests["laser"] = {"single", "continuous", "standby"}
      /\ D!Requests["thermal"] = {"white_hot", "black_hot"}
  BY DEF D!Requests
<1> QED
  BY <1>1 DEF Requested, D!None

\* A service remains the one it is.
LEMMA SameService ==
  ASSUME [D!Next]_d_vars PROVE d_service' = d_service /\ Mine' = Mine
<1>1. d_service' = d_service
  BY DEF D!Next, D!ThreadStep, D!request, D!request_single_measure, D!push_request,
         D!set_measuring_osd, D!TakeRequest, D!Woken, D!SpuriousWakeup, D!Loop, D!HandleMotor,
         D!HandleLaser, D!ReadContinuous, D!HandleThermal, D!Standby, D!ClosePort, D!ThreadEnds,
         D!service_init, D!service_start, D!service_stop, D!Joined, D!Thread, D!Main, d_vars
<1> QED
  BY <1>1 DEF Mine

\* What the calls make of the device.
LEMMA DeviceFacts ==
  ASSUME d_device \in DeviceStates, NEW w \in InHand, NEW b \in BOOLEAN
  PROVE  /\ [d_device EXCEPT !.moving = w] \in DeviceStates
         /\ [d_device EXCEPT !.palette = w] \in DeviceStates
         /\ [d_device EXCEPT !.coil = b] \in DeviceStates
         /\ [d_device EXCEPT !.emitting = b] \in DeviceStates
BY DEF DeviceStates

LEMMA ServiceTypingKept == ASSUME ServiceInv, [D!Next]_d_vars PROVE ServiceTyping'
<1>0. /\ d_service' = d_service /\ Mine' = Mine /\ <<>> \in Seq(Mine)
      /\ D!None \notin Mine /\ d_inHand \in InHand
  BY SameService, RequestFacts DEF Mine, InHand, ServiceInv, ServiceTyping
<1> USE <1>0
    DEF ServiceInv, ServiceTyping, ThreadServes, D!lifecycle, D!worker, D!osd, D!bounds, D!Thread,
        D!NoCall, D!Handled, D!Call, D!push_osd, D!set_error_osd
<1>1. ASSUME NEW r \in Mine, D!push_request(r) PROVE d_queue' \in Seq(Mine)
  BY <1>1 DEF D!push_request
<1>2. CASE D!request
  <2>1. PICK r \in Mine : D!push_request(r) /\ UNCHANGED D!osd
    BY <1>2 DEF D!request, Mine
  <2> QED
    BY <1>1, <2>1 DEF D!push_request
<1>3. CASE D!request_single_measure
  <2>1. "single" \in Mine /\ D!push_request("single")
    BY <1>3, RequestFacts DEF D!request_single_measure, Mine
  <2>2. d_lamp_due' \in BOOLEAN /\ UNCHANGED <<d_measuring, d_late>>
    BY <1>3 DEF D!request_single_measure
  <2> QED
    BY <1>1, <2>1, <2>2 DEF D!push_request
<1>4. CASE D!set_measuring_osd
  BY <1>4 DEF D!set_measuring_osd
<1>5. CASE D!Loop
  <2>1. CASE UNCHANGED <<d_queue, d_inHand>>
    BY <1>5, <2>1 DEF D!Loop
  <2>2. CASE d_queue # <<>> /\ d_pc' = "serve" /\ d_inHand' = Head(d_queue) /\ d_queue' = Tail(d_queue)
    <3>1. Head(d_queue) \in Mine /\ Tail(d_queue) \in Seq(Mine)
      BY <2>2
    <3> QED
      BY <1>5, <2>2, <3>1 DEF D!Loop
  <2> QED
    BY <1>5, <2>1, <2>2 DEF D!Loop
<1>6. CASE D!HandleMotor
  <2>1. d_device' \in DeviceStates
    BY <1>6, DeviceFacts DEF D!HandleMotor, D!EndPulse
  <2>2. d_pc' \in {"loop", "pulse"} /\ d_inHand' \in {d_inHand, D!None}
    BY <1>6 DEF D!HandleMotor, D!EndPulse
  <2>3. UNCHANGED <<D!lifecycle, d_queue, d_main, d_active, d_lamp_due, d_measuring, d_late>>
    BY <1>6 DEF D!HandleMotor, D!EndPulse
  <2> QED
    BY <2>1, <2>2, <2>3
<1>7. CASE D!HandleLaser
  <2>1. d_inHand \in {"single", "continuous", "standby"}
    BY <1>7, RequestFacts DEF D!HandleLaser, Mine
  <2>2. d_device' \in DeviceStates
    BY <1>7, <2>1, DeviceFacts DEF D!HandleLaser
  <2>3. d_pc' = "loop" /\ d_inHand' = D!None /\ d_active' \in BOOLEAN
    BY <1>7, <2>1 DEF D!HandleLaser
  <2>4. {d_lamp_due', d_measuring', d_late'} \subseteq BOOLEAN
    BY <1>7, <2>1 DEF D!HandleLaser
  <2>5. UNCHANGED <<D!lifecycle, d_queue, d_main>>
    BY <1>7 DEF D!HandleLaser
  <2> QED
    BY <2>2, <2>3, <2>4, <2>5
<1>8. CASE D!ReadContinuous
  BY <1>8 DEF D!ReadContinuous
<1>9. CASE D!HandleThermal
  <2>1. d_device' \in DeviceStates
    BY <1>9, DeviceFacts DEF D!HandleThermal
  <2>2. d_pc' = "loop" /\ d_inHand' = D!None
    BY <1>9 DEF D!HandleThermal
  <2>3. UNCHANGED <<D!lifecycle, d_queue, d_main, d_active, d_lamp_due, d_measuring, d_late>>
    BY <1>9 DEF D!HandleThermal
  <2> QED
    BY <2>1, <2>2, <2>3
<1>10. CASE D!Standby
  <2>1. d_device' \in DeviceStates
    BY <1>10, DeviceFacts DEF D!Standby
  <2>2. /\ d_active' \in BOOLEAN
        /\ UNCHANGED <<D!lifecycle, d_queue, d_inHand, d_pc, d_main, d_lamp_due, d_measuring, d_late>>
    BY <1>10 DEF D!Standby
  <2> QED
    BY <2>1, <2>2
<1>11. CASE D!ClosePort
  BY <1>11 DEF D!ClosePort
<1>12. CASE D!ThreadEnds
  <2>1. d_late' \in BOOLEAN /\ d_queue' \in Seq(Mine)
    BY <1>12 DEF D!ThreadEnds, D!MeasurementPending
  <2> QED
    BY <1>12, <2>1 DEF D!ThreadEnds
<1>13. CASE D!service_init
  BY <1>13 DEF D!service_init, D!Main
<1>14. CASE D!service_start
  BY <1>14 DEF D!service_start, D!Main
<1>15. CASE D!service_stop
  <2>1. d_queue' \in Seq(Mine) /\ d_main' \in {"idle", "joining"}
    BY <1>15 DEF D!service_stop, D!Main
  <2> QED
    BY <1>15, <2>1 DEF D!service_stop, D!Main
<1>16. CASE D!Joined
  BY <1>16 DEF D!Joined
<1>17. CASE UNCHANGED d_vars
  BY <1>17 DEF d_vars
<1> QED
  BY <1>2, <1>3, <1>4, <1>5, <1>6, <1>7, <1>8, <1>9, <1>10, <1>11, <1>12, <1>13, <1>14, <1>15,
     <1>16, <1>17
  DEF D!Next, D!ThreadStep, D!TakeRequest, D!Woken, D!SpuriousWakeup

LEMMA ThreadServesKept == ASSUME ServiceInv, [D!Next]_d_vars PROVE ThreadServes'
<1>0. d_service' = d_service /\ D!None \notin Mine
  BY SameService, RequestFacts DEF Mine, ServiceInv, ServiceTyping
<1> USE <1>0
    DEF ServiceInv, ServiceTyping, ThreadServes, D!lifecycle, D!worker, D!osd, D!bounds, D!Thread,
        D!NoCall, D!Handled, D!push_osd, D!set_error_osd
<1>1. CASE D!request
  BY <1>1 DEF D!request, D!push_request
<1>2. CASE D!request_single_measure
  BY <1>2 DEF D!request_single_measure, D!push_request
<1>3. CASE D!set_measuring_osd
  BY <1>3 DEF D!set_measuring_osd
<1>4. CASE D!Loop /\ d_pc \in {"loop", "wait"}
  <2>1. d_queue # <<>> => Head(d_queue) # D!None
    BY DEF ServiceTyping
  <2> QED
    BY <1>4, <2>1 DEF D!Loop, D!StopSeen
<1>5. CASE D!HandleMotor
  BY <1>5 DEF D!HandleMotor, D!EndPulse, D!Call
<1>6. CASE D!HandleLaser
  <2>1. d_inHand \in {"single", "continuous", "standby"}
    BY <1>6, RequestFacts DEF D!HandleLaser, Mine
  <2> QED
    BY <1>6, <2>1 DEF D!HandleLaser, D!Call
<1>7. CASE D!ReadContinuous
  BY <1>7 DEF D!ReadContinuous
<1>8. CASE D!HandleThermal
  BY <1>8 DEF D!HandleThermal, D!Call
<1>9. CASE D!Standby
  BY <1>9 DEF D!Standby
<1>10. CASE D!ClosePort
  BY <1>10 DEF D!ClosePort
<1>11. CASE D!ThreadEnds
  BY <1>11 DEF D!ThreadEnds
<1>12. CASE D!service_init
  BY <1>12 DEF D!service_init, D!Main
<1>13. CASE D!service_start
  <2>1. /\ d_main = "idle" /\ d_pc = "none"
        /\ UNCHANGED <<d_stop_requested, d_queue, d_inHand, d_main, d_lamp_due, d_measuring>>
    BY <1>13 DEF D!service_start, D!Main
  <2>2. CASE d_running' /\ d_thread_started' /\ d_pc' = "loop"
    BY <2>1, <2>2
  <2>3. CASE UNCHANGED <<d_running, d_thread_started, d_pc>>
    BY <2>1, <2>3
  <2> QED
    BY <1>13, <2>2, <2>3 DEF D!service_start
<1>14. CASE D!service_stop
  BY <1>14 DEF D!service_stop, D!Main
<1>15. CASE D!Joined
  BY <1>15 DEF D!Joined
<1>16. CASE UNCHANGED d_vars
  BY <1>16 DEF d_vars
<1> QED
  BY <1>1, <1>2, <1>3, <1>4, <1>5, <1>6, <1>7, <1>8, <1>9, <1>10, <1>11, <1>12, <1>13, <1>14, <1>15,
     <1>16
  DEF D!Next, D!ThreadStep, D!TakeRequest, D!Woken, D!SpuriousWakeup

\* A measurement that is queued stays so until the thread has served it.
LEMMA MeasurementStays ==
  ASSUME ServiceTyping, ServiceTyping'
  PROVE  /\ \A r \in Mine : d_queue' = Append(d_queue, r) /\ UNCHANGED d_inHand =>
              (D!MeasurementPending => D!MeasurementPending')
         /\ d_queue # <<>> /\ d_inHand = D!None /\ d_inHand' = Head(d_queue) /\ d_queue' = Tail(d_queue) =>
              (D!MeasurementPending => D!MeasurementPending')
         /\ UNCHANGED d_queue /\ d_inHand # "single" =>
              (D!MeasurementPending => D!MeasurementPending')
<1> USE DEF D!MeasurementPending, ServiceTyping
<1>1. ASSUME NEW r \in Mine, d_queue' = Append(d_queue, r), UNCHANGED d_inHand, D!MeasurementPending
      PROVE  D!MeasurementPending'
  BY <1>1
<1>2. ASSUME d_queue # <<>>, d_inHand = D!None, d_inHand' = Head(d_queue), d_queue' = Tail(d_queue),
             D!MeasurementPending
      PROVE  D!MeasurementPending'
  <2>1. PICK i \in 1..Len(d_queue) : d_queue[i] = "single"
    BY <1>2 DEF D!None
  <2>2. CASE i = 1
    BY <1>2, <2>1, <2>2
  <2>3. CASE i # 1
    <3>1. i - 1 \in DOMAIN d_queue' /\ d_queue'[i - 1] = "single"
      BY <1>2, <2>1, <2>3
    <3> QED
      BY <3>1
  <2> QED
    BY <2>2, <2>3
<1>3. ASSUME UNCHANGED d_queue, d_inHand # "single", D!MeasurementPending
      PROVE  D!MeasurementPending'
  BY <1>3
<1> QED
  BY <1>1, <1>2, <1>3

\* A step that does not touch the device keeps it as quiet as it was.
LEMMA DeviceUntouched ==
  ASSUME D!QuietAtRest, UNCHANGED <<d_device, d_failed>>,
         d_device.coil /\ d_pc = "pulse" => d_pc' = "pulse",
         d_device.emitting /\ d_active => d_active',
         d_measuring' /\ ~d_late' => D!MeasurementPending'
  PROVE  D!QuietAtRest'
BY DEF D!QuietAtRest

LEMMA QuietKept == ASSUME ServiceInv, [D!Next]_d_vars PROVE D!QuietAtRest'
<1>0. /\ ServiceTyping' /\ ThreadServes' /\ d_service' = d_service
      /\ D!None \notin Mine
  BY SameService, ServiceTypingKept, ThreadServesKept, RequestFacts
  DEF Mine, ServiceInv, ServiceTyping
<1>00. /\ d_measuring /\ ~d_late => D!MeasurementPending
       /\ D!QuietAtRest
  BY DEF ServiceInv, D!QuietAtRest
<1> USE <1>0, <1>00, MeasurementStays
    DEF ServiceInv, ThreadServes, D!lifecycle, D!worker, D!osd, D!bounds, D!Thread,
        D!NoCall, D!Handled, D!push_osd, D!set_error_osd
<1>1. CASE D!request
  <2>1. PICK r \in Mine : D!push_request(r) /\ UNCHANGED D!osd
    BY <1>1 DEF D!request, Mine
  <2> QED
    BY <2>1, DeviceUntouched DEF D!push_request
<1>2. CASE D!request_single_measure
  <2>1. "single" \in Mine /\ D!push_request("single") /\ UNCHANGED <<d_measuring, d_late>>
    BY <1>2, RequestFacts DEF D!request_single_measure, Mine
  <2> QED
    BY <2>1, DeviceUntouched DEF D!push_request
<1>3. CASE D!set_measuring_osd
  <2>1. ~d_late' => D!MeasurementPending'
    BY <1>3 DEF D!set_measuring_osd, D!MeasurementPending
  <2> QED
    BY <1>3, <2>1, DeviceUntouched DEF D!set_measuring_osd
<1>4. CASE D!Loop /\ d_pc \in {"loop", "wait"}
  <2>1. D!MeasurementPending => D!MeasurementPending'
    <3>1. CASE UNCHANGED <<d_queue, d_inHand>>
      BY <3>1 DEF D!MeasurementPending
    <3>2. CASE d_queue # <<>> /\ d_inHand' = Head(d_queue) /\ d_queue' = Tail(d_queue)
      BY <1>4, <3>2 DEF ServiceTyping
    <3> QED
      BY <1>4, <3>1, <3>2 DEF D!Loop
  <2> QED
    BY <1>4, <2>1, DeviceUntouched DEF D!Loop
<1>5. CASE D!HandleMotor
  <2> USE DEF D!QuietAtRest, ServiceTyping, DeviceStates
  <2>1. ~d_measuring /\ ~d_measuring'
    BY <1>5 DEF D!HandleMotor, D!EndPulse
  <2>2. CASE d_pc = "serve" /\ d_inHand = "trigger"
    BY <1>5, <2>1, <2>2 DEF D!HandleMotor, D!Call
  <2>3. CASE d_pc = "pulse"
    BY <1>5, <2>1, <2>3 DEF D!HandleMotor, D!EndPulse, D!Call
  <2>4. CASE d_pc = "serve" /\ d_inHand # "trigger"
    BY <1>5, <2>1, <2>4 DEF D!HandleMotor, D!Call
  <2> QED
    BY <1>5, <2>2, <2>3, <2>4 DEF D!HandleMotor
<1>6. CASE D!HandleLaser
  <2> USE DEF D!QuietAtRest, ServiceTyping, DeviceStates
  <2>1. CASE d_inHand = "single"
    BY <1>6, <2>1 DEF D!HandleLaser, D!Call
  <2>2. CASE d_inHand = "continuous"
    BY <1>6, <2>2 DEF D!HandleLaser, D!Call
  <2>3. CASE d_inHand = "standby"
    BY <1>6, <2>3 DEF D!HandleLaser, D!Call
  <2> QED
    BY <1>6, <2>1, <2>2, <2>3, RequestFacts DEF D!HandleLaser, Mine
<1>7. CASE D!ReadContinuous
  <2>1. /\ d_pc = "read" /\ d_pc' = "loop"
        /\ UNCHANGED <<d_queue, d_inHand, d_device>>
    BY <1>7 DEF D!ReadContinuous
  <2>2. D!MeasurementPending => D!MeasurementPending'
    BY <2>1 DEF D!MeasurementPending
  <2>3. \/ UNCHANGED <<d_active, d_failed>>
        \/ d_failed' = d_failed \cup {"read"}
    BY <1>7 DEF D!ReadContinuous
  <2>4. UNCHANGED <<d_measuring, d_late>> \/ ~d_measuring'
    BY <1>7 DEF D!ReadContinuous
  <2>5. CASE UNCHANGED <<d_active, d_failed>>
    <3>1. d_measuring' /\ ~d_late' => D!MeasurementPending'
      BY <2>2, <2>4 DEF D!QuietAtRest
    <3> QED
      BY <2>1, <2>5, <3>1, DeviceUntouched
  <2>6. CASE d_failed' = d_failed \cup {"read"}
    <3>1. "read" \in d_failed' /\ d_failed \subseteq d_failed'
      BY <2>6
    <3>2. d_measuring' /\ ~d_late' => D!MeasurementPending'
      BY <2>2, <2>4 DEF D!QuietAtRest
    <3>3. d_device'.coil => d_failed' \cap {"coil on", "coil off"} # {}
      BY <2>1, <3>1 DEF D!QuietAtRest
    <3> QED
      BY <3>1, <3>2, <3>3 DEF D!QuietAtRest
  <2> QED
    BY <2>3, <2>5, <2>6
<1>8. CASE D!HandleThermal
  <2>1. ~d_measuring /\ ~d_measuring'
    BY <1>8 DEF D!HandleThermal
  <2> QED
    BY <1>8, <2>1 DEF D!HandleThermal, D!Call, D!QuietAtRest, ServiceTyping, DeviceStates
<1>9. CASE D!Standby
  <2>1. d_pc = "leave" /\ UNCHANGED <<d_pc, d_queue, d_inHand, d_measuring, d_late>>
    BY <1>9 DEF D!Standby
  <2>2. D!MeasurementPending => D!MeasurementPending'
    BY <2>1 DEF D!MeasurementPending
  <2>3. /\ d_device'.coil = d_device.coil
        /\ \/ ~d_device'.emitting /\ UNCHANGED d_failed
           \/ d_failed' = d_failed \cup {"standby"}
    <3> DEFINE quiet == [d_device EXCEPT !.emitting = FALSE]
    <3>1. quiet.coil = d_device.coil /\ quiet.emitting = FALSE
      BY DEF ServiceTyping, DeviceStates
    <3>2. \/ d_device' = quiet /\ UNCHANGED d_failed
          \/ d_device' \in {d_device, quiet} /\ d_failed' = d_failed \cup {"standby"}
      BY <1>9 DEF D!Standby, D!Call
    <3> QED
      BY <3>1, <3>2
  <2> QED
    BY <2>1, <2>2, <2>3 DEF D!QuietAtRest
<1>10. CASE D!ClosePort
  <2>1. D!MeasurementPending => D!MeasurementPending'
    BY <1>10 DEF D!ClosePort, D!MeasurementPending
  <2> QED
    BY <1>10, <2>1, DeviceUntouched DEF D!ClosePort
<1>11. CASE D!ThreadEnds
  BY <1>11, DeviceUntouched DEF D!ThreadEnds
<1>12. CASE D!service_init \/ D!service_start \/ D!service_stop \/ D!Joined
  <2>1. UNCHANGED <<d_queue, d_inHand>>
    BY <1>12 DEF D!service_init, D!service_start, D!service_stop, D!Joined, D!Main
  <2>2. D!MeasurementPending => D!MeasurementPending'
    BY <2>1 DEF D!MeasurementPending
  <2>3. UNCHANGED <<d_device, d_failed, d_active, D!osd>> /\ (d_pc = "pulse" => d_pc' = "pulse")
    BY <1>12 DEF D!service_init, D!service_start, D!service_stop, D!Joined, D!Main
  <2> QED
    BY <2>2, <2>3, DeviceUntouched
<1>13. CASE UNCHANGED d_vars
  BY <1>13 DEF d_vars, D!QuietAtRest, D!MeasurementPending
<1> QED
  BY <1>1, <1>2, <1>3, <1>4, <1>5, <1>6, <1>7, <1>8, <1>9, <1>10, <1>11, <1>12, <1>13
  DEF D!Next, D!ThreadStep, D!TakeRequest, D!Woken, D!SpuriousWakeup

\* Every step of a service is a step of the pipe, or none.
LEMMA PipeStep ==
  ASSUME ServiceInv, [D!Next]_d_vars
  PROVE  [D!Pipe!Next]_<<d_queue, d_inHand, d_running /\ ~d_stop_requested>>
<1> DEFINE open == d_running /\ ~d_stop_requested
<1>0. Mine \subseteq Requested
  BY RequestFacts DEF Mine, ServiceInv, ServiceTyping
<1> USE DEF ServiceInv, ServiceTyping, ThreadServes, D!lifecycle, D!worker, D!osd, D!bounds, D!Thread,
        D!NoCall, D!Handled
<1>1. CASE \E r \in Mine : D!push_request(r)
  <2>1. PICK r \in Mine : D!push_request(r)
    BY <1>1
  <2>2. r \in UNION {D!Requests[s] : s \in DOMAIN D!Requests}
    BY <1>0 DEF Requested
  <2>3. D!Pipe!Take(r)
    BY <2>1 DEF D!push_request, D!Pipe!Take
  <2> QED
    BY <2>2, <2>3 DEF D!Pipe!Next
<1>2. CASE D!Loop /\ d_pc \in {"loop", "wait"}
  <2>1. CASE UNCHANGED <<d_queue, d_inHand>>
    BY <1>2, <2>1 DEF D!Loop
  <2>2. CASE ~d_stop_requested /\ d_queue # <<>> /\ d_inHand' = Head(d_queue) /\ d_queue' = Tail(d_queue)
    <3>1. D!Pipe!Begin
      BY <1>2, <2>2 DEF D!Loop, D!Pipe!Begin
    <3> QED
      BY <3>1 DEF D!Pipe!Next
  <2> QED
    BY <1>2, <2>1, <2>2 DEF D!Loop, D!StopSeen
<1>3. CASE D!HandleMotor \/ D!HandleLaser \/ D!HandleThermal
  <2>1. UNCHANGED <<d_queue, d_running, d_stop_requested>>
    BY <1>3 DEF D!HandleMotor, D!HandleLaser, D!HandleThermal
  <2>2. d_inHand # D!None /\ d_inHand' \in {d_inHand, D!None}
    <3>1. D!HandleLaser => d_inHand \in {"single", "continuous", "standby"}
      BY RequestFacts DEF D!HandleLaser, Mine
    <3> QED
      BY <1>3, <3>1 DEF D!HandleMotor, D!HandleLaser, D!HandleThermal, D!EndPulse, D!Call
  <2>3. CASE d_inHand' = D!None
    <3>1. D!Pipe!Finish
      BY <2>1, <2>2, <2>3 DEF D!Pipe!Finish
    <3> QED
      BY <3>1 DEF D!Pipe!Next
  <2> QED
    BY <2>1, <2>2, <2>3
<1>4. CASE D!set_measuring_osd \/ D!ReadContinuous \/ D!Standby \/ D!ClosePort \/ D!Joined
  BY <1>4 DEF D!set_measuring_osd, D!ReadContinuous, D!Standby, D!ClosePort, D!Joined
<1>5. CASE D!ThreadEnds
  <2>1. D!Pipe!Drop
    BY <1>5 DEF D!ThreadEnds, D!Pipe!Drop
  <2> QED
    BY <2>1 DEF D!Pipe!Next
<1>6. CASE D!service_init
  <2>1. D!Pipe!Drop
    BY <1>6 DEF D!service_init, D!Main, D!Pipe!Drop
  <2> QED
    BY <2>1 DEF D!Pipe!Next
<1>7. CASE D!service_start
  <2>1. d_inHand = D!None /\ ~open /\ UNCHANGED <<d_queue, d_inHand>>
    BY <1>7 DEF D!service_start, D!Main
  <2>2. CASE open'
    <3>1. D!Pipe!Open
      BY <2>1, <2>2 DEF D!Pipe!Open
    <3> QED
      BY <3>1 DEF D!Pipe!Next
  <2> QED
    BY <2>1, <2>2
<1>8. CASE D!service_stop
  <2>1. D!Pipe!Close \/ D!Pipe!Drop
    BY <1>8 DEF D!service_stop, D!Main, D!Pipe!Close, D!Pipe!Drop
  <2> QED
    BY <2>1 DEF D!Pipe!Next
<1>9. CASE UNCHANGED d_vars
  BY <1>9 DEF d_vars
<1> QED
  BY <1>1, <1>2, <1>3, <1>4, <1>5, <1>6, <1>7, <1>8, <1>9, RequestFacts
  DEF D!Next, D!ThreadStep, D!TakeRequest, D!Woken, D!SpuriousWakeup, D!request,
      D!request_single_measure, Mine
-----------------------------------------------------------------------------
(***************************************************************************)
(* All together. A step of Devices is one of each component, or none.      *)
(***************************************************************************)
LEMMA EachSteps ==
  ASSUME [DevicesNext]_<<unit, vars, d_vars, g_vars, u_vars, a_vars, z_vars>>
  PROVE  /\ [Next]_vars /\ [Z!Next]_z_vars /\ [G!Next]_g_vars
         /\ [U!Next]_u_vars /\ [A!Next]_a_vars /\ [D!Next]_d_vars
BY DEF DevicesNext, RecorderNext

DevicesInv ==
  RecordingInv /\ LensInv /\ GimbalInv /\ UnlockInv /\ TransportInv /\ ServiceInv

LEMMA DevicesStart == DevicesInit => DevicesInv
<1> SUFFICES ASSUME DevicesInit PROVE DevicesInv
  OBVIOUS
<1>1. RecordingInv /\ LensInv
  BY RecordingInit, LensInit DEF DevicesInit
<1>2. GimbalInv
  BY DEF DevicesInit, G!Init, GimbalInv
<1>3. UnlockInv
  BY DEF DevicesInit, U!Init, UnlockInv
<1>4. TransportInv
  <2>1. a_inbox \in Seq(Parts)
    BY DEF DevicesInit, A!Init
  <2> QED
    BY <2>1 DEF DevicesInit, A!Init, TransportInv, TalkingTo, A!AnswersTheSender
<1>5. ServiceInv
  <2> USE DEF DevicesInit, D!Init
  <2>1. d_queue = <<>> /\ d_queue \in Seq(Mine)
    OBVIOUS
  <2>2. d_device \in DeviceStates /\ d_device.coil = FALSE /\ d_device.emitting = FALSE
    BY RequestFacts DEF DeviceStates, InHand
  <2> QED
    BY <2>1, <2>2 DEF ServiceInv, ServiceTyping, ThreadServes, D!QuietAtRest
<1> QED
  BY <1>1, <1>2, <1>3, <1>4, <1>5 DEF DevicesInv

LEMMA DevicesKept ==
  DevicesInv /\ [DevicesNext]_<<unit, vars, d_vars, g_vars, u_vars, a_vars, z_vars>> => DevicesInv'
<1> SUFFICES ASSUME DevicesInv, [DevicesNext]_<<unit, vars, d_vars, g_vars, u_vars, a_vars, z_vars>>
             PROVE  DevicesInv'
  OBVIOUS
<1> USE EachSteps DEF DevicesInv
<1>1. RecordingInv'
  BY DevicesAssumption, RecordingKept
<1>2. LensInv'
  BY LensKept
<1>3. GimbalInv' /\ UnlockInv' /\ TransportInv'
  BY GimbalKept, UnlockKept, TransportKept
<1>4. ServiceInv'
  BY ServiceTypingKept, ThreadServesKept, QuietKept DEF ServiceInv
<1> QED
  BY <1>1, <1>2, <1>3, <1>4

LEMMA Invariance == DevicesSpec => []DevicesInv
BY DevicesStart, DevicesKept, PTL DEF DevicesSpec

\* The types of the zoom of the 4K camera; and no axis is given a movement of the other.
THEOREM LensTypeCorrect == DevicesSpec => []Z!TypeOK
<1>1. DevicesInv => Z!TypeOK
  BY DEF DevicesInv, LensInv
<1> QED
  BY <1>1, Invariance, PTL

\* visca_4k_camera_thread knows what the lens does, and two axes never move at once.
THEOREM MovesRemembered == DevicesSpec => []MovesAsRemembered
<1>1. DevicesInv => MovesAsRemembered
  BY DEF DevicesInv, LensInv, MovesAsRemembered
<1> QED
  BY <1>1, Invariance, PTL

\* When visca_4k_camera_stop has returned the lens is at rest.
THEOREM StillWhenStopped == DevicesSpec => []StillAfterStop
<1>1. DevicesInv => StillAfterStop
  BY DEF DevicesInv, LensInv, LensThread, Z!MovesAsRemembered, Z!StillAfterStop, StillAfterStop
<1> QED
  BY <1>1, Invariance, PTL

\* What dji_rsdk_service.c applied last is what the operators press, or the centre they
\* asked for, and the service leaves the gimbal still, however presses, the watchdog and the
\* stop fall between the steps of the thread.
THEOREM GimbalDoesAsPressed == DevicesSpec => []GimbalFollows
<1>1. DevicesInv => GimbalFollows
  <2>1. G!SpeedOf({}) = G!Still
    BY NothingPressedIsStill
  <2> QED
    BY <2>1 DEF DevicesInv, GimbalInv, GimbalFollows, G!MovesAsPressed
<1> QED
  BY <1>1, Invariance, PTL

\* The services of the motor and the laser leave no relay closed, no laser emitting and no lamp
\* lit, unless the call that was to switch it off failed, and the thread of
\* mavlink_control_service.c no descriptor open, whichever step of the opening failed.
THEOREM NothingIsLeftOn == DevicesSpec => []NothingLeftOn
<1>1. DevicesInv => NothingLeftOn
  BY DEF DevicesInv, ServiceInv, TransportInv, NothingLeftOn, A!NothingLeftOpen, A!Listening
<1> QED
  BY <1>1, Invariance, PTL

\* Every recording of mp4_recorder.c that is reported as finished has its header, its frames and
\* its trailer, ends when all but one frame is written, holds at most one frame of the one
\* before, and ends because it was asked to: for every length of the queue.
THEOREM RecordingsAreWhole == DevicesSpec => []RecordingsWhole
<1>1. DevicesInv => RecordingsWhole
  BY DEF DevicesInv, RecordingInv, Typing, Threads, Asked, Whole, Drained, Own, RecordingsWhole,
         FramesOwn, EndsAsked, ClosedAfterDeinit
<1> QED
  BY <1>1, Invariance, PTL

\* mavlink_control_service.c answers a command to the ground station that sent it, however
\* many connect, send and hang up.
THEOREM AnswersGoToTheSender == DevicesSpec => []AnswersTheSender
<1>1. DevicesInv => AnswersTheSender
  BY DEF DevicesInv, TransportInv, AnswersTheSender
<1> QED
  BY <1>1, Invariance, PTL

\* The services of the motor, the laser and the thermal camera implement ServicePipe, for queues
\* of every length; and every press of the unlock key takes the requests made before it.
THEOREM ServicesKeepOrder == DevicesSpec => ServesInOrder
<1>1. DevicesInit => D!Pipe!Init
  BY DEF DevicesInit, D!Init, D!Pipe!Init
<1>2. DevicesInv /\ [DevicesNext]_<<unit, vars, d_vars, g_vars, u_vars, a_vars, z_vars>>
        => [D!Pipe!Next]_<<d_queue, d_inHand, d_running /\ ~d_stop_requested>>
  BY EachSteps, PipeStep DEF DevicesInv
<1>3. DevicesInv /\ [DevicesNext]_<<unit, vars, d_vars, g_vars, u_vars, a_vars, z_vars>>
        => [u_pc' = "press" /\ u_pc # "press" => u_asked /\ ~u_asked']_(U!vars)
  BY EachSteps, PressTakesRequest DEF DevicesInv
<1> QED
  BY <1>1, <1>2, <1>3, Invariance, PTL
  DEF DevicesSpec, ServesInOrder, D!ServesInOrder, D!Pipe!Spec, U!OnePressPerRequest
=============================================================================
