--------------------------- MODULE RecorderProofs ---------------------------
(***************************************************************************)
(* For every set of channels, queue size and number of recordings: a file  *)
(* has one writer, rec_thread names the thread to join, no wake-up and no  *)
(* queued frame is lost, and a stop returns with the file complete.        *)
(*                                                                         *)
(* The three flags are what keeps the threads apart: `recording` is set    *)
(* in the critical section that creates the thread and cleared after the   *)
(* thread has closed the output, and `initializing` covers the caller's    *)
(* use of the output before. The inductive invariant ties each flag to the *)
(* program counter it stands for.                                          *)
(***************************************************************************)
EXTENDS Recorder, TLAPS

\* Where the caller is while initializing[target] is set, and where it is between
\* its locked checks and the end of a start.
Preparing == {"open", "warmup", "abort", "withdraw", "commit"}
Committed == Preparing \cup {"undo"}

IsThreadOf(t, c) == t \in Thread /\ thread_of[t] = c /\ thread_at[t] # "none"

ChannelInv(c) ==
  /\ initializing[c] <=> target = c /\ caller_at \in Preparing
  /\ target = c /\ caller_at \in Committed => ~wanted[c] /\ ~recording[c]
  /\ recording[c] => IsThreadOf(handle[c], c) /\ Alive(handle[c])
  /\ wanted[c] => recording[c] \/ stop
  /\ output[c] = "open" =>
       CallerHasOutput(c) \/ (recording[c] /\ HasOutput(handle[c]))
  /\ queue[c] > 0 =>
       stop \/ (recording[c] /\ thread_at[handle[c]] \in {"check", "encode"})
  /\ target = c /\ caller_at = "join" => ~wanted[c] /\ IsThreadOf(handle[c], c)
  /\ target = c /\ caller_at \in {"warmup", "commit"} => output[c] = "open"

ThreadInv(t) ==
  /\ thread_at[t] = "none" <=> t > started
  /\ thread_at[t] # "none" => thread_of[t] \in Channel
  /\ Alive(t) => handle[thread_of[t]] = t /\ recording[thread_of[t]]
  /\ HasOutput(t) => output[thread_of[t]] = "open"
  /\ thread_at[t] = "waiting" => queue[thread_of[t]] = 0 /\ wanted[thread_of[t]] /\ ~stop
  /\ thread_at[t] \in {"closing", "ending"} =>
       stop \/ (~wanted[thread_of[t]] /\ queue[thread_of[t]] = 0)

StopInv == stop => caller_at \in {"join_capture", "signal", "join_all", "free"}

\* The inductive invariant.
IInv ==
  /\ TypeOK
  /\ StopInv
  /\ \A c \in Channel : ChannelInv(c)
  /\ \A t \in Thread : ThreadInv(t)
-----------------------------------------------------------------------------
\* Waking threads moves those that wait, and leaves none waiting on the channels.
Woke(cs) ==
  /\ thread_at' \in [Thread -> ThreadPc]
  /\ \A t \in Thread :
       \/ thread_at'[t] = thread_at[t]
       \/ thread_at[t] = "waiting" /\ thread_at'[t] = "check"
  /\ \A t \in Thread : thread_at'[t] = "waiting" => thread_of[t] \notin cs

LEMMA WokenFacts ==
  ASSUME TypeOK, NEW cs, thread_at' = Woken(cs)
  PROVE  Woke(cs)
BY DEF Woken, TypeOK, ThreadPc, Woke

LEMMA ThreadFacts == Thread = 1..MaxThreads /\ MaxThreads \in Nat /\ NoThread = 0
BY RecorderAssumption DEF Thread, NoThread

LEMMA InitIInv == Init => IInv
<1> SUFFICES ASSUME Init PROVE IInv
  OBVIOUS
<1>1. TypeOK
  <2>1. FlagsTypeOK
    BY DEF Init, FlagsTypeOK
  <2>2. 0 \in 0..QueueSize /\ 0 \in 0..MaxThreads
    BY RecorderAssumption
  <2>3. capture_at \in [Channel -> CapturePc]
    BY DEF Init, CapturePc
  <2>4. /\ queue \in [Channel -> 0..QueueSize]
        /\ output \in [Channel -> {"closed", "open"}]
        /\ handle \in [Channel -> Thread \cup {NoThread}]
        /\ thread_at \in [Thread -> ThreadPc]
        /\ thread_of \in [Thread -> Channel \cup {NoChannel}]
    BY <2>2 DEF Init, ThreadPc
  <2>5. QED
    BY <2>1, <2>2, <2>3, <2>4 DEF Init, TypeOK, CallerPc, StartPc
<1>2. StopInv
  BY DEF Init, StopInv
<1>3. ASSUME NEW c \in Channel PROVE ChannelInv(c)
  BY RecorderAssumption DEF Init, ChannelInv, Preparing, Committed
<1>4. ASSUME NEW t \in Thread PROVE ThreadInv(t)
  BY ThreadFacts DEF Init, ThreadInv, Alive, HasOutput
<1>5. QED
  BY <1>1, <1>2, <1>3, <1>4 DEF IInv

\* Steps that touch neither flags nor outputs nor threads.
LEMMA CaptureQuietStep ==
  ASSUME IInv, NEW d \in Channel, CaptureTurn(d) \/ SkipFrame(d)
  PROVE  IInv'
<1>1. UNCHANGED <<stop, flags, queue, output, handle, threadVars, callerVars>>
  BY DEF CaptureTurn, SkipFrame, threadVars, callerVars, flags
<1>2. TypeOK'
  BY <1>1 DEF IInv, TypeOK, FlagsTypeOK, CaptureTurn, SkipFrame, CaptureMoves, CapturePc,
              threadVars, callerVars, flags
<1>3. QED
  BY <1>1, <1>2 DEF IInv, StopInv, ChannelInv, ThreadInv, IsThreadOf, Alive, HasOutput,
                    CallerHasOutput, threadVars, callerVars, flags

\* Ending recordings and waking their threads disturbs no thread that runs.
LEMMA WakeStep ==
  ASSUME TypeOK, \A c \in Channel : ChannelInv(c), \A t \in Thread : ThreadInv(t),
         NEW cs \in SUBSET Channel, Woke(cs),
         wanted' \in [Channel -> BOOLEAN],
         \A c \in Channel : wanted'[c] => wanted[c],
         \A c \in Channel \ cs : wanted'[c] = wanted[c],
         stop' \in BOOLEAN, stop => stop', stop' = stop \/ cs = Channel,
         UNCHANGED <<initializing, recording, queue, output, handle, started, thread_of>>
  PROVE  /\ \A c \in Channel :
              /\ recording'[c] => IsThreadOf(handle[c], c)' /\ Alive(handle[c])'
              /\ wanted'[c] => recording'[c] \/ stop'
              /\ output[c] = "open" =>
                   CallerHasOutput(c) \/ (recording'[c] /\ HasOutput(handle[c])')
              /\ queue'[c] > 0 =>
                   stop' \/ (recording'[c] /\ thread_at'[handle[c]] \in {"check", "encode"})
         /\ \A t \in Thread, c \in Channel : IsThreadOf(t, c) => IsThreadOf(t, c)'
         /\ \A t \in Thread : ThreadInv(t)'
<1>1. ASSUME NEW t \in Thread
      PROVE  /\ Alive(t)' <=> Alive(t)
             /\ HasOutput(t)' <=> HasOutput(t)
             /\ thread_at[t] \in {"check", "encode"} => thread_at'[t] = thread_at[t]
             /\ thread_at'[t] \in {"none", "closing", "ending"} => thread_at'[t] = thread_at[t]
             /\ thread_at'[t] = "none" <=> thread_at[t] = "none"
  BY DEF Woke, Alive, HasOutput
<1>2. ASSUME NEW t \in Thread, NEW c, IsThreadOf(t, c) PROVE IsThreadOf(t, c)'
  BY <1>1, <1>2 DEF IsThreadOf
<1>3. ASSUME NEW c \in Channel
      PROVE  /\ recording'[c] => IsThreadOf(handle[c], c)' /\ Alive(handle[c])'
             /\ wanted'[c] => recording'[c] \/ stop'
             /\ output[c] = "open" =>
                  CallerHasOutput(c) \/ (recording'[c] /\ HasOutput(handle[c])')
             /\ queue'[c] > 0 =>
                  stop' \/ (recording'[c] /\ thread_at'[handle[c]] \in {"check", "encode"})
  <2>1. ChannelInv(c)
    OBVIOUS
  <2>2. recording[c] => handle[c] \in Thread
    BY <2>1 DEF ChannelInv, IsThreadOf
  <2>3. QED
    BY <1>1, <1>2, <2>1, <2>2 DEF ChannelInv
<1>4. ASSUME NEW t \in Thread PROVE ThreadInv(t)'
  <2>1. ThreadInv(t)
    OBVIOUS
  <2>2. thread_at'[t] = "waiting" =>
          queue'[thread_of'[t]] = 0 /\ wanted'[thread_of'[t]] /\ ~stop'
    <3> SUFFICES ASSUME thread_at'[t] = "waiting"
                 PROVE  queue[thread_of[t]] = 0 /\ wanted'[thread_of[t]] /\ ~stop'
      OBVIOUS
    <3>1. thread_at[t] = "waiting" /\ thread_of[t] \notin cs
      BY DEF Woke
    <3>2. thread_of[t] \in Channel
      BY <2>1, <3>1 DEF ThreadInv
    <3>3. QED
      BY <2>1, <3>1, <3>2 DEF ThreadInv
  <2>3. thread_at'[t] \in {"closing", "ending"} =>
          stop' \/ (~wanted'[thread_of'[t]] /\ queue'[thread_of'[t]] = 0)
    BY <1>1, <2>1 DEF ThreadInv
  <2>4. QED
    BY <1>1, <2>1, <2>2, <2>3 DEF ThreadInv
<1>5. QED
  BY <1>2, <1>3, <1>4

LEMMA LoseSignalStep ==
  ASSUME IInv, NEW d \in Channel, LoseSignal(d)
  PROVE  IInv'
<1>0. TypeOK
  BY DEF IInv
<1>1. /\ UNCHANGED <<stop, initializing, recording, queue, output, handle, started,
                      thread_of, caller_at, target, todo>>
      /\ wanted' = [wanted EXCEPT ![d] = FALSE]
      /\ thread_at' = IF wanted[d] THEN Woken({d}) ELSE thread_at
  BY DEF LoseSignal, callerVars
<1> DEFINE cs == IF wanted[d] THEN {d} ELSE {}
<1>2. Woke(cs)
  <2>1. CASE wanted[d]
    BY <1>0, <1>1, <2>1, WokenFacts
  <2>2. CASE ~wanted[d]
    BY <1>0, <1>1, <2>2 DEF Woke, TypeOK
  <2>3. QED
    BY <2>1, <2>2
<1>3. /\ cs \in SUBSET Channel
      /\ wanted' \in [Channel -> BOOLEAN]
      /\ \A c \in Channel : wanted'[c] => wanted[c]
      /\ \A c \in Channel \ cs : wanted'[c] = wanted[c]
      /\ stop' \in BOOLEAN
  BY <1>0, <1>1 DEF TypeOK, FlagsTypeOK
<1>4. TypeOK'
  <2>1. /\ opened' \in [Channel -> BOOLEAN] /\ has_signal' \in [Channel -> BOOLEAN]
        /\ capture_at' \in [Channel -> CapturePc]
    BY <1>0 DEF TypeOK, FlagsTypeOK, LoseSignal, CaptureMoves, CapturePc
  <2>2. FlagsTypeOK'
    BY <1>0, <1>1, <1>3, <2>1 DEF TypeOK, FlagsTypeOK, LoseSignal
  <2>3. QED
    BY <1>0, <1>1, <1>2, <2>1, <2>2 DEF Woke, TypeOK
<1>5. StopInv'
  BY <1>1 DEF IInv, StopInv
<1> HIDE DEF cs
<1>6. ASSUME NEW c \in Channel PROVE ChannelInv(c)'
  <2>1. ChannelInv(c)
    BY DEF IInv
  <2>2. /\ recording'[c] => IsThreadOf(handle[c], c)' /\ Alive(handle[c])'
        /\ wanted'[c] => recording'[c] \/ stop'
        /\ output[c] = "open" =>
             CallerHasOutput(c) \/ (recording'[c] /\ HasOutput(handle[c])')
        /\ queue'[c] > 0 =>
             stop' \/ (recording'[c] /\ thread_at'[handle[c]] \in {"check", "encode"})
    BY <1>0, <1>1, <1>2, <1>3, WakeStep DEF IInv
  <2>3. target = c /\ caller_at = "join" => IsThreadOf(handle[c], c)'
    BY <1>0, <1>1, <1>2, <1>3, <2>1, WakeStep DEF IInv, ChannelInv, IsThreadOf
  <2>4. QED
    BY <1>1, <1>3, <2>1, <2>2, <2>3 DEF ChannelInv, CallerHasOutput
<1>7. ASSUME NEW t \in Thread PROVE ThreadInv(t)'
  BY <1>0, <1>1, <1>2, <1>3, WakeStep DEF IInv
<1>8. QED
  BY <1>4, <1>5, <1>6, <1>7 DEF IInv

LEMMA StopRequestStep ==
  ASSUME IInv, NEW d \in Channel, StopRequest(d)
  PROVE  IInv'
<1>0. TypeOK /\ ~stop
  BY DEF IInv, StopInv, StopRequest
<1>1. /\ UNCHANGED <<stop, initializing, recording, queue, output, handle, started,
                      thread_of, todo>>
      /\ wanted' = [wanted EXCEPT ![d] = FALSE]
      /\ caller_at = "idle" /\ caller_at' = "join" /\ target' = d
      /\ wanted[d] \/ recording[d]
  BY DEF StopRequest, CallerMoves
<1>2. Woke({d})
  BY <1>0, WokenFacts DEF StopRequest
<1>3. /\ wanted' \in [Channel -> BOOLEAN]
      /\ \A c \in Channel : wanted'[c] => wanted[c]
      /\ \A c \in Channel \ {d} : wanted'[c] = wanted[c]
      /\ ~wanted'[d]
      /\ stop' \in BOOLEAN
  BY <1>0, <1>1 DEF TypeOK, FlagsTypeOK
<1>4. TypeOK'
  <2>1. UNCHANGED <<freed, opened, has_signal, capture_at>>
    BY DEF StopRequest, captureVars
  <2>2. FlagsTypeOK'
    BY <1>0, <1>1, <1>3, <2>1 DEF TypeOK, FlagsTypeOK
  <2>3. caller_at' \in CallerPc /\ target' \in Channel
    BY <1>1 DEF CallerPc
  <2>4. QED
    BY <1>0, <1>1, <1>2, <2>1, <2>2, <2>3 DEF Woke, TypeOK
<1>5. StopInv'
  BY <1>0, <1>1 DEF StopInv
<1>6. ASSUME NEW c \in Channel PROVE ChannelInv(c)'
  <2>1. ChannelInv(c)
    BY DEF IInv
  <2>2. /\ recording'[c] => IsThreadOf(handle[c], c)' /\ Alive(handle[c])'
        /\ wanted'[c] => recording'[c] \/ stop'
        /\ output[c] = "open" =>
             CallerHasOutput(c) \/ (recording'[c] /\ HasOutput(handle[c])')
        /\ queue'[c] > 0 =>
             stop' \/ (recording'[c] /\ thread_at'[handle[c]] \in {"check", "encode"})
    BY <1>0, <1>1, <1>2, <1>3, WakeStep DEF IInv
  <2>3. c = d => recording[c]
    BY <1>0, <1>1, <2>1 DEF ChannelInv
  <2>4. QED
    BY <1>1, <1>3, <2>1, <2>2, <2>3 DEF ChannelInv, CallerHasOutput, Preparing, Committed
<1>7. ASSUME NEW t \in Thread PROVE ThreadInv(t)'
  BY <1>0, <1>1, <1>2, <1>3, WakeStep DEF IInv
<1>8. QED
  BY <1>4, <1>5, <1>6, <1>7 DEF IInv

\* Steps of the caller while it has no output and waits for no thread.
Away == caller_at \notin Committed \cup {"join"}

LEMMA AwayStep ==
  ASSUME IInv, Away, Away', TypeOK', StopInv',
         UNCHANGED <<stop, flags, queue, output, handle, threadVars>>
  PROVE  IInv'
<1>1. ASSUME NEW c \in Channel PROVE ChannelInv(c)'
  <2>1. ChannelInv(c)
    BY DEF IInv
  <2>2. ~CallerHasOutput(c) /\ ~CallerHasOutput(c)'
    BY DEF Away, Preparing, Committed, CallerHasOutput
  <2>3. /\ caller_at \notin Preparing /\ caller_at' \notin Preparing
        /\ caller_at' \notin Committed \cup {"join", "warmup", "commit"}
    BY DEF Away, Preparing, Committed
  <2>4. /\ IsThreadOf(handle[c], c)' <=> IsThreadOf(handle[c], c)
        /\ Alive(handle[c])' <=> Alive(handle[c])
        /\ HasOutput(handle[c])' <=> HasOutput(handle[c])
        /\ UNCHANGED <<stop, initializing, wanted, recording, queue, output, handle, thread_at>>
    BY DEF IsThreadOf, Alive, HasOutput, flags, threadVars
  <2>5. QED
    BY <2>1, <2>2, <2>3, <2>4 DEF ChannelInv
<1>2. ASSUME NEW t \in Thread PROVE ThreadInv(t)'
  <2>1. ThreadInv(t)
    BY DEF IInv
  <2>2. QED
    BY <2>1 DEF ThreadInv, Alive, HasOutput, flags, threadVars
<1>3. QED
  BY <1>1, <1>2 DEF IInv

LEMMA CallerQuietStep ==
  ASSUME IInv,
         \/ \E cs \in SUBSET Channel : StartRequest(cs)
         \/ StartNext \/ StopAllRequest \/ DeinitJoinsCapture \/ DeinitFrees
  PROVE  IInv'
<1>0. TypeOK /\ StopInv
  BY DEF IInv
<1>1. UNCHANGED <<stop, flags, queue, output, handle, threadVars, captureVars>>
  BY DEF StartRequest, StartNext, StopAllRequest, DeinitJoinsCapture, DeinitFrees
<1>2. CASE \E cs \in SUBSET Channel : StartRequest(cs)
  <2>1. caller_at = "idle" /\ caller_at' = "next" /\ target' = target
        /\ freed' = freed /\ todo' \subseteq Channel
    BY <1>2 DEF StartRequest, CallerMoves
  <2>2. TypeOK'
    BY <1>0, <1>1, <2>1
       DEF TypeOK, FlagsTypeOK, CallerPc, StartPc, flags, threadVars, captureVars
  <2>3. Away /\ Away' /\ StopInv'
    BY <1>0, <1>1, <2>1 DEF Away, Committed, Preparing, StopInv
  <2>4. QED
    BY <1>1, <2>2, <2>3, AwayStep
<1>3. CASE StartNext
  <2>1. caller_at = "next" /\ freed' = freed /\ todo' \subseteq Channel
        /\ \/ caller_at' = "idle" /\ target' = NoChannel
           \/ caller_at' = "begin" /\ target' \in Channel
           \/ caller_at' = "next" /\ target' = target
    BY <1>0, <1>3 DEF StartNext, CallerMoves, First, TypeOK
  <2>2. TypeOK'
    BY <1>0, <1>1, <2>1
       DEF TypeOK, FlagsTypeOK, CallerPc, StartPc, flags, threadVars, captureVars
  <2>3. Away /\ Away' /\ StopInv'
    BY <1>0, <1>1, <2>1 DEF Away, Committed, Preparing, StopInv
  <2>4. QED
    BY <1>1, <2>2, <2>3, AwayStep
<1>4. CASE StopAllRequest \/ DeinitJoinsCapture
  <2>1. caller_at \in {"idle", "join_capture"} /\ caller_at' = "signal" /\ target' = target
        /\ freed' = freed /\ todo' \subseteq Channel
    BY <1>4 DEF StopAllRequest, DeinitJoinsCapture, CallerMoves
  <2>2. TypeOK'
    BY <1>0, <1>1, <2>1
       DEF TypeOK, FlagsTypeOK, CallerPc, StartPc, flags, threadVars, captureVars
  <2>3. Away /\ Away' /\ StopInv'
    BY <1>0, <1>1, <2>1 DEF Away, Committed, Preparing, StopInv
  <2>4. QED
    BY <1>1, <2>2, <2>3, AwayStep
<1>5. CASE DeinitFrees
  <2>1. caller_at = "free" /\ freed' \in BOOLEAN /\ UNCHANGED callerVars
    BY <1>5 DEF DeinitFrees
  <2>2. TypeOK'
    BY <1>0, <1>1, <2>1
       DEF TypeOK, FlagsTypeOK, CallerPc, StartPc, flags, threadVars, captureVars, callerVars
  <2>3. Away /\ Away' /\ StopInv'
    BY <1>0, <1>1, <2>1 DEF Away, Committed, Preparing, StopInv, callerVars
  <2>4. QED
    BY <1>1, <2>2, <2>3, AwayStep
<1>6. QED
  BY <1>2, <1>3, <1>4, <1>5

LEMMA DeinitRequestStep ==
  ASSUME IInv, DeinitRequest
  PROVE  IInv'
<1>0. TypeOK
  BY DEF IInv
<1>1. /\ UNCHANGED <<wanted, initializing, recording, queue, output, handle, started,
                      thread_of, target, todo>>
      /\ stop' = TRUE
      /\ caller_at = "idle" /\ caller_at' = "join_capture"
  BY DEF DeinitRequest, CallerMoves, flags
<1>2. Woke(Channel)
  BY <1>0, WokenFacts DEF DeinitRequest
<1>3. wanted' \in [Channel -> BOOLEAN] /\ stop' \in BOOLEAN
  BY <1>0, <1>1 DEF TypeOK, FlagsTypeOK
<1>4. TypeOK'
  BY <1>0, <1>1, <1>2, <1>3
     DEF Woke, TypeOK, FlagsTypeOK, DeinitRequest, CallerPc, StartPc, captureVars
<1>5. StopInv'
  BY <1>1 DEF StopInv
<1>6. ASSUME NEW c \in Channel PROVE ChannelInv(c)'
  <2>1. ChannelInv(c)
    BY DEF IInv
  <2>2. /\ recording'[c] => IsThreadOf(handle[c], c)' /\ Alive(handle[c])'
        /\ wanted'[c] => recording'[c] \/ stop'
        /\ output[c] = "open" =>
             CallerHasOutput(c) \/ (recording'[c] /\ HasOutput(handle[c])')
        /\ queue'[c] > 0 =>
             stop' \/ (recording'[c] /\ thread_at'[handle[c]] \in {"check", "encode"})
    BY <1>0, <1>1, <1>2, <1>3, WakeStep DEF IInv
  <2>3. QED
    BY <1>1, <2>1, <2>2 DEF ChannelInv, CallerHasOutput, Preparing, Committed
<1>7. ASSUME NEW t \in Thread PROVE ThreadInv(t)'
  BY <1>0, <1>1, <1>2, <1>3, WakeStep DEF IInv
<1>8. QED
  BY <1>4, <1>5, <1>6, <1>7 DEF IInv

LEMMA SignalNextStep ==
  ASSUME IInv, SignalNext
  PROVE  IInv'
<1>0. TypeOK /\ caller_at = "signal"
  BY DEF IInv, SignalNext
<1>1. CASE todo = {} /\ todo' = Channel /\ caller_at' = "join_all" /\ UNCHANGED <<wanted, thread_at>>
  <2>1. /\ UNCHANGED <<stop, flags, queue, output, handle, threadVars, captureVars>>
        /\ UNCHANGED <<freed, target>>
    BY <1>1 DEF SignalNext, flags, threadVars
  <2>2. TypeOK'
    BY <1>0, <1>1, <2>1
       DEF TypeOK, FlagsTypeOK, CallerPc, StartPc, flags, threadVars, captureVars
  <2>3. Away /\ Away' /\ StopInv'
    BY <1>0, <1>1, <2>1 DEF Away, Committed, Preparing, StopInv
  <2>4. QED
    BY <2>1, <2>2, <2>3, AwayStep
<1>2. ASSUME NEW d \in First(todo),
             todo' = todo \ {d}, UNCHANGED caller_at,
             IF ~initializing[d] /\ (wanted[d] \/ recording[d])
             THEN /\ wanted' = [wanted EXCEPT ![d] = FALSE]
                  /\ thread_at' = Woken({d})
             ELSE UNCHANGED <<wanted, thread_at>>
      PROVE  IInv'
  <2>1. /\ UNCHANGED <<stop, initializing, recording, queue, output, handle, started,
                        thread_of, caller_at, target>>
        /\ UNCHANGED <<freed, captureVars>>
        /\ d \in Channel /\ todo' \subseteq Channel
    BY <1>0, <1>2 DEF SignalNext, First, TypeOK
  <2> DEFINE cs == IF ~initializing[d] /\ (wanted[d] \/ recording[d]) THEN {d} ELSE {}
  <2>2. Woke(cs)
    <3>1. CASE ~initializing[d] /\ (wanted[d] \/ recording[d])
      BY <1>0, <1>2, <3>1, WokenFacts
    <3>2. CASE ~(~initializing[d] /\ (wanted[d] \/ recording[d]))
      BY <1>0, <1>2, <3>2 DEF Woke, TypeOK
    <3>3. QED
      BY <3>1, <3>2
  <2>3. /\ cs \in SUBSET Channel
        /\ wanted' \in [Channel -> BOOLEAN]
        /\ \A c \in Channel : wanted'[c] => wanted[c]
        /\ \A c \in Channel \ cs : wanted'[c] = wanted[c]
        /\ stop' \in BOOLEAN
    BY <1>0, <1>2, <2>1 DEF TypeOK, FlagsTypeOK
  <2>4. TypeOK'
    BY <1>0, <1>2, <2>1, <2>2, <2>3 DEF Woke, TypeOK, FlagsTypeOK, captureVars
  <2>5. StopInv'
    BY <1>2, <2>1 DEF IInv, StopInv
  <2> HIDE DEF cs
  <2>6. ASSUME NEW c \in Channel PROVE ChannelInv(c)'
    <3>1. ChannelInv(c)
      BY DEF IInv
    <3>2. /\ recording'[c] => IsThreadOf(handle[c], c)' /\ Alive(handle[c])'
          /\ wanted'[c] => recording'[c] \/ stop'
          /\ output[c] = "open" =>
               CallerHasOutput(c) \/ (recording'[c] /\ HasOutput(handle[c])')
          /\ queue'[c] > 0 =>
               stop' \/ (recording'[c] /\ thread_at'[handle[c]] \in {"check", "encode"})
      BY <1>0, <2>1, <2>2, <2>3, WakeStep DEF IInv
    <3>3. QED
      BY <1>0, <2>1, <3>1, <3>2 DEF ChannelInv, CallerHasOutput, Preparing, Committed
  <2>7. ASSUME NEW t \in Thread PROVE ThreadInv(t)'
    BY <1>0, <2>1, <2>2, <2>3, WakeStep DEF IInv
  <2>8. QED
    BY <2>4, <2>5, <2>6, <2>7 DEF IInv
<1>3. QED
  BY <1>1, <1>2 DEF SignalNext, CallerMoves

\* A thread that has ended is joined; or, in the loop over all channels, nothing.
LEMMA ForgetStep ==
  ASSUME IInv, TypeOK', StopInv', Away', NEW d \in Channel, Ended(handle[d]),
         handle' = [handle EXCEPT ![d] = NoThread], ~CallerHasOutput(d),
         caller_at \notin Committed,
         UNCHANGED <<stop, flags, queue, output, threadVars>>
  PROVE  IInv'
<1>0. TypeOK /\ ChannelInv(d)
  BY DEF IInv
<1>1. ~recording[d]
  BY <1>0 DEF ChannelInv, Ended, Alive, HasOutput
<1>2. /\ handle'[d] = NoThread
      /\ \A c \in Channel : c # d => handle'[c] = handle[c]
  BY <1>0 DEF TypeOK
<1>3. ASSUME NEW t \in Thread
      PROVE  /\ Alive(t)' <=> Alive(t)
             /\ HasOutput(t)' <=> HasOutput(t)
  BY DEF Alive, HasOutput, threadVars
<1>4. UNCHANGED <<stop, initializing, wanted, recording, queue, output, thread_at, thread_of, started>>
  BY DEF flags, threadVars
<1>5. ASSUME NEW c \in Channel PROVE ChannelInv(c)'
  <2>1. ChannelInv(c)
    BY DEF IInv
  <2>2. /\ caller_at \notin Preparing /\ ~CallerHasOutput(c)
        /\ caller_at' \notin Preparing
        /\ caller_at' \notin Committed \cup {"join", "warmup", "commit"}
    BY DEF Away, Preparing, Committed, CallerHasOutput
  <2>3. CASE c = d
    BY <1>1, <1>4, <2>1, <2>2, <2>3 DEF ChannelInv
  <2>4. CASE c # d
    <3>1. /\ IsThreadOf(handle[c], c)' <=> IsThreadOf(handle[c], c)
          /\ Alive(handle[c])' <=> Alive(handle[c])
          /\ HasOutput(handle[c])' <=> HasOutput(handle[c])
          /\ handle'[c] = handle[c]
      BY <1>2, <1>4, <2>4 DEF IsThreadOf, Alive, HasOutput
    <3>2. QED
      BY <1>4, <2>1, <2>2, <3>1 DEF ChannelInv
  <2>5. QED
    BY <2>3, <2>4
<1>6. ASSUME NEW t \in Thread PROVE ThreadInv(t)'
  <2>1. ThreadInv(t)
    BY DEF IInv
  <2>2. Alive(t) => thread_of[t] \in Channel /\ thread_of[t] # d
    BY <1>1, <2>1 DEF ThreadInv, Alive, HasOutput
  <2>3. QED
    BY <1>2, <1>3, <1>4, <2>1, <2>2 DEF ThreadInv
<1>7. QED
  BY <1>5, <1>6 DEF IInv

LEMMA StopJoinsStep ==
  ASSUME IInv, StopJoins
  PROVE  IInv' /\ Complete(target)
<1>0. TypeOK /\ StopInv /\ caller_at = "join" /\ target \in Channel /\ ~stop
  BY DEF IInv, StopJoins, TypeOK, StopInv
<1>1. ChannelInv(target) /\ ~CallerHasOutput(target) /\ caller_at \notin Committed
  BY <1>0 DEF IInv, CallerHasOutput, Committed, Preparing
<1>2. /\ Ended(handle[target]) /\ caller_at' = "idle" /\ target' = NoChannel
      /\ handle' = [handle EXCEPT ![target] = NoThread]
      /\ UNCHANGED <<stop, flags, queue, output, threadVars>>
      /\ UNCHANGED <<freed, captureVars, todo>>
  BY DEF StopJoins, CallerMoves
<1>3. TypeOK'
  BY <1>0, <1>2 DEF TypeOK, FlagsTypeOK, CallerPc, StartPc, flags, threadVars, captureVars
<1>4. Away' /\ StopInv'
  BY <1>0, <1>2 DEF Away, Committed, Preparing, StopInv
<1>5. IInv'
  BY <1>0, <1>1, <1>2, <1>3, <1>4, ForgetStep
<1>6. ~recording[target]
  BY <1>1, <1>2 DEF ChannelInv, Ended, Alive, HasOutput
<1>7. output[target] = "closed" /\ queue[target] = 0
  BY <1>0, <1>1, <1>6, RecorderAssumption DEF ChannelInv, TypeOK
<1>8. QED
  BY <1>0, <1>1, <1>5, <1>6, <1>7 DEF Complete, ChannelInv

LEMMA JoinNextStep ==
  ASSUME IInv, JoinNext
  PROVE  IInv'
<1>0. /\ TypeOK /\ StopInv /\ caller_at = "join_all"
      /\ UNCHANGED <<stop, flags, queue, output, threadVars>>
      /\ UNCHANGED <<freed, captureVars, target>>
  BY DEF IInv, JoinNext
<1>1. Away
  BY <1>0 DEF Away, Committed, Preparing
<1>2. CASE /\ caller_at' = IF stop THEN "free" ELSE "idle"
           /\ UNCHANGED <<todo, handle>>
  <2>1. TypeOK'
    BY <1>0, <1>2 DEF TypeOK, FlagsTypeOK, CallerPc, StartPc, flags, threadVars, captureVars
  <2>2. Away' /\ StopInv'
    BY <1>0, <1>2 DEF Away, Committed, Preparing, StopInv
  <2>3. QED
    BY <1>0, <1>1, <1>2, <2>1, <2>2, AwayStep
<1>3. ASSUME NEW d \in First(todo),
             todo' = todo \ {d}, UNCHANGED caller_at,
             handle' = IF Ended(handle[d]) THEN [handle EXCEPT ![d] = NoThread] ELSE handle
      PROVE  IInv'
  <2>1. d \in Channel /\ todo' \subseteq Channel
    BY <1>0, <1>3 DEF First, TypeOK
  <2>2. TypeOK'
    BY <1>0, <1>3, <2>1 DEF TypeOK, FlagsTypeOK, CallerPc, StartPc, flags, threadVars, captureVars
  <2>3. Away' /\ StopInv'
    BY <1>0, <1>1, <1>3 DEF Away, StopInv
  <2>4. CASE Ended(handle[d])
    <3>1. ~CallerHasOutput(d) /\ caller_at \notin Committed
      BY <1>0 DEF CallerHasOutput, Committed, Preparing
    <3>2. QED
      BY <1>0, <1>3, <2>1, <2>2, <2>3, <2>4, <3>1, ForgetStep
  <2>5. CASE ~Ended(handle[d])
    BY <1>0, <1>1, <1>3, <2>2, <2>3, <2>5, AwayStep
  <2>6. QED
    BY <2>4, <2>5
<1>4. QED
  BY <1>2, <1>3 DEF JoinNext, CallerMoves

-----------------------------------------------------------------------------
LEMMA PublishFrameStep ==
  ASSUME IInv, NEW d \in Channel, PublishFrame(d)
  PROVE  IInv'
<1>0. TypeOK /\ StopInv /\ ChannelInv(d)
  BY DEF IInv
<1>1. /\ UNCHANGED <<stop, initializing, wanted, recording, output, handle, started,
                      thread_of, caller_at, target, todo, freed, opened>>
      /\ has_signal' = [has_signal EXCEPT ![d] = TRUE]
      /\ capture_at' = [capture_at EXCEPT ![d] = "loop"]
  BY DEF PublishFrame, CaptureMoves, flags, callerVars
<1>2. CASE ~wanted[d]
  <2>1. UNCHANGED <<queue, thread_at>>
    BY <1>2 DEF PublishFrame
  <2>2. TypeOK'
    BY <1>0, <1>1, <2>1 DEF TypeOK, FlagsTypeOK, CapturePc
  <2>3. QED
    BY <1>1, <2>1, <2>2
       DEF IInv, StopInv, ChannelInv, ThreadInv, IsThreadOf, Alive, HasOutput, CallerHasOutput
<1>3. CASE wanted[d]
  <2>1. /\ queue' = [queue EXCEPT ![d] = Pushed(@)]
        /\ thread_at' = Woken({d})
    BY <1>3 DEF PublishFrame
  <2>2. Woke({d})
    BY <1>0, <2>1, WokenFacts
  <2>3. Pushed(queue[d]) \in 1..QueueSize
    BY <1>0, RecorderAssumption DEF TypeOK, Pushed
  <2>4. /\ queue' \in [Channel -> 0..QueueSize]
        /\ \A c \in Channel : c # d => queue'[c] = queue[c]
    BY <1>0, <2>1, <2>3 DEF TypeOK
  <2>5. TypeOK'
    BY <1>0, <1>1, <2>2, <2>4 DEF TypeOK, FlagsTypeOK, CapturePc, Woke
  <2>6. ASSUME NEW t \in Thread
        PROVE  /\ Alive(t)' <=> Alive(t)
               /\ HasOutput(t)' <=> HasOutput(t)
               /\ thread_at[t] \in {"check", "encode"} => thread_at'[t] = thread_at[t]
               /\ thread_at'[t] \in {"none", "closing", "ending"} => thread_at'[t] = thread_at[t]
               /\ thread_at'[t] = "none" <=> thread_at[t] = "none"
    BY <2>2 DEF Woke, Alive, HasOutput
  <2>7. ASSUME NEW c \in Channel PROVE ChannelInv(c)'
    <3>1. ChannelInv(c)
      BY DEF IInv
    <3>2. /\ recording[c] => handle[c] \in Thread /\ ThreadInv(handle[c])
          /\ IsThreadOf(handle[c], c) => IsThreadOf(handle[c], c)'
      BY <1>1, <2>6, <3>1 DEF IInv, ChannelInv, IsThreadOf
    <3>3. queue'[c] > 0 =>
            stop \/ (recording[c] /\ thread_at'[handle[c]] \in {"check", "encode"})
      <4>1. CASE c # d
        BY <2>4, <2>6, <3>1, <3>2, <4>1 DEF ChannelInv
      <4>2. CASE c = d
        <5> SUFFICES ASSUME ~stop
                     PROVE  recording[c] /\ thread_at'[handle[c]] \in {"check", "encode"}
          OBVIOUS
        <5>1. /\ recording[c] /\ handle[c] \in Thread /\ thread_of[handle[c]] = d
              /\ Alive(handle[c]) /\ ThreadInv(handle[c])
          BY <1>3, <3>1, <3>2, <4>2 DEF ChannelInv, IsThreadOf
        <5>2. thread_at[handle[c]] \in {"check", "waiting", "encode"}
          BY <1>3, <5>1 DEF ThreadInv, Alive, HasOutput
        <5>3. thread_at'[handle[c]] # "waiting"
          BY <2>2, <5>1 DEF Woke
        <5>4. QED
          BY <2>2, <5>1, <5>2, <5>3 DEF Woke
      <4>3. QED
        BY <4>1, <4>2
    <3>4. QED
      BY <1>1, <2>6, <3>1, <3>2, <3>3 DEF ChannelInv, CallerHasOutput
  <2>8. ASSUME NEW t \in Thread PROVE ThreadInv(t)'
    <3>1. ThreadInv(t)
      BY DEF IInv
    <3>2. thread_at'[t] = "waiting" => thread_at[t] = "waiting" /\ thread_of[t] \in Channel \ {d}
      BY <2>2, <3>1 DEF Woke, ThreadInv
    <3>3. thread_at[t] \in {"closing", "ending"} =>
            thread_of[t] \in Channel /\ (stop \/ thread_of[t] # d)
      BY <1>3, <3>1 DEF ThreadInv
    <3>4. QED
      BY <1>1, <2>4, <2>6, <3>1, <3>2, <3>3 DEF ThreadInv
  <2>9. QED
    BY <1>0, <1>1, <2>5, <2>7, <2>8 DEF IInv, StopInv
<1>4. QED
  BY <1>2, <1>3

-----------------------------------------------------------------------------
\* A record thread that keeps its output goes on.
LEMMA WorkingStep ==
  ASSUME IInv, NEW u \in Thread, HasOutput(u),
         NEW pc \in {"check", "waiting", "encode", "closing"},
         thread_at' = [thread_at EXCEPT ![u] = pc],
         queue' \in [Channel -> 0..QueueSize],
         \A c \in Channel \ {thread_of[u]} : queue'[c] = queue[c],
         queue'[thread_of[u]] > 0 => stop \/ pc \in {"check", "encode"},
         pc = "waiting" =>
           queue'[thread_of[u]] = 0 /\ wanted[thread_of[u]] /\ ~stop,
         pc = "closing" =>
           stop \/ (~wanted[thread_of[u]] /\ queue'[thread_of[u]] = 0),
         UNCHANGED <<stop, freed, flags, captureVars, output, handle, started, thread_of,
                     callerVars>>
  PROVE  IInv'
<1> DEFINE d == thread_of[u]
<1>0. TypeOK /\ StopInv
  BY DEF IInv
<1>1. ThreadInv(u) /\ Alive(u) /\ thread_at[u] # "none"
  BY DEF IInv, Alive, HasOutput
<1>2. d \in Channel /\ handle[d] = u /\ recording[d] /\ output[d] = "open"
  BY <1>1 DEF ThreadInv
<1>3. /\ UNCHANGED <<initializing, wanted, recording, caller_at, target, todo>>
      /\ thread_at'[u] = pc /\ HasOutput(u)' /\ Alive(u)'
      /\ \A t \in Thread : t # u => thread_at'[t] = thread_at[t]
  BY <1>0 DEF TypeOK, Alive, HasOutput, flags, callerVars
<1>4. TypeOK'
  BY <1>0, <1>3 DEF TypeOK, FlagsTypeOK, ThreadPc, captureVars
<1>5. ASSUME NEW t \in Thread
      PROVE  /\ Alive(t)' <=> Alive(t)
             /\ HasOutput(t)' <=> HasOutput(t)
             /\ thread_at'[t] = "none" <=> thread_at[t] = "none"
  BY <1>1, <1>3 DEF Alive, HasOutput
<1> HIDE DEF d
<1>6. ASSUME NEW c \in Channel PROVE ChannelInv(c)'
  <2>1. ChannelInv(c)
    BY DEF IInv
  <2>2. /\ recording[c] => handle[c] \in Thread
        /\ IsThreadOf(handle[c], c) => IsThreadOf(handle[c], c)'
    BY <1>5, <2>1 DEF ChannelInv, IsThreadOf
  <2>3. queue'[c] > 0 =>
          stop \/ (recording[c] /\ thread_at'[handle[c]] \in {"check", "encode"})
    <3>1. CASE c = d
      BY <1>2, <1>3, <3>1 DEF d
    <3>2. CASE c # d
      <4>1. recording[c] => handle[c] # u
        BY <2>1, <3>2 DEF ChannelInv, IsThreadOf, d
      <4>2. queue'[c] = queue[c]
        BY <3>2 DEF d
      <4>3. QED
        BY <1>3, <2>1, <2>2, <4>1, <4>2 DEF ChannelInv
    <3>3. QED
      BY <3>1, <3>2
  <2>4. QED
    BY <1>3, <1>5, <2>1, <2>2, <2>3 DEF ChannelInv, CallerHasOutput
<1>7. ASSUME NEW t \in Thread PROVE ThreadInv(t)'
  <2>1. ThreadInv(t)
    BY DEF IInv
  <2>2. CASE t = u
    BY <1>2, <1>3, <1>5, <2>1, <2>2 DEF ThreadInv, d
  <2>3. CASE t # u
    <3>1. Alive(t) => thread_of[t] \in Channel /\ thread_of[t] # d
      BY <1>2, <2>1, <2>3 DEF ThreadInv, Alive, HasOutput
    <3>2. Alive(t) => queue'[thread_of[t]] = queue[thread_of[t]]
      BY <3>1 DEF d
    <3>3. thread_at[t] \in {"waiting", "closing", "ending"} => Alive(t)
      BY DEF Alive, HasOutput
    <3>4. QED
      BY <1>3, <1>5, <2>1, <2>3, <3>2, <3>3 DEF ThreadInv
  <2>4. QED
    BY <2>2, <2>3
<1>8. QED
  BY <1>0, <1>3, <1>4, <1>6, <1>7 DEF IInv, StopInv

LEMMA RecordWorksStep ==
  ASSUME IInv, NEW u \in Thread, RecordCheck(u) \/ SpuriousWake(u) \/ RecordEncode(u)
  PROVE  IInv'
<1> DEFINE d == thread_of[u]
<1>0. TypeOK /\ ThreadInv(u) /\ HasOutput(u)
  BY DEF IInv, RecordCheck, SpuriousWake, RecordEncode, HasOutput
<1>1. d \in Channel /\ queue[d] \in 0..QueueSize /\ handle[d] = u
  BY <1>0 DEF ThreadInv, TypeOK, Alive, HasOutput
<1>2. CASE SpuriousWake(u) \/ RecordEncode(u)
  <2>1. thread_at' = [thread_at EXCEPT ![u] = "check"] /\ UNCHANGED queue
    BY <1>2 DEF SpuriousWake, RecordEncode, ThreadMoves
  <2>2. UNCHANGED <<stop, freed, flags, captureVars, output, handle, started, thread_of,
                    callerVars>>
    BY <1>2 DEF SpuriousWake, RecordEncode
  <2>3. QED
    BY <1>0, <2>1, <2>2, WorkingStep DEF TypeOK
<1>3. CASE RecordCheck(u)
  <2>1. UNCHANGED <<stop, freed, flags, captureVars, output, handle, started, thread_of,
                    callerVars>>
    BY <1>3 DEF RecordCheck
  <2>2. CASE /\ Drained(d) /\ wanted[d] /\ ~stop
             /\ ThreadMoves(u, "waiting") /\ UNCHANGED queue
    <3>1. /\ thread_at' = [thread_at EXCEPT ![u] = "waiting"]
          /\ queue' = queue /\ queue' \in [Channel -> 0..QueueSize]
          /\ queue'[thread_of[u]] = 0 /\ ~(queue'[thread_of[u]] > 0)
          /\ wanted[thread_of[u]] /\ ~stop
      BY <1>0, <2>2 DEF TypeOK, ThreadMoves, Drained
    <3>2. QED
      BY <1>0, <2>1, <3>1, WorkingStep
  <2>3. CASE /\ Drained(d) /\ ~(wanted[d] /\ ~stop)
             /\ ThreadMoves(u, "closing") /\ UNCHANGED queue
    <3>1. /\ thread_at' = [thread_at EXCEPT ![u] = "closing"]
          /\ queue' = queue /\ queue' \in [Channel -> 0..QueueSize]
          /\ queue'[thread_of[u]] = 0 /\ ~(queue'[thread_of[u]] > 0)
          /\ stop \/ ~wanted[thread_of[u]]
      BY <1>0, <2>3 DEF TypeOK, ThreadMoves, Drained
    <3>2. QED
      BY <1>0, <2>1, <3>1, WorkingStep
  <2>4. CASE /\ ~Drained(d) /\ ThreadMoves(u, "encode")
             /\ queue' = [queue EXCEPT ![d] = @ - 1]
    <3>1. queue[d] - 1 \in 0..QueueSize
      BY <1>1, <2>4, RecorderAssumption DEF Drained
    <3>2. /\ queue' \in [Channel -> 0..QueueSize]
          /\ \A c \in Channel \ {d} : queue'[c] = queue[c]
      BY <1>0, <2>4, <3>1 DEF TypeOK
    <3>3. QED
      BY <1>0, <2>1, <2>4, <3>2, WorkingStep DEF ThreadMoves
  <2>5. QED
    BY <1>3, <2>2, <2>3, <2>4 DEF RecordCheck
<1>4. QED
  BY <1>2, <1>3

LEMMA RecordCloseStep ==
  ASSUME IInv, NEW u \in Thread, RecordClose(u)
  PROVE  IInv'
<1> DEFINE d == thread_of[u]
<1>0. TypeOK /\ StopInv /\ ThreadInv(u) /\ thread_at[u] = "closing"
  BY DEF IInv, RecordClose
<1>1. /\ UNCHANGED <<stop, freed, captureVars, queue, handle, started, thread_of,
                      initializing, wanted, recording, caller_at, target, todo>>
      /\ output' = [output EXCEPT ![d] = "closed"]
      /\ thread_at' = [thread_at EXCEPT ![u] = "ending"]
  BY DEF RecordClose, ThreadMoves, flags, callerVars
<1>2. d \in Channel /\ handle[d] = u /\ recording[d]
      /\ (stop \/ (~wanted[d] /\ queue[d] = 0))
  BY <1>0 DEF ThreadInv, Alive, HasOutput
<1>3. /\ output'[d] = "closed" /\ \A c \in Channel : c # d => output'[c] = output[c]
      /\ thread_at'[u] = "ending" /\ \A t \in Thread : t # u => thread_at'[t] = thread_at[t]
  BY <1>0, <1>1, <1>2 DEF TypeOK
<1>4. TypeOK'
  BY <1>0, <1>1, <1>2 DEF TypeOK, FlagsTypeOK, ThreadPc, captureVars
<1>5. ASSUME NEW t \in Thread
      PROVE  /\ Alive(t)' <=> Alive(t)
             /\ HasOutput(t)' <=> HasOutput(t) /\ t # u
             /\ thread_at'[t] = "none" <=> thread_at[t] = "none"
  BY <1>0, <1>3 DEF Alive, HasOutput
<1> HIDE DEF d
<1>6. ASSUME NEW c \in Channel PROVE ChannelInv(c)'
  <2>1. ChannelInv(c)
    BY DEF IInv
  <2>2. /\ recording[c] => handle[c] \in Thread
        /\ IsThreadOf(handle[c], c) => IsThreadOf(handle[c], c)'
    BY <1>1, <1>5, <2>1 DEF ChannelInv, IsThreadOf
  <2>3. recording[c] /\ c # d => handle[c] # u
    BY <2>1 DEF ChannelInv, IsThreadOf, d
  <2>4. queue[c] > 0 =>
          stop \/ (recording[c] /\ thread_at'[handle[c]] \in {"check", "encode"})
    BY <1>2, <1>3, <2>1, <2>2, <2>3, <1>0 DEF ChannelInv, TypeOK
  <2>5. output'[c] = "open" =>
          CallerHasOutput(c) \/ (recording[c] /\ HasOutput(handle[c])')
    BY <1>1, <1>3, <1>5, <2>1, <2>2, <2>3 DEF ChannelInv
  <2>6. QED
    <3>1. c = d /\ target = c => caller_at \notin {"warmup", "commit"}
      BY <1>2, <2>1 DEF ChannelInv, Committed, Preparing
    <3>2. QED
      BY <1>1, <1>3, <1>5, <2>1, <2>2, <2>4, <2>5, <3>1 DEF ChannelInv, CallerHasOutput
<1>7. ASSUME NEW t \in Thread PROVE ThreadInv(t)'
  <2>1. ThreadInv(t)
    BY DEF IInv
  <2>2. CASE t = u
    BY <1>1, <1>2, <1>3, <1>5, <2>1, <2>2 DEF ThreadInv, d
  <2>3. CASE t # u
    <3>1. Alive(t) => thread_of[t] \in Channel /\ thread_of[t] # d
      BY <1>2, <2>1, <2>3 DEF ThreadInv, Alive, HasOutput
    <3>2. HasOutput(t) => Alive(t)
      BY DEF Alive
    <3>3. QED
      BY <1>1, <1>3, <1>5, <2>1, <2>3, <3>1, <3>2 DEF ThreadInv
  <2>4. QED
    BY <2>2, <2>3
<1>8. QED
  BY <1>0, <1>1, <1>4, <1>6, <1>7 DEF IInv, StopInv

LEMMA RecordEndStep ==
  ASSUME IInv, NEW u \in Thread, RecordEnd(u)
  PROVE  IInv'
<1> DEFINE d == thread_of[u]
<1>0. TypeOK /\ StopInv /\ ThreadInv(u) /\ thread_at[u] = "ending"
  BY DEF IInv, RecordEnd
<1>1. /\ UNCHANGED <<stop, freed, captureVars, queue, output, handle, started, thread_of,
                      initializing, wanted, caller_at, target, todo>>
      /\ recording' = [recording EXCEPT ![d] = FALSE]
      /\ thread_at' = [thread_at EXCEPT ![u] = "done"]
  BY DEF RecordEnd, ThreadMoves, callerVars
<1>2. d \in Channel /\ handle[d] = u /\ recording[d]
      /\ (stop \/ (~wanted[d] /\ queue[d] = 0)) /\ ~HasOutput(u)
  BY <1>0 DEF ThreadInv, Alive, HasOutput
<1>3. /\ ~recording'[d] /\ \A c \in Channel : c # d => recording'[c] = recording[c]
      /\ thread_at'[u] = "done" /\ \A t \in Thread : t # u => thread_at'[t] = thread_at[t]
  BY <1>0, <1>1, <1>2 DEF TypeOK, FlagsTypeOK
<1>4. TypeOK'
  BY <1>0, <1>1, <1>2 DEF TypeOK, FlagsTypeOK, ThreadPc, captureVars
<1>5. ASSUME NEW t \in Thread
      PROVE  /\ Alive(t)' <=> Alive(t) /\ t # u
             /\ HasOutput(t)' <=> HasOutput(t)
             /\ thread_at'[t] = "none" <=> thread_at[t] = "none"
  BY <1>0, <1>3 DEF Alive, HasOutput
<1> HIDE DEF d
<1>6. ASSUME NEW c \in Channel PROVE ChannelInv(c)'
  <2>1. ChannelInv(c)
    BY DEF IInv
  <2>2. /\ recording[c] => handle[c] \in Thread
        /\ IsThreadOf(handle[c], c) => IsThreadOf(handle[c], c)'
    BY <1>1, <1>5, <2>1 DEF ChannelInv, IsThreadOf
  <2>3. CASE c = d
    <3>1. queue[c] > 0 => stop
      BY <1>0, <1>2, <2>3 DEF TypeOK
    <3>2. output[c] = "open" => CallerHasOutput(c)
      BY <1>2, <2>1, <2>3 DEF ChannelInv
    <3>3. QED
      BY <1>1, <1>2, <1>3, <2>1, <2>2, <2>3, <3>1, <3>2 DEF ChannelInv, CallerHasOutput
  <2>4. CASE c # d
    <3>1. recording[c] => handle[c] # u
      BY <2>1, <2>4 DEF ChannelInv, IsThreadOf, d
    <3>2. recording'[c] = recording[c]
      BY <1>3, <2>4
    <3>3. queue[c] > 0 =>
            stop \/ (recording[c] /\ thread_at'[handle[c]] \in {"check", "encode"})
      BY <1>3, <2>1, <2>2, <3>1 DEF ChannelInv
    <3>4. QED
      BY <1>1, <1>5, <2>1, <2>2, <3>1, <3>2, <3>3 DEF ChannelInv, CallerHasOutput
  <2>5. QED
    BY <2>3, <2>4
<1>7. ASSUME NEW t \in Thread PROVE ThreadInv(t)'
  <2>1. ThreadInv(t)
    BY DEF IInv
  <2>2. CASE t = u
    BY <1>1, <1>2, <1>3, <1>5, <2>1, <2>2 DEF ThreadInv
  <2>3. CASE t # u
    <3>1. Alive(t) => thread_of[t] \in Channel /\ thread_of[t] # d
      BY <1>2, <2>1, <2>3 DEF ThreadInv, Alive, HasOutput
    <3>2. HasOutput(t) => Alive(t)
      BY DEF Alive
    <3>3. QED
      BY <1>1, <1>3, <1>5, <2>1, <2>3, <3>1, <3>2 DEF ThreadInv
  <2>4. QED
    BY <2>2, <2>3
<1>8. QED
  BY <1>0, <1>1, <1>4, <1>6, <1>7 DEF IInv, StopInv

-----------------------------------------------------------------------------
\* While a start is under way, its channel has no record thread.
LEMMA NobodyRecords ==
  ASSUME IInv, caller_at \in Committed
  PROVE  /\ target \in Channel /\ ~wanted[target] /\ ~recording[target]
         /\ initializing[target] <=> caller_at \in Preparing
         /\ \A t \in Thread : Alive(t) => thread_of[t] \in Channel \ {target}
         /\ caller_at \in StartPc /\ ~stop /\ TypeOK
<1>1. target \in Channel /\ caller_at \in StartPc /\ ~stop /\ TypeOK
  BY DEF IInv, StopInv, TypeOK, Committed, Preparing, StartPc
<1>2. ChannelInv(target)
  BY <1>1 DEF IInv
<1>3. ~recording[target] /\ ~wanted[target]
  BY <1>2 DEF ChannelInv
<1>4. ASSUME NEW t \in Thread, Alive(t) PROVE thread_of[t] \in Channel \ {target}
  <2>1. ThreadInv(t)
    BY DEF IInv
  <2>2. QED
    BY <1>3, <1>4, <2>1 DEF ThreadInv, Alive, HasOutput
<1>5. QED
  BY <1>1, <1>2, <1>3, <1>4 DEF ChannelInv

\* Steps of a start that change nothing but the target's output and `initializing`.
LEMMA StartStep ==
  ASSUME IInv, TypeOK', caller_at \in Committed \cup {"begin"}, target \in Channel, ~stop,
         ~wanted[target] /\ ~recording[target],
         \A t \in Thread : Alive(t) => thread_of[t] \in Channel \ {target},
         target' = target, caller_at' \in Committed \cup {"next"},
         initializing'[target] <=> caller_at' \in Preparing,
         \A c \in Channel \ {target} : initializing'[c] = initializing[c],
         \A c \in Channel \ {target} : output'[c] = output[c],
         output'[target] = "open" => CallerHasOutput(target)',
         caller_at' \in {"warmup", "commit"} => output'[target] = "open",
         UNCHANGED <<stop, wanted, recording, queue, handle, started, thread_at, thread_of>>
  PROVE  IInv'
<1>1. caller_at' \notin {"join", "begin"} /\ caller_at # "join"
  BY DEF Committed, Preparing
<1>2. ASSUME NEW c \in Channel PROVE ChannelInv(c)'
  <2>1. ChannelInv(c)
    BY DEF IInv
  <2>2. /\ IsThreadOf(handle[c], c)' <=> IsThreadOf(handle[c], c)
        /\ Alive(handle[c])' <=> Alive(handle[c])
        /\ HasOutput(handle[c])' <=> HasOutput(handle[c])
    BY DEF IsThreadOf, Alive, HasOutput
  <2>3. CASE c = target
    BY <1>1, <2>1, <2>2, <2>3 DEF ChannelInv
  <2>4. CASE c # target
    <3>1. ~CallerHasOutput(c) /\ ~CallerHasOutput(c)'
      BY <2>4 DEF CallerHasOutput
    <3>2. initializing'[c] = initializing[c] /\ output'[c] = output[c]
      BY <2>4
    <3>3. QED
      BY <2>1, <2>2, <2>4, <3>1, <3>2 DEF ChannelInv
  <2>5. QED
    BY <2>3, <2>4
<1>3. ASSUME NEW t \in Thread PROVE ThreadInv(t)'
  <2>1. ThreadInv(t)
    BY DEF IInv
  <2>2. (Alive(t)' <=> Alive(t)) /\ (HasOutput(t)' <=> HasOutput(t)) /\ (HasOutput(t) => Alive(t))
    BY DEF Alive, HasOutput
  <2>3. Alive(t) => output'[thread_of[t]] = output[thread_of[t]]
    OBVIOUS
  <2>4. QED
    BY <2>1, <2>2, <2>3 DEF ThreadInv
<1>4. QED
  BY <1>2, <1>3 DEF IInv, StopInv

LEMMA BeginStartStep ==
  ASSUME IInv, BeginStart
  PROVE  IInv'
<1>0. TypeOK /\ StopInv /\ caller_at = "begin" /\ target \in Channel /\ ~stop
  BY DEF IInv, BeginStart, TypeOK, StartPc, StopInv
<1>1. UNCHANGED <<stop, freed, wanted, recording, captureVars, queue, output, handle,
                  threadVars, target, todo>>
  BY DEF BeginStart
<1>2. CASE caller_at' = "next" /\ UNCHANGED initializing
  <2>1. TypeOK'
    BY <1>0, <1>1, <1>2 DEF TypeOK, FlagsTypeOK, CallerPc, StartPc, captureVars, threadVars
  <2>2. Away /\ Away' /\ StopInv'
    BY <1>0, <1>1, <1>2 DEF Away, Committed, Preparing, StopInv
  <2>3. QED
    BY <1>1, <1>2, <2>1, <2>2, AwayStep DEF flags
<1>3. CASE /\ ~Busy(target)
           /\ initializing' = [initializing EXCEPT ![target] = TRUE]
           /\ caller_at' \in {"open", "withdraw"}
  <2>1. TypeOK'
    BY <1>0, <1>1, <1>3 DEF TypeOK, FlagsTypeOK, CallerPc, StartPc, captureVars, threadVars
  <2>2. /\ initializing'[target]
        /\ \A c \in Channel \ {target} : initializing'[c] = initializing[c]
    BY <1>0, <1>3 DEF TypeOK, FlagsTypeOK
  <2>3. ~wanted[target] /\ ~recording[target] /\ ~initializing[target]
    BY <1>3 DEF Busy
  <2>4. ASSUME NEW t \in Thread, Alive(t) PROVE thread_of[t] \in Channel \ {target}
    <3>1. ThreadInv(t)
      BY DEF IInv
    <3>2. QED
      BY <2>3, <2>4, <3>1 DEF ThreadInv, Alive, HasOutput
  <2>5. output[target] # "open"
    BY <1>0, <2>3 DEF IInv, ChannelInv, CallerHasOutput
  <2>6. /\ caller_at \in Committed \cup {"begin"}
        /\ caller_at' \in Preparing /\ caller_at' \in Committed \cup {"next"}
        /\ caller_at' \notin {"warmup", "commit"}
    BY <1>0, <1>3 DEF Committed, Preparing
  <2>7. QED
    BY <1>0, <1>1, <2>1, <2>2, <2>3, <2>4, <2>5, <2>6, StartStep DEF threadVars
<1>4. QED
  BY <1>2, <1>3 DEF BeginStart, CallerMoves

LEMMA OutputSteps ==
  ASSUME IInv, OpenOutput \/ Warmup \/ AbortStart \/ WithdrawStart \/ UndoStart
  PROVE  IInv'
<1>0. caller_at \in Committed
  BY DEF OpenOutput, Warmup, AbortStart, WithdrawStart, UndoStart, Committed, Preparing
<1>1. /\ target \in Channel /\ ~wanted[target] /\ ~recording[target]
      /\ initializing[target] <=> caller_at \in Preparing
      /\ \A t \in Thread : Alive(t) => thread_of[t] \in Channel \ {target}
      /\ caller_at \in StartPc /\ ~stop /\ TypeOK
  BY <1>0, NobodyRecords
<1>2. UNCHANGED <<stop, freed, wanted, recording, captureVars, queue, handle,
                  threadVars, target, todo>>
  BY DEF OpenOutput, Warmup, AbortStart, WithdrawStart, UndoStart, flags
<1>3. /\ \A c \in Channel \ {target} : initializing'[c] = initializing[c]
      /\ \A c \in Channel \ {target} : output'[c] = output[c]
      /\ initializing' \in [Channel -> BOOLEAN]
      /\ output' \in [Channel -> {"closed", "open"}]
  BY <1>1 DEF OpenOutput, Warmup, AbortStart, WithdrawStart, UndoStart, flags, TypeOK, FlagsTypeOK
<1>4. caller_at' \in {"warmup", "abort", "commit", "withdraw", "next"}
  BY DEF OpenOutput, Warmup, AbortStart, WithdrawStart, UndoStart, CallerMoves
<1>5. TypeOK'
  BY <1>1, <1>2, <1>3, <1>4 DEF TypeOK, FlagsTypeOK, CallerPc, StartPc, captureVars, threadVars
<1>6. initializing'[target] <=> caller_at' \in Preparing
  <2>1. CASE WithdrawStart
    BY <1>1, <2>1 DEF WithdrawStart, CallerMoves, Preparing, TypeOK, FlagsTypeOK
  <2>2. CASE UndoStart
    BY <1>1, <2>2 DEF UndoStart, CallerMoves, Preparing, flags
  <2>3. CASE OpenOutput \/ Warmup \/ AbortStart
    BY <1>1, <2>3 DEF OpenOutput, Warmup, AbortStart, CallerMoves, Preparing, flags
  <2>4. QED
    BY <2>1, <2>2, <2>3
<1>7. output'[target] = "open" => CallerHasOutput(target)'
  <2>1. CASE OpenOutput \/ Warmup
    BY <1>2, <2>1 DEF OpenOutput, Warmup, CallerHasOutput
  <2>2. CASE AbortStart \/ UndoStart
    BY <1>1, <2>2 DEF AbortStart, UndoStart, TypeOK
  <2>3. CASE WithdrawStart
    <3>1. ChannelInv(target)
      BY <1>1 DEF IInv
    <3>2. QED
      BY <1>1, <2>3, <3>1 DEF WithdrawStart, ChannelInv, CallerHasOutput
  <2>4. QED
    BY <2>1, <2>2, <2>3
<1>8. caller_at' \in Committed \cup {"next"}
  BY <1>4 DEF Committed, Preparing
<1>9. caller_at' \in {"warmup", "commit"} => output'[target] = "open"
  <2>1. CASE OpenOutput
    BY <1>1, <2>1 DEF OpenOutput, TypeOK
  <2>2. CASE Warmup
    <3>1. ChannelInv(target)
      BY <1>1 DEF IInv
    <3>2. QED
      BY <2>2, <3>1 DEF Warmup, ChannelInv
  <2>3. CASE AbortStart \/ WithdrawStart \/ UndoStart
    BY <2>3 DEF AbortStart, WithdrawStart, UndoStart, CallerMoves
  <2>4. QED
    BY <2>1, <2>2, <2>3
<1>10. QED
  BY <1>0, <1>1, <1>2, <1>3, <1>5, <1>6, <1>7, <1>8, <1>9, StartStep DEF threadVars

LEMMA CommitStartStep ==
  ASSUME IInv, CommitStart
  PROVE  IInv'
<1>0. caller_at = "commit" /\ caller_at \in Committed /\ caller_at \in Preparing
  BY DEF CommitStart, Committed, Preparing
<1>1. /\ target \in Channel /\ ~wanted[target] /\ ~recording[target]
      /\ \A t \in Thread : Alive(t) => thread_of[t] \in Channel \ {target}
      /\ ~stop /\ TypeOK
  BY <1>0, NobodyRecords
<1>2. /\ UNCHANGED <<stop, freed, captureVars, output, target, todo>>
      /\ initializing' = [initializing EXCEPT ![target] = FALSE]
      /\ queue' = [queue EXCEPT ![target] = 0]
  BY <1>1 DEF CommitStart
<1>3. /\ initializing' \in [Channel -> BOOLEAN] /\ ~initializing'[target]
      /\ \A c \in Channel \ {target} : initializing'[c] = initializing[c]
      /\ queue' \in [Channel -> 0..QueueSize] /\ queue'[target] = 0
      /\ \A c \in Channel \ {target} : queue'[c] = queue[c]
  BY <1>1, <1>2, RecorderAssumption DEF TypeOK, FlagsTypeOK
<1>4. CASE caller_at' = "undo" /\ UNCHANGED <<wanted, recording, handle, threadVars>>
  <2>1. TypeOK'
    BY <1>1, <1>2, <1>3, <1>4
       DEF TypeOK, FlagsTypeOK, CallerPc, StartPc, captureVars, threadVars
  <2>2. ASSUME NEW c \in Channel PROVE ChannelInv(c)'
    <3>1. ChannelInv(c)
      BY DEF IInv
    <3>2. /\ IsThreadOf(handle[c], c)' <=> IsThreadOf(handle[c], c)
          /\ Alive(handle[c])' <=> Alive(handle[c])
          /\ HasOutput(handle[c])' <=> HasOutput(handle[c])
          /\ CallerHasOutput(c)' <=> CallerHasOutput(c)
      BY <1>0, <1>2, <1>4 DEF IsThreadOf, Alive, HasOutput, CallerHasOutput, threadVars
    <3>3. CASE c = target
      BY <1>0, <1>1, <1>2, <1>3, <1>4, <3>1, <3>2, <3>3
         DEF ChannelInv, Preparing, threadVars
    <3>4. CASE c # target
      BY <1>0, <1>1, <1>2, <1>3, <1>4, <3>1, <3>2, <3>4 DEF ChannelInv, threadVars
    <3>5. QED
      BY <3>3, <3>4
  <2>3. ASSUME NEW t \in Thread PROVE ThreadInv(t)'
    <3>1. ThreadInv(t)
      BY DEF IInv
    <3>2. Alive(t) => queue'[thread_of[t]] = queue[thread_of[t]]
      BY <1>1, <1>3
    <3>3. thread_at[t] \in {"waiting", "closing", "ending"} => Alive(t)
      BY DEF Alive, HasOutput
    <3>4. (Alive(t)' <=> Alive(t)) /\ (HasOutput(t)' <=> HasOutput(t))
      BY <1>4 DEF Alive, HasOutput, threadVars
    <3>5. QED
      BY <1>2, <1>4, <3>1, <3>2, <3>3, <3>4 DEF ThreadInv, threadVars
  <2>4. QED
    BY <1>1, <1>2, <2>1, <2>2, <2>3 DEF IInv, StopInv
<1>5. ASSUME NEW u, u = started + 1,
             started < MaxThreads,
             started' = u,
             thread_of' = [thread_of EXCEPT ![u] = target],
             ThreadMoves(u, "check"),
             handle' = [handle EXCEPT ![target] = u],
             wanted' = [wanted EXCEPT ![target] = TRUE],
             recording' = [recording EXCEPT ![target] = TRUE],
             caller_at' = "next"
      PROVE  IInv'
  <2>0. u \in Thread /\ started' \in 0..MaxThreads /\ started' = u /\ started \in Nat
    BY <1>1, <1>5, ThreadFacts DEF TypeOK
  <2>1. thread_at[u] = "none"
    <3>1. u > started
      BY <1>5, <2>0
    <3>2. QED
      BY <2>0, <3>1 DEF IInv, ThreadInv
  <2>2. /\ thread_at' = [thread_at EXCEPT ![u] = "check"]
        /\ thread_of' = [thread_of EXCEPT ![u] = target]
        /\ handle' = [handle EXCEPT ![target] = u]
    BY <1>5 DEF ThreadMoves
  <2>3. /\ thread_at'[u] = "check" /\ thread_of'[u] = target
        /\ \A t \in Thread : t # u => thread_at'[t] = thread_at[t] /\ thread_of'[t] = thread_of[t]
        /\ handle'[target] = u /\ wanted'[target] /\ recording'[target]
        /\ \A c \in Channel \ {target} :
             handle'[c] = handle[c] /\ wanted'[c] = wanted[c] /\ recording'[c] = recording[c]
    BY <1>1, <1>5, <2>0, <2>2 DEF TypeOK, FlagsTypeOK
  <2>4. TypeOK'
    BY <1>1, <1>2, <1>3, <1>5, <2>0, <2>2
       DEF TypeOK, FlagsTypeOK, CallerPc, StartPc, ThreadPc, captureVars
  <2>5. HasOutput(u)' /\ Alive(u)' /\ ~Alive(u) /\ ~HasOutput(u)
    BY <2>1, <2>3 DEF HasOutput, Alive
  <2>6. ASSUME NEW t \in Thread, t # u
        PROVE  (Alive(t)' <=> Alive(t)) /\ (HasOutput(t)' <=> HasOutput(t))
    BY <2>3, <2>6 DEF Alive, HasOutput
  <2>7. ASSUME NEW c \in Channel PROVE ChannelInv(c)'
    <3>1. ChannelInv(c)
      BY DEF IInv
    <3>2. caller_at' \notin Preparing /\ caller_at' \notin Committed /\ caller_at' # "join"
      BY <1>5 DEF Preparing, Committed
    <3>3. CASE c = target
      <4>1. /\ IsThreadOf(handle[c], c)'
            /\ HasOutput(handle[c])' /\ Alive(handle[c])'
        BY <2>0, <2>3, <2>5, <3>3 DEF IsThreadOf, HasOutput, Alive
      <4>2. caller_at' \notin {"warmup", "commit"}
        BY <1>5
      <4>3. ~initializing'[c] /\ recording'[c] /\ queue'[c] = 0
        BY <1>3, <2>3, <3>3
      <4>4. QED
        BY <3>2, <4>1, <4>2, <4>3 DEF ChannelInv
    <3>4. CASE c # target
      <4>1. IsThreadOf(handle[c], c) => handle[c] \in Thread /\ handle[c] # u
        BY <2>1 DEF IsThreadOf
      <4>2. recording[c] => /\ IsThreadOf(handle[c], c)'
                            /\ Alive(handle[c])' <=> Alive(handle[c])
                            /\ HasOutput(handle[c])' <=> HasOutput(handle[c])
                            /\ thread_at'[handle[c]] = thread_at[handle[c]]
        BY <2>3, <2>6, <3>1, <3>4, <4>1 DEF ChannelInv, IsThreadOf
      <4>3. ~CallerHasOutput(c) /\ ~CallerHasOutput(c)'
        BY <1>2, <3>4 DEF CallerHasOutput
      <4>4. c \in Channel \ {target}
        BY <3>4
      <4>5. QED
        BY <1>2, <1>3, <2>3, <3>1, <3>2, <3>4, <4>2, <4>3, <4>4 DEF ChannelInv
    <3>5. QED
      BY <3>3, <3>4
  <2>8. output[target] = "open"
    <3>1. ChannelInv(target)
      BY <1>1 DEF IInv
    <3>2. QED
      BY <1>0, <3>1 DEF ChannelInv
  <2>9. ASSUME NEW t \in Thread PROVE ThreadInv(t)'
    <3>1. ThreadInv(t)
      BY DEF IInv
    <3>2. CASE t = u
      <4>1. ~(u > started')
        BY <2>0
      <4>2. QED
        BY <1>1, <1>2, <2>3, <2>5, <2>8, <3>2, <4>1 DEF ThreadInv
    <3>3. CASE t # u
      <4>1. t > started' <=> t > started
        BY <1>5, <2>0, <3>3, ThreadFacts
      <4>2. Alive(t) => thread_of[t] \in Channel \ {target}
        BY <1>1
      <4>3. thread_at[t] \in {"waiting", "closing", "ending"} => Alive(t)
        BY DEF Alive, HasOutput
      <4>4. HasOutput(t) => Alive(t)
        BY DEF Alive
      <4>5. QED
        BY <1>2, <1>3, <2>3, <2>6, <3>1, <3>3, <4>1, <4>2, <4>3, <4>4 DEF ThreadInv
    <3>4. QED
      BY <3>2, <3>3
  <2>10. StopInv'
    BY <1>1, <1>2 DEF StopInv
  <2>11. QED
    BY <2>4, <2>7, <2>9, <2>10 DEF IInv
<1>6. QED
  BY <1>1, <1>4, <1>5 DEF CommitStart, CallerMoves

-----------------------------------------------------------------------------
LEMMA NextIInv == IInv /\ [Next]_vars => IInv'
<1> SUFFICES ASSUME IInv, [Next]_vars PROVE IInv'
  OBVIOUS
<1>1. ASSUME NEW c \in Channel, Capture(c) PROVE IInv'
  BY <1>1, CaptureQuietStep, LoseSignalStep, PublishFrameStep DEF Capture
<1>2. ASSUME NEW t \in Thread, Record(t) \/ SpuriousWake(t) PROVE IInv'
  BY <1>2, RecordWorksStep, RecordCloseStep, RecordEndStep DEF Record
<1>3. ASSUME NEW c \in Channel, StopRequest(c) PROVE IInv'
  BY <1>3, StopRequestStep
<1>4. ASSUME NEW cs \in SUBSET Channel, StartRequest(cs) PROVE IInv'
  BY <1>4, CallerQuietStep
<1>5. CASE StopAllRequest \/ DeinitRequest
  BY <1>5, CallerQuietStep, DeinitRequestStep
<1>6. CASE Starting
  BY <1>6, CallerQuietStep, BeginStartStep, OutputSteps, CommitStartStep DEF Starting
<1>7. CASE Stopping
  BY <1>7, StopJoinsStep, SignalNextStep, JoinNextStep, CallerQuietStep DEF Stopping
<1>8. CASE UNCHANGED vars
  <2>1. UNCHANGED <<stop, freed, initializing, wanted, recording, captureVars, queue, output,
                    handle, started, thread_at, thread_of, caller_at, target, todo>>
    BY <1>8 DEF vars, flags, threadVars, callerVars
  <2>2. TypeOK'
    BY <2>1 DEF IInv, TypeOK, FlagsTypeOK, captureVars
  <2>3. QED
    BY <2>1, <2>2 DEF IInv, StopInv, ChannelInv, ThreadInv, IsThreadOf, Alive, HasOutput,
                      CallerHasOutput
<1>9. QED
  <2>1. \A c \in Channel : {c} \in SUBSET Channel
    OBVIOUS
  <2>2. CASE Next
    BY <1>1, <1>2, <1>3, <1>4, <1>5, <1>6, <1>7, <1>8, <2>1, <2>2 DEF Next, Terminated
  <2>3. QED
    BY <1>8, <2>2

LEMMA Invariant == Spec => []IInv
BY InitIInv, NextIInv, PTL DEF Spec

-----------------------------------------------------------------------------
\* Every variable keeps its type.
THEOREM TypeCorrect == Spec => []TypeOK
BY Invariant, PTL DEF IInv

\* No two threads ever touch the output of a channel, and no output is left open.
THEOREM OneWriterPerFile == Spec => []FileHasOneWriter
<1>1. IInv => FileHasOneWriter
  <2> SUFFICES ASSUME IInv PROVE FileHasOneWriter
    OBVIOUS
  <2>1. ASSUME NEW t \in Thread, HasOutput(t)
        PROVE  /\ thread_of[t] \in Channel /\ handle[thread_of[t]] = t
               /\ recording[thread_of[t]] /\ output[thread_of[t]] = "open"
    BY <2>1 DEF IInv, ThreadInv, Alive, HasOutput
  <2>2. OneThreadPerOutput
    BY <2>1 DEF OneThreadPerOutput
  <2>3. ASSUME NEW c \in Channel, recording[c] PROVE ~CallerHasOutput(c)
    <3>1. ChannelInv(c)
      BY DEF IInv
    <3>2. QED
      BY <2>3, <3>1 DEF ChannelInv, CallerHasOutput, Committed, Preparing
  <2>4. NotWhileStarting
    BY <2>1, <2>3 DEF NotWhileStarting
  <2>5. SomeoneCloses
    BY DEF IInv, ChannelInv, IsThreadOf, SomeoneCloses
  <2>6. QED
    BY <2>2, <2>4, <2>5 DEF FileHasOneWriter
<1>2. QED
  BY <1>1, Invariant, PTL

\* rec_thread names the record thread of the channel as long as that thread runs.
THEOREM HandleIsThread == Spec => []HandleNamesThread
<1>1. IInv => HandleNamesThread
  BY DEF IInv, ThreadInv, HandleNamesThread
<1>2. QED
  BY <1>1, Invariant, PTL

\* A record thread sleeps only while it has nothing to do.
THEOREM NoWakeupIsLost == Spec => []NoLostWakeup
<1>1. IInv => NoLostWakeup
  BY DEF IInv, ThreadInv, NoLostWakeup
<1>2. QED
  BY <1>1, Invariant, PTL

\* A queued frame has a thread that will encode it.
THEOREM EveryFrameEncoded == Spec => []NoFrameLeftBehind
<1>1. IInv => NoFrameLeftBehind
  BY DEF IInv, ChannelInv, IsThreadOf, NoFrameLeftBehind
<1>2. QED
  BY <1>1, Invariant, PTL

\* When vp_record_stop returns, the file is complete.
THEOREM StopFinishes == Spec => StopFinishesFile
<1>1. ASSUME IInv, [Next]_vars, caller_at = "join", caller_at' = "idle"
      PROVE  Complete(target)
  <2>1. StopJoins
    <3>1. ~(UNCHANGED vars)
      BY <1>1 DEF vars, callerVars
    <3>2. \A c \in Channel : ~Capture(c)
      BY <1>1 DEF Capture, CaptureTurn, LoseSignal, PublishFrame, SkipFrame, callerVars
    <3>3. \A t \in Thread : ~Record(t) /\ ~SpuriousWake(t)
      BY <1>1 DEF Record, RecordCheck, RecordEncode, RecordClose, RecordEnd, SpuriousWake, callerVars
    <3>4. /\ \A cs : ~StartRequest(cs)
          /\ \A c : ~StopRequest(c)
          /\ ~StopAllRequest /\ ~DeinitRequest /\ ~Terminated
      BY <1>1, <3>1 DEF StartRequest, StopRequest, StopAllRequest, DeinitRequest, Terminated
    <3>5. ~Starting
      BY <1>1 DEF Starting, StartNext, BeginStart, OpenOutput, Warmup, AbortStart,
                  WithdrawStart, CommitStart, UndoStart
    <3>6. ~SignalNext /\ ~JoinNext /\ ~DeinitJoinsCapture /\ ~DeinitFrees
      BY <1>1 DEF SignalNext, JoinNext, DeinitJoinsCapture, DeinitFrees
    <3>7. QED
      BY <1>1, <3>1, <3>2, <3>3, <3>4, <3>5, <3>6 DEF Next, Stopping
  <2>2. QED
    BY <1>1, <2>1, StopJoinsStep
<1>2. IInv /\ [Next]_vars =>
        [caller_at = "join" /\ caller_at' = "idle" => Complete(target)]_vars
  BY <1>1
<1>3. QED
  BY <1>2, Invariant, PTL DEF Spec, StopFinishesFile
=============================================================================
