-------------------------- MODULE CommandLinkProofs --------------------------
(***************************************************************************)
(* Proofs about CommandLink, for any number of connections, clients and    *)
(* commands, any number of attempts and any size of the air side's ring.   *)
(* The invariant orders everything by turn: the commands on their way go   *)
(* up, what was executed is not above them, and the command executed last  *)
(* is still in the ring. As a connection gets the lock once for a command, *)
(* a command that is not in the ring is then above all that was executed.  *)
(***************************************************************************)
EXTENDS CommandLink, SequenceTheorems, TLAPS

Queued(i) == handler[command_lock[i]]

\* The commands that wait for the link or have it are distinct and have no final answer.
LockOK ==
  /\ \A i \in 1..Len(command_lock) :
       /\ Queued(i) \in Command
       /\ SequenceOf[Queued(i)] <= sequences[ClientOf[Queued(i)]]
       /\ result_cache[Queued(i)] \notin Final
  /\ \A i, j \in 1..Len(command_lock) : i # j => Queued(i) # Queued(j)
  /\ transport_at # "idle" => command_lock # <<>>

\* Every command gets the link once at most, and the one that has it got it last.
TurnOK ==
  /\ \A c \in Command : turn[c] <= turns
  /\ \A c, d \in Command : turn[c] = turn[d] /\ turn[c] # 0 => c = d
  /\ \A c \in Command : turn[c] # 0 => SequenceOf[c] <= sequences[ClientOf[c]]
  /\ \A i \in 1..Len(command_lock) : i # 1 \/ transport_at = "idle" => turn[Queued(i)] = 0
  /\ transport_at # "idle" => turn[Queued(1)] = turns /\ turns # 0

OrderOK ==
  /\ \A i \in 1..Len(downlink) : turn[downlink[i]] # 0
  /\ \A i, j \in 1..Len(downlink) : i <= j => turn[downlink[i]] <= turn[downlink[j]]
  /\ \A i \in 1..Len(executed) : turn[executed[i]] # 0
  /\ ExecutedInOrder
  /\ \A i \in 1..Len(executed), j \in 1..Len(downlink) : turn[executed[i]] <= turn[downlink[j]]
  /\ executed # <<>> => Cached(executed[Len(executed)]) # {}

\* What the ring and the acknowledgements say is what the aircraft did.
ResultOK ==
  /\ \A c \in Command : result[c] # Nothing => \E i \in 1..Len(executed) : executed[i] = c
  /\ \A i \in Slot : cache[i] # Free => cache[i].result = result[cache[i].command]
  /\ \A i \in 1..Len(uplink) : uplink[i].result = result[uplink[i].command]

\* Before the first timeout nothing is on its way but the command in work or its answer.
TimelyOK ==
  ~timed_out =>
    /\ transport_at = "wait" =>
         /\ Len(downlink) + Len(uplink) <= 1
         /\ \A i \in 1..Len(downlink) : downlink[i] = Queued(1)
         /\ \A i \in 1..Len(uplink) : uplink[i].command = Queued(1)
    /\ transport_at # "wait" => downlink = <<>> /\ uplink = <<>>
    /\ transport_at = "returned" /\ verdict \in MavResult => result[Queued(1)] = verdict
    /\ \A c \in Command : result_cache[c] \in MavResult => result[c] = result_cache[c]

IInv == TypeOK /\ LockOK /\ TurnOK /\ OrderOK /\ ResultOK /\ TimelyOK
-----------------------------------------------------------------------------
LEMMA TailFacts ==
  ASSUME NEW S, NEW s \in Seq(S), s # <<>>
  PROVE  /\ Len(s) \in Nat /\ Len(s) >= 1
         /\ Head(s) = s[1] /\ Head(s) \in S
         /\ Tail(s) \in Seq(S) /\ Len(Tail(s)) = Len(s) - 1
         /\ \A i \in 1..Len(Tail(s)) : Tail(s)[i] = s[i + 1] /\ i + 1 \in 1..Len(s)
OBVIOUS

LEMMA AppendFacts ==
  ASSUME NEW S, NEW s \in Seq(S), NEW e \in S
  PROVE  /\ Append(s, e) \in Seq(S) /\ Len(Append(s, e)) = Len(s) + 1
         /\ Append(s, e) # <<>>
         /\ Len(s) \in Nat
         /\ Append(s, e)[Len(s) + 1] = e
         /\ \A i \in 1..Len(s) : Append(s, e)[i] = s[i]
OBVIOUS

LEMMA EmptyFacts ==
  /\ \A S : <<>> \in Seq(S)
  /\ Len(<<>>) = 0
OBVIOUS

\* What is left of a sequence when elements are dropped from its front or one is lost.
LEMMA DropFacts ==
  ASSUME NEW S, NEW s \in Seq(S), NEW n \in 0..Len(s)
  PROVE  /\ SubSeq(s, n + 1, Len(s)) \in Seq(S)
         /\ Len(SubSeq(s, n + 1, Len(s))) = Len(s) - n
         /\ \A i \in 1..(Len(s) - n) :
              i + n \in 1..Len(s) /\ SubSeq(s, n + 1, Len(s))[i] = s[i + n]
OBVIOUS

LEMMA WithoutFacts ==
  ASSUME NEW S, NEW s \in Seq(S), NEW i \in 1..Len(s)
  PROVE  /\ Without(s, i) \in Seq(S)
         /\ Len(Without(s, i)) = Len(s) - 1
         /\ \A k \in 1..(Len(s) - 1) :
              /\ k < i => Without(s, i)[k] = s[k] /\ k \in 1..Len(s)
              /\ k >= i => Without(s, i)[k] = s[k + 1] /\ k + 1 \in 1..Len(s)
<1>1. /\ Len(s) \in Nat /\ i \in Nat /\ i >= 1 /\ i <= Len(s)
      /\ \A k \in 1..Len(s) : s[k] \in S
  OBVIOUS
<1>2. PICK a : a = SubSeq(s, 1, i - 1)
  OBVIOUS
<1>3. PICK b : b = SubSeq(s, i + 1, Len(s))
  OBVIOUS
<1>4. a \in Seq(S) /\ Len(a) = i - 1 /\ \A k \in 1..(i - 1) : a[k] = s[k]
  BY <1>1, <1>2
<1>5. b \in Seq(S) /\ Len(b) = Len(s) - i /\ \A k \in 1..(Len(s) - i) : b[k] = s[k + i]
  BY <1>1, <1>3
<1>6. /\ a \o b \in Seq(S) /\ Len(a \o b) = Len(a) + Len(b)
      /\ \A k \in 1..(Len(a) + Len(b)) : (a \o b)[k] = IF k <= Len(a) THEN a[k] ELSE b[k - Len(a)]
  BY <1>4, <1>5, ConcatProperties
<1>7. PICK w : w = a \o b
  OBVIOUS
<1>8. /\ w \in Seq(S) /\ Len(w) = Len(s) - 1
      /\ \A k \in 1..(Len(s) - 1) : w[k] = IF k <= i - 1 THEN a[k] ELSE b[k - (i - 1)]
  BY <1>1, <1>4, <1>5, <1>6, <1>7
<1>9. ASSUME NEW k \in 1..(Len(s) - 1)
      PROVE  /\ k < i => w[k] = s[k] /\ k \in 1..Len(s)
             /\ k >= i => w[k] = s[k + 1] /\ k + 1 \in 1..Len(s)
  <2>1. CASE k < i
    <3>1. k <= i - 1 /\ k \in 1..(i - 1) /\ k \in 1..Len(s)
      BY <1>1, <2>1
    <3>2. QED
      BY <1>1, <1>4, <1>8, <2>1, <3>1
  <2>2. CASE k >= i
    <3>1. /\ ~(k <= i - 1) /\ k - (i - 1) \in 1..(Len(s) - i) /\ (k - (i - 1)) + i = k + 1
          /\ k + 1 \in 1..Len(s)
      BY <1>1, <2>2
    <3>2. b[k - (i - 1)] = s[(k - (i - 1)) + i]
      BY <1>5, <3>1
    <3>3. QED
      BY <1>1, <1>8, <2>2, <3>1, <3>2
  <2>3. QED
    BY <1>1, <2>1, <2>2
<1>10. QED
  BY <1>2, <1>3, <1>7, <1>8, <1>9 DEF Without
-----------------------------------------------------------------------------
LEMMA InitIInv == Init => IInv
<1> SUFFICES ASSUME Init PROVE IInv
  OBVIOUS
<1>1. 0 \in Slot /\ 0 \in Nat /\ 0 \in 0..MaxAttempts
  BY LinkAssumption DEF Slot
<1>2. TypeOK
  BY <1>1, EmptyFacts DEF Init, TypeOK
<1>3. LockOK /\ TurnOK
  BY LinkAssumption, EmptyFacts DEF Init, LockOK, TurnOK
<1>4. OrderOK /\ ResultOK
  BY EmptyFacts DEF Init, OrderOK, ResultOK, ExecutedInOrder, MavResult
<1>5. TimelyOK
  BY DEF Init, TimelyOK, MavResult
<1>6. QED
  BY <1>2, <1>3, <1>4, <1>5 DEF IInv

LEMMA ReplayedStep ==
  ASSUME IInv, NEW s \in Socket, NEW c \in Command, ReplayedCommand(s, c)
  PROVE  IInv'
<1>1. /\ UNCHANGED <<handler, command_lock, sequences, transport, downlink, uplink, air, turn,
                     turns, timed_out>>
      /\ result_cache' = [result_cache EXCEPT ![c] = "sequence_replay"]
  BY DEF ReplayedCommand
<1>2. TypeOK'
  BY <1>1 DEF IInv, TypeOK, Answer, transport, air
<1>3. \A d \in Command : result_cache'[d] \in Final => result_cache[d] \in Final
  BY <1>1 DEF IInv, TypeOK, Final, MavResult
<1>4. LockOK'
  BY <1>1, <1>3 DEF IInv, LockOK, Queued, transport
<1>5. \A d \in Command : result_cache'[d] \in MavResult => result_cache[d] = result_cache'[d]
  BY <1>1 DEF IInv, TypeOK, MavResult
<1>6. TimelyOK'
  BY <1>1, <1>5 DEF IInv, TimelyOK, Queued, transport, air
<1>7. QED
  BY <1>1, <1>2, <1>4, <1>6
     DEF IInv, TurnOK, Queued, OrderOK, ExecutedInOrder, Cached, ResultOK, transport, air

LEMMA NewCommandStep ==
  ASSUME IInv, NEW s \in Socket, NEW c \in Command, NewCommand(s, c)
  PROVE  IInv'
<1>1. /\ UNCHANGED <<result_cache, transport, downlink, uplink, air, turn, turns, timed_out>>
      /\ handler[s] = NoCommand /\ result_cache[c] = Nothing
      /\ SequenceOf[c] > sequences[ClientOf[c]]
      /\ sequences' = [sequences EXCEPT ![ClientOf[c]] = SequenceOf[c]]
      /\ handler' = [handler EXCEPT ![s] = c]
      /\ command_lock' = Append(command_lock, s)
  BY DEF NewCommand, Accepts
<1>2. /\ ClientOf \in [Command -> Client] /\ SequenceOf \in [Command -> Nat]
      /\ NoCommand \notin Command
  BY LinkAssumption
<1>3. /\ handler \in [Socket -> Command \cup {NoCommand}] /\ command_lock \in Seq(Socket)
      /\ sequences \in [Client -> Nat]
  BY DEF IInv, TypeOK
<1>4. /\ command_lock' \in Seq(Socket) /\ Len(command_lock') = Len(command_lock) + 1
      /\ command_lock' # <<>> /\ Len(command_lock) \in Nat
      /\ command_lock'[Len(command_lock) + 1] = s
      /\ \A i \in 1..Len(command_lock) : command_lock'[i] = command_lock[i]
  BY <1>1, <1>3, AppendFacts
<1>5. TypeOK'
  BY <1>1, <1>2, <1>3, <1>4 DEF IInv, TypeOK, transport, air
<1>6. \A d \in Command : sequences'[ClientOf[d]] >= sequences[ClientOf[d]]
  BY <1>1, <1>2, <1>3
<1>7. \A i \in 1..Len(command_lock) :
        Queued(i)' = Queued(i) /\ Queued(i) \in Command /\ Queued(i) # c
  <2>1. ASSUME NEW i \in 1..Len(command_lock)
        PROVE  Queued(i)' = Queued(i) /\ Queued(i) \in Command /\ Queued(i) # c
    <3>1. /\ Queued(i) \in Command
          /\ SequenceOf[Queued(i)] <= sequences[ClientOf[Queued(i)]]
      BY DEF IInv, LockOK
    <3>2. Queued(i) # c
      BY <1>1, <1>2, <1>3, <3>1
    <3>3. command_lock[i] # s /\ command_lock[i] \in Socket
      BY <1>1, <1>2, <1>3, <3>1 DEF Queued
    <3>4. QED
      BY <1>1, <1>3, <1>4, <3>1, <3>2, <3>3 DEF Queued
  <2>2. QED
    BY <2>1
<1>8. \A i \in Nat : i = Len(command_lock) + 1 => Queued(i)' = c
  BY <1>1, <1>3, <1>4 DEF Queued
<1>9. \A i \in 1..Len(command_lock') :
        i \in Nat /\ (i \in 1..Len(command_lock) \/ i = Len(command_lock) + 1)
  BY <1>4
<1>10. LockOK'
  <2>1. ASSUME NEW i \in 1..Len(command_lock')
        PROVE  /\ Queued(i)' \in Command
               /\ SequenceOf[Queued(i)'] <= sequences'[ClientOf[Queued(i)']]
               /\ result_cache'[Queued(i)'] \notin Final
    <3>1. CASE i \in 1..Len(command_lock)
      <4>1. /\ Queued(i) \in Command
            /\ SequenceOf[Queued(i)] <= sequences[ClientOf[Queued(i)]]
            /\ result_cache[Queued(i)] \notin Final
        BY <3>1 DEF IInv, LockOK
      <4>2. SequenceOf[Queued(i)] <= sequences'[ClientOf[Queued(i)]]
        <5>1. /\ SequenceOf[Queued(i)] \in Nat /\ sequences[ClientOf[Queued(i)]] \in Nat
              /\ sequences'[ClientOf[Queued(i)]] \in Nat
          BY <1>2, <1>3, <1>5, <4>1 DEF TypeOK
        <5>2. QED
          BY <1>6, <4>1, <5>1
      <4>3. QED
        BY <1>1, <1>7, <3>1, <4>1, <4>2
    <3>2. CASE i = Len(command_lock) + 1
      <4>1. sequences'[ClientOf[c]] = SequenceOf[c] /\ SequenceOf[c] <= SequenceOf[c]
        BY <1>1, <1>2, <1>3
      <4>2. Nothing \notin Final
        BY DEF Nothing, Final, MavResult
      <4>3. QED
        BY <1>1, <1>8, <1>9, <3>2, <4>1, <4>2
    <3>3. QED
      BY <1>9, <3>1, <3>2
  <2>2. ASSUME NEW i \in 1..Len(command_lock'), NEW j \in 1..Len(command_lock'), i # j
        PROVE  Queued(i)' # Queued(j)'
    <3>1. CASE i \in 1..Len(command_lock) /\ j \in 1..Len(command_lock)
      BY <1>7, <2>2, <3>1 DEF IInv, LockOK
    <3>2. CASE i = Len(command_lock) + 1 \/ j = Len(command_lock) + 1
      BY <1>4, <1>7, <1>8, <1>9, <2>2, <3>2
    <3>3. QED
      BY <1>9, <3>1, <3>2
  <2>3. QED
    BY <1>4, <2>1, <2>2 DEF LockOK, Queued
<1>11. turn[c] = 0
  <2>1. turn[c] # 0 => SequenceOf[c] <= sequences[ClientOf[c]]
    BY DEF IInv, TurnOK
  <2>2. SequenceOf[c] \in Nat /\ sequences[ClientOf[c]] \in Nat
    BY <1>2, <1>3
  <2>3. QED
    BY <1>1, <2>1, <2>2
<1>12. TurnOK'
  <2>1. turn' = turn /\ turns' = turns /\ transport_at' = transport_at
    BY <1>1 DEF transport
  <2>2. \A d \in Command : turn[d] # 0 => SequenceOf[d] <= sequences'[ClientOf[d]]
    <3>1. ASSUME NEW d \in Command, turn[d] # 0
          PROVE  SequenceOf[d] <= sequences'[ClientOf[d]]
      <4>1. SequenceOf[d] <= sequences[ClientOf[d]]
        BY <3>1 DEF IInv, TurnOK
      <4>2. /\ SequenceOf[d] \in Nat /\ sequences[ClientOf[d]] \in Nat
            /\ sequences'[ClientOf[d]] \in Nat
        BY <1>2, <1>3, <1>5 DEF TypeOK
      <4>3. QED
        BY <1>6, <4>1, <4>2
    <3>2. QED
      BY <3>1
  <2>3. ASSUME NEW i \in 1..Len(command_lock'), i # 1 \/ transport_at = "idle"
        PROVE  turn[Queued(i)'] = 0
    BY <1>7, <1>8, <1>9, <1>11, <2>3 DEF IInv, TurnOK
  <2>4. transport_at # "idle" => turn[Queued(1)'] = turns /\ turns # 0
    <3>1. transport_at # "idle" => 1 \in 1..Len(command_lock)
      BY <1>3, <1>4 DEF IInv, LockOK
    <3>2. QED
      BY <1>7, <3>1 DEF IInv, TurnOK
  <2>5. QED
    BY <2>1, <2>2, <2>3, <2>4 DEF IInv, TurnOK, Queued
<1>13. TimelyOK'
  <2>1. transport_at # "idle" => 1 \in 1..Len(command_lock)
    BY <1>3, <1>4 DEF IInv, LockOK
  <2>2. transport_at # "idle" => Queued(1)' = Queued(1)
    BY <1>7, <2>1
  <2>3. QED
    BY <1>1, <2>2 DEF IInv, TimelyOK, Queued, transport, air
<1>14. OrderOK' /\ ResultOK'
  BY <1>1 DEF IInv, OrderOK, ExecutedInOrder, Cached, ResultOK, air
<1>15. QED
  BY <1>5, <1>10, <1>12, <1>13, <1>14 DEF IInv

\* The connection at the head of the lock has a command in work.
LEMMA HeadFacts ==
  ASSUME IInv, command_lock # <<>>
  PROVE  /\ Len(command_lock) \in Nat /\ 1 \in 1..Len(command_lock)
         /\ Head(command_lock) = command_lock[1] /\ InWork = Queued(1)
         /\ InWork \in Command /\ Head(command_lock) \in Socket
         /\ \A i \in 1..Len(command_lock) : command_lock[i] \in Socket
<1>1. command_lock \in Seq(Socket)
  BY DEF IInv, TypeOK
<1>2. /\ Len(command_lock) \in Nat /\ 1 \in 1..Len(command_lock)
      /\ Head(command_lock) = command_lock[1] /\ Head(command_lock) \in Socket
      /\ \A i \in 1..Len(command_lock) : command_lock[i] \in Socket
  BY <1>1
<1>3. InWork = Queued(1)
  BY <1>2 DEF InWork, Queued
<1>4. Queued(1) \in Command
  BY <1>2 DEF IInv, LockOK
<1>5. QED
  BY <1>2, <1>3, <1>4

LEMMA FinishStep ==
  ASSUME IInv, Finish
  PROVE  IInv'
<1>1. /\ UNCHANGED <<sequences, attempt, verdict, downlink, uplink, air, turn, turns, timed_out>>
      /\ transport_at = "returned" /\ transport_at' = "idle"
      /\ result_cache' = [result_cache EXCEPT ![InWork] = verdict]
      /\ handler' = [handler EXCEPT ![Head(command_lock)] = NoCommand]
      /\ command_lock' = Tail(command_lock)
  BY DEF Finish, InWork
<1>2. command_lock # <<>>
  BY <1>1 DEF IInv, LockOK
<1>3. /\ Len(command_lock) \in Nat /\ 1 \in 1..Len(command_lock)
      /\ Head(command_lock) = command_lock[1] /\ InWork = Queued(1)
      /\ InWork \in Command /\ Head(command_lock) \in Socket
      /\ \A i \in 1..Len(command_lock) : command_lock[i] \in Socket
  BY <1>2, HeadFacts
<1>4. /\ handler \in [Socket -> Command \cup {NoCommand}] /\ command_lock \in Seq(Socket)
      /\ result_cache \in [Command -> Answer \cup {Nothing}]
      /\ verdict \in Final \cup {Nothing}
  BY DEF IInv, TypeOK
<1>5. /\ command_lock' \in Seq(Socket) /\ Len(command_lock') = Len(command_lock) - 1
      /\ \A i \in 1..Len(command_lock') :
           command_lock'[i] = command_lock[i + 1] /\ i + 1 \in 1..Len(command_lock)
  BY <1>1, <1>2, <1>4, TailFacts
<1>6. TypeOK'
  <2>1. Final \subseteq Answer
    BY DEF Answer
  <2>2. handler' \in [Socket -> Command \cup {NoCommand}]
    BY <1>1, <1>4
  <2>3. result_cache' \in [Command -> Answer \cup {Nothing}]
    BY <1>1, <1>4, <2>1
  <2>4. QED
    BY <1>1, <1>5, <2>2, <2>3 DEF IInv, TypeOK, air
<1>7. \A i \in 1..Len(command_lock') :
        /\ i \in Nat /\ i + 1 # 1 /\ i + 1 \in 1..Len(command_lock)
        /\ Queued(i)' = Queued(i + 1) /\ Queued(i + 1) # InWork
  <2>1. ASSUME NEW i \in 1..Len(command_lock')
        PROVE  /\ i \in Nat /\ i + 1 # 1 /\ i + 1 \in 1..Len(command_lock)
               /\ Queued(i)' = Queued(i + 1) /\ Queued(i + 1) # InWork
    <3>1. i \in Nat /\ i + 1 # 1 /\ i + 1 \in 1..Len(command_lock)
      BY <1>3, <1>5
    <3>2. Queued(i + 1) # Queued(1)
      BY <1>3, <3>1 DEF IInv, LockOK
    <3>3. command_lock[i + 1] # Head(command_lock)
      BY <1>3, <3>2 DEF Queued
    <3>4. handler'[command_lock[i + 1]] = handler[command_lock[i + 1]]
      BY <1>1, <1>3, <1>4, <3>1, <3>3
    <3>5. QED
      BY <1>3, <1>5, <3>1, <3>2, <3>4 DEF Queued
  <2>2. QED
    BY <2>1
<1>8. \A c \in Command : c # InWork => result_cache'[c] = result_cache[c]
  BY <1>1, <1>3, <1>4
<1>9. LockOK'
  <2>1. ASSUME NEW i \in 1..Len(command_lock')
        PROVE  /\ Queued(i)' \in Command
               /\ SequenceOf[Queued(i)'] <= sequences'[ClientOf[Queued(i)']]
               /\ result_cache'[Queued(i)'] \notin Final
    BY <1>1, <1>7, <1>8 DEF IInv, LockOK
  <2>2. ASSUME NEW i \in 1..Len(command_lock'), NEW j \in 1..Len(command_lock'), i # j
        PROVE  Queued(i)' # Queued(j)'
    <3>1. i + 1 # j + 1
      BY <1>7, <2>2
    <3>2. QED
      BY <1>7, <3>1 DEF IInv, LockOK
  <2>3. QED
    BY <1>1, <2>1, <2>2 DEF LockOK, Queued
<1>10. TurnOK'
  <2>1. ASSUME NEW i \in 1..Len(command_lock')
        PROVE  turn[Queued(i)'] = 0
    BY <1>7 DEF IInv, TurnOK
  <2>2. QED
    BY <1>1, <2>1 DEF IInv, TurnOK, Queued
<1>11. TimelyOK'
  <2>1. SUFFICES ASSUME ~timed_out PROVE TimelyOK'
    BY <1>1 DEF TimelyOK
  <2>2. downlink = <<>> /\ uplink = <<>>
    BY <1>1, <2>1 DEF IInv, TimelyOK
  <2>3. ASSUME NEW c \in Command, result_cache'[c] \in MavResult
        PROVE  result[c] = result_cache'[c]
    <3>1. CASE c = InWork
      <4>1. result_cache'[c] = verdict
        BY <1>1, <1>3, <1>4, <3>1
      <4>2. QED
        BY <1>1, <1>3, <2>1, <2>3, <3>1, <4>1 DEF IInv, TimelyOK
    <3>2. CASE c # InWork
      BY <1>8, <2>1, <2>3, <3>2 DEF IInv, TimelyOK
    <3>3. QED
      BY <3>1, <3>2
  <2>4. QED
    BY <1>1, <2>2, <2>3 DEF TimelyOK, air
<1>12. OrderOK' /\ ResultOK'
  BY <1>1 DEF IInv, OrderOK, ExecutedInOrder, Cached, ResultOK, air
<1>13. QED
  BY <1>6, <1>9, <1>10, <1>11, <1>12 DEF IInv

LEMMA BeginTurnStep ==
  ASSUME IInv, BeginTurn
  PROVE  IInv'
<1>1. /\ UNCHANGED <<gateway, verdict, downlink, air, timed_out>>
      /\ transport_at = "idle" /\ transport_at' = "send"
      /\ command_lock # <<>> /\ attempt' = 1
      /\ turns' = turns + 1 /\ turn' = [turn EXCEPT ![InWork] = turns + 1]
  BY DEF BeginTurn
<1>2. /\ Len(command_lock) \in Nat /\ 1 \in 1..Len(command_lock)
      /\ InWork = Queued(1) /\ InWork \in Command
  BY <1>1, HeadFacts
<1>3. turn \in [Command -> Nat] /\ turns \in Nat /\ uplink \in Seq(Ack)
  BY DEF IInv, TypeOK
<1>4. PICK n \in 0..Len(uplink) : uplink' = SubSeq(uplink, n + 1, Len(uplink))
  BY DEF BeginTurn
<1>5. /\ uplink' \in Seq(Ack) /\ Len(uplink') = Len(uplink) - n
      /\ \A i \in 1..(Len(uplink) - n) :
           i + n \in 1..Len(uplink) /\ uplink'[i] = uplink[i + n]
  BY <1>3, <1>4, DropFacts
<1>6. TypeOK'
  <2>1. 1 \in 0..MaxAttempts
    BY LinkAssumption
  <2>2. turns + 1 \in Nat
    BY <1>3
  <2>3. turn' \in [Command -> Nat] /\ turns' \in Nat
    BY <1>1, <1>3, <2>2
  <2>4. QED
    BY <1>1, <1>5, <2>1, <2>3 DEF IInv, TypeOK, gateway, air
<1>7. turn[InWork] = 0
  BY <1>1, <1>2 DEF IInv, TurnOK
<1>8. turn'[InWork] = turns + 1 /\ \A c \in Command : c # InWork => turn'[c] = turn[c]
  BY <1>1, <1>2, <1>3
<1>9. \A c \in Command : turn[c] # 0 => turn'[c] = turn[c]
  BY <1>7, <1>8
<1>10. LockOK'
  BY <1>1 DEF IInv, LockOK, Queued, gateway
<1>11. \A i : Queued(i)' = Queued(i)
  BY <1>1 DEF Queued, gateway
<1>12. TurnOK'
  <2>1. \A c \in Command : turn[c] <= turns /\ turn[c] \in Nat
    BY <1>3 DEF IInv, TurnOK
  <2>2. \A c \in Command : turn'[c] <= turns'
    BY <1>1, <1>3, <1>8, <2>1
  <2>3. ASSUME NEW c \in Command, NEW d \in Command, turn'[c] = turn'[d], turn'[c] # 0
        PROVE  c = d
    <3>1. turn[c] # turns + 1 /\ turn[d] # turns + 1
      BY <1>3, <2>1
    <3>2. QED
      BY <1>8, <2>3, <3>1 DEF IInv, TurnOK
  <2>4. ASSUME NEW c \in Command, turn'[c] # 0
        PROVE  SequenceOf[c] <= sequences[ClientOf[c]]
    <3>1. CASE c = InWork
      BY <1>2, <3>1 DEF IInv, LockOK
    <3>2. CASE c # InWork
      BY <1>8, <2>4, <3>2 DEF IInv, TurnOK
    <3>3. QED
      BY <3>1, <3>2
  <2>5. ASSUME NEW i \in 1..Len(command_lock), i # 1
        PROVE  turn'[Queued(i)] = 0
    <3>1. Queued(i) # InWork /\ Queued(i) \in Command
      BY <1>2, <2>5 DEF IInv, LockOK
    <3>2. QED
      BY <1>1, <1>8, <3>1 DEF IInv, TurnOK
  <2>6. turn'[Queued(1)] = turns' /\ turns' # 0
    BY <1>1, <1>2, <1>3, <1>8
  <2>7. QED
    BY <1>1, <1>11, <2>2, <2>3, <2>4, <2>5, <2>6 DEF TurnOK, gateway
<1>13. /\ downlink \in Seq(Command) /\ executed \in Seq(Command)
       /\ \A i \in 1..Len(downlink) : downlink[i] \in Command
       /\ \A i \in 1..Len(executed) : executed[i] \in Command
  BY DEF IInv, TypeOK
<1>14. /\ \A i \in 1..Len(downlink) : turn'[downlink[i]] = turn[downlink[i]]
       /\ \A i \in 1..Len(executed) : turn'[executed[i]] = turn[executed[i]]
  BY <1>9, <1>13 DEF IInv, OrderOK
<1>15. OrderOK'
  BY <1>1, <1>14, SMTT(30) DEF IInv, OrderOK, ExecutedInOrder, Cached, air
<1>16. ResultOK'
  <2>1. ASSUME NEW i \in 1..Len(uplink')
        PROVE  uplink'[i].result = result[uplink'[i].command]
    BY <1>5 DEF IInv, ResultOK
  <2>2. QED
    BY <1>1, <2>1 DEF IInv, ResultOK, air
<1>17. TimelyOK'
  <2>1. SUFFICES ASSUME ~timed_out PROVE TimelyOK'
    BY <1>1 DEF TimelyOK
  <2>2. downlink = <<>> /\ uplink = <<>>
    BY <1>1, <2>1 DEF IInv, TimelyOK
  <2>3. uplink' = <<>>
    <3>1. Len(uplink) = 0 /\ n = 0
      BY <2>2
    <3>2. QED
      BY <1>4, <2>2, <3>1
  <2>4. QED
    BY <1>1, <2>1, <2>2, <2>3 DEF IInv, TimelyOK, gateway, air
<1>18. QED
  BY <1>6, <1>10, <1>12, <1>15, <1>16, <1>17 DEF IInv

LEMMA SendStep ==
  ASSUME IInv, Send
  PROVE  IInv'
<1>1. /\ UNCHANGED <<gateway, attempt, verdict, uplink, air, turn, turns, timed_out>>
      /\ transport_at = "send" /\ transport_at' = "wait"
      /\ downlink' = Append(downlink, InWork)
  BY DEF Send
<1>2. command_lock # <<>>
  BY <1>1 DEF IInv, LockOK
<1>3. /\ Len(command_lock) \in Nat /\ 1 \in 1..Len(command_lock)
      /\ InWork = Queued(1) /\ InWork \in Command
  BY <1>2, HeadFacts
<1>4. /\ downlink \in Seq(Command) /\ executed \in Seq(Command)
      /\ turn \in [Command -> Nat] /\ turns \in Nat
      /\ \A i \in 1..Len(downlink) : downlink[i] \in Command
      /\ \A i \in 1..Len(executed) : executed[i] \in Command
  BY DEF IInv, TypeOK
<1>5. /\ downlink' \in Seq(Command) /\ Len(downlink') = Len(downlink) + 1
      /\ Len(downlink) \in Nat /\ downlink'[Len(downlink) + 1] = InWork
      /\ \A i \in 1..Len(downlink) : downlink'[i] = downlink[i]
  BY <1>1, <1>3, <1>4, AppendFacts
<1>6. TypeOK'
  BY <1>1, <1>5 DEF IInv, TypeOK, gateway, air
<1>7. LockOK' /\ TurnOK' /\ ResultOK'
  BY <1>1, <1>2 DEF IInv, LockOK, TurnOK, ResultOK, Queued, gateway, air
<1>8. turn[InWork] = turns /\ turns # 0 /\ \A c \in Command : turn[c] <= turn[InWork]
  BY <1>1, <1>3 DEF IInv, TurnOK
<1>9. \A i \in 1..Len(downlink') :
        \/ i \in 1..Len(downlink) /\ downlink'[i] = downlink[i] /\ downlink[i] \in Command
        \/ i = Len(downlink) + 1 /\ downlink'[i] = InWork
  BY <1>4, <1>5
<1>10. OrderOK'
  <2>1. ASSUME NEW i \in 1..Len(downlink')
        PROVE  turn[downlink'[i]] # 0
    BY <1>8, <1>9 DEF IInv, OrderOK
  <2>2. ASSUME NEW i \in 1..Len(downlink'), NEW j \in 1..Len(downlink'), i <= j
        PROVE  turn[downlink'[i]] <= turn[downlink'[j]]
    <3>1. downlink'[i] \in Command
      BY <1>3, <1>9
    <3>2. CASE downlink'[j] = InWork
      BY <1>8, <3>1, <3>2
    <3>3. CASE j \in 1..Len(downlink)
      <4>1. i \in 1..Len(downlink)
        BY <1>5, <2>2, <3>3
      <4>2. QED
        BY <1>5, <2>2, <3>3, <4>1 DEF IInv, OrderOK
    <3>4. QED
      BY <1>9, <3>2, <3>3
  <2>3. ASSUME NEW i \in 1..Len(executed), NEW j \in 1..Len(downlink')
        PROVE  turn[executed[i]] <= turn[downlink'[j]]
    <3>1. executed[i] \in Command
      BY <1>4
    <3>2. CASE downlink'[j] = InWork
      BY <1>8, <3>1, <3>2
    <3>3. CASE j \in 1..Len(downlink)
      BY <1>5, <3>3 DEF IInv, OrderOK
    <3>4. QED
      BY <1>9, <3>2, <3>3
  <2>4. QED
    BY <1>1, <2>1, <2>2, <2>3 DEF IInv, OrderOK, ExecutedInOrder, Cached, air
<1>11. TimelyOK'
  <2>1. SUFFICES ASSUME ~timed_out PROVE TimelyOK'
    BY <1>1 DEF TimelyOK
  <2>2. downlink = <<>> /\ uplink = <<>>
    BY <1>1, <2>1 DEF IInv, TimelyOK
  <2>3. Len(downlink) = 0 /\ Len(uplink) = 0 /\ Len(downlink') = 1 /\ downlink'[1] = InWork
    BY <1>5, <2>2
  <2>4. Len(downlink') + Len(uplink') <= 1
    BY <1>1, <2>3
  <2>5. \A i \in 1..Len(downlink') : downlink'[i] = InWork
    BY <2>3
  <2>6. \A i \in 1..Len(uplink') : uplink'[i].command = InWork
    BY <1>1, <2>3
  <2>7. \A c \in Command : result_cache[c] \in MavResult => result[c] = result_cache[c]
    BY <2>1 DEF IInv, TimelyOK
  <2>8. QED
    BY <1>1, <1>3, <2>4, <2>5, <2>6, <2>7 DEF TimelyOK, Queued, gateway, air
<1>12. QED
  BY <1>6, <1>7, <1>10, <1>11 DEF IInv

\* The transport gives up, goes on to another attempt, or reads an acknowledgement: the
\* air side and what is on its way to it are as before.
LEMMA TransportKeepsOrder ==
  ASSUME IInv, UNCHANGED <<gateway, downlink, air, turn, turns>>,
         transport_at # "idle", transport_at' # "idle"
  PROVE  LockOK' /\ TurnOK' /\ OrderOK'
<1>1. UNCHANGED <<handler, command_lock, sequences, result_cache, downlink, cache,
                  next_cache_index, executed, result, turn, turns>>
  BY DEF gateway, air
<1>2. LockOK'
  BY <1>1 DEF IInv, LockOK, Queued
<1>3. TurnOK'
  BY <1>1 DEF IInv, TurnOK, Queued
<1>4. OrderOK'
  BY <1>1 DEF IInv, OrderOK, ExecutedInOrder, Cached
<1>5. QED
  BY <1>2, <1>3, <1>4

LEMMA SendFailsStep ==
  ASSUME IInv, SendFails
  PROVE  IInv'
<1>1. /\ UNCHANGED <<gateway, attempt, downlink, uplink, air, turn, turns, timed_out>>
      /\ transport_at = "send" /\ transport_at' = "returned" /\ verdict' = "gateway_error"
  BY DEF SendFails
<1>2. TypeOK'
  BY <1>1 DEF IInv, TypeOK, Final, gateway, air
<1>3. LockOK' /\ TurnOK' /\ OrderOK'
  BY <1>1, TransportKeepsOrder
<1>4. TimelyOK'
  BY <1>1 DEF IInv, TimelyOK, Queued, MavResult, gateway, air
<1>5. QED
  BY <1>1, <1>2, <1>3, <1>4 DEF IInv, ResultOK, air

LEMMA ReceiveAckStep ==
  ASSUME IInv, ReceiveAck
  PROVE  IInv'
<1>1. /\ UNCHANGED <<gateway, attempt, downlink, air, turn, turns, timed_out>>
      /\ transport_at = "wait" /\ transport_at' = "returned"
      /\ uplink # <<>> /\ verdict' = Head(uplink).result /\ uplink' = Tail(uplink)
  BY DEF ReceiveAck
<1>2. uplink \in Seq(Ack) /\ downlink \in Seq(Command)
  BY DEF IInv, TypeOK
<1>3. /\ Len(uplink) \in Nat /\ Len(uplink) >= 1 /\ Head(uplink) = uplink[1]
      /\ Head(uplink) \in Ack
      /\ uplink' \in Seq(Ack) /\ Len(uplink') = Len(uplink) - 1
      /\ \A i \in 1..Len(uplink') : uplink'[i] = uplink[i + 1] /\ i + 1 \in 1..Len(uplink)
  BY <1>1, <1>2, TailFacts
<1>4. TypeOK'
  BY <1>1, <1>3 DEF IInv, TypeOK, Final, Ack, gateway, air
<1>5. LockOK' /\ TurnOK' /\ OrderOK'
  BY <1>1, TransportKeepsOrder
<1>6. ResultOK'
  <2>1. ASSUME NEW i \in 1..Len(uplink')
        PROVE  uplink'[i].result = result[uplink'[i].command]
    BY <1>3 DEF IInv, ResultOK
  <2>2. QED
    BY <1>1, <2>1 DEF IInv, ResultOK, air
<1>7. TimelyOK'
  <2>1. SUFFICES ASSUME ~timed_out PROVE TimelyOK'
    BY <1>1 DEF TimelyOK
  <2>2. /\ Len(downlink) + Len(uplink) <= 1
        /\ \A i \in 1..Len(uplink) : uplink[i].command = Queued(1)
        /\ \A c \in Command : result_cache[c] \in MavResult => result[c] = result_cache[c]
    BY <1>1, <2>1 DEF IInv, TimelyOK
  <2>3. Len(downlink) \in Nat /\ Len(downlink') = 0 /\ Len(uplink') = 0
    BY <1>1, <1>2, <1>3, <2>2
  <2>4. downlink' = <<>> /\ uplink' = <<>>
    BY <1>1, <1>2, <1>3, <2>3
  <2>5. verdict' = result[Queued(1)]
    <3>1. 1 \in 1..Len(uplink)
      BY <1>3
    <3>2. QED
      BY <1>1, <1>3, <2>2, <3>1 DEF IInv, ResultOK
  <2>6. QED
    BY <1>1, <2>2, <2>4, <2>5 DEF TimelyOK, Queued, gateway, air
<1>8. QED
  BY <1>4, <1>5, <1>6, <1>7 DEF IInv

LEMMA AckTimeoutStep ==
  ASSUME IInv, AckTimeout
  PROVE  IInv'
<1>1. /\ UNCHANGED <<gateway, downlink, uplink, air, turn, turns>>
      /\ transport_at = "wait" /\ timed_out' = TRUE
      /\ \/ attempt < MaxAttempts /\ attempt' = attempt + 1 /\ transport_at' = "send"
            /\ verdict' = verdict
         \/ attempt' = attempt /\ transport_at' = "returned" /\ verdict' = "ack_timeout"
  BY DEF AckTimeout
<1>2. attempt' \in 0..MaxAttempts
  <2>1. attempt \in 0..MaxAttempts /\ MaxAttempts \in Nat
    BY LinkAssumption DEF IInv, TypeOK
  <2>2. QED
    BY <1>1, <2>1
<1>3. TypeOK'
  BY <1>1, <1>2 DEF IInv, TypeOK, Final, gateway, air
<1>4. LockOK' /\ TurnOK' /\ OrderOK'
  BY <1>1, TransportKeepsOrder
<1>5. TimelyOK'
  BY <1>1 DEF TimelyOK
<1>6. QED
  BY <1>1, <1>3, <1>4, <1>5 DEF IInv, ResultOK, air

\* Messages that leave the link in order do not disturb the order of the others.
LEMMA AirDuplicateStep ==
  ASSUME IInv, AirDuplicate
  PROVE  IInv'
<1>1. /\ UNCHANGED <<gateway, transport, air, turn, turns, timed_out>>
      /\ downlink # <<>> /\ downlink' = Tail(downlink)
  BY DEF AirDuplicate
<1>2. PICK k \in Slot : /\ cache[k] # Free /\ cache[k].command = Head(downlink)
                        /\ uplink' = Append(uplink, cache[k])
  BY DEF AirDuplicate, Cached
<1>3. /\ uplink \in Seq(Ack) /\ downlink \in Seq(Command) /\ cache \in [Slot -> Ack \cup {Free}]
  BY DEF IInv, TypeOK
<1>4. cache[k] \in Ack
  BY <1>2, <1>3
<1>5. /\ uplink' \in Seq(Ack) /\ Len(uplink') = Len(uplink) + 1 /\ Len(uplink) \in Nat
      /\ uplink'[Len(uplink) + 1] = cache[k]
      /\ \A i \in 1..Len(uplink) : uplink'[i] = uplink[i]
  BY <1>2, <1>3, <1>4, AppendFacts
<1>6. /\ Len(downlink) \in Nat /\ Len(downlink) >= 1 /\ Head(downlink) = downlink[1]
      /\ downlink' \in Seq(Command) /\ Len(downlink') = Len(downlink) - 1
      /\ \A i \in 1..Len(downlink') :
           downlink'[i] = downlink[i + 1] /\ i + 1 \in 1..Len(downlink)
  BY <1>1, <1>3, TailFacts
<1>7. TypeOK'
  BY <1>1, <1>5, <1>6 DEF IInv, TypeOK, gateway, transport, air
<1>8. LockOK' /\ TurnOK'
  BY <1>1 DEF IInv, LockOK, TurnOK, Queued, gateway, transport
<1>9. OrderOK'
  <2>1. ASSUME NEW i \in 1..Len(downlink'), NEW j \in 1..Len(downlink'), i <= j
        PROVE  turn[downlink'[i]] <= turn[downlink'[j]]
    <3>1. i + 1 <= j + 1
      BY <1>6, <2>1
    <3>2. QED
      BY <1>6, <3>1 DEF IInv, OrderOK
  <2>2. QED
    BY <1>1, <1>6, <2>1 DEF IInv, OrderOK, ExecutedInOrder, Cached, air
<1>10. ResultOK'
  <2>1. ASSUME NEW i \in 1..Len(uplink')
        PROVE  uplink'[i].result = result[uplink'[i].command]
    <3>1. CASE i \in 1..Len(uplink)
      BY <1>5, <3>1 DEF IInv, ResultOK
    <3>2. CASE i = Len(uplink) + 1
      BY <1>2, <1>5, <3>2 DEF IInv, ResultOK
    <3>3. QED
      BY <1>5, <3>1, <3>2
  <2>2. QED
    BY <1>1, <2>1 DEF IInv, ResultOK, air
<1>11. TimelyOK'
  <2>1. SUFFICES ASSUME ~timed_out PROVE TimelyOK'
    BY <1>1 DEF TimelyOK
  <2>2. transport_at = "wait"
    BY <1>1, <2>1 DEF IInv, TimelyOK
  <2>3. /\ Len(downlink) + Len(uplink) <= 1
        /\ \A i \in 1..Len(downlink) : downlink[i] = Queued(1)
    BY <2>1, <2>2 DEF IInv, TimelyOK
  <2>4. Len(uplink) = 0 /\ Len(downlink') = 0 /\ Len(uplink') = 1
    BY <1>5, <1>6, <2>3
  <2>5. downlink[1] = Queued(1)
    BY <1>6, <2>3
  <2>6. uplink'[1].command = Queued(1)
    BY <1>2, <1>5, <1>6, <2>4, <2>5
  <2>7. /\ Len(downlink') + Len(uplink') <= 1
        /\ \A i \in 1..Len(downlink') : downlink'[i] = Queued(1)
        /\ \A i \in 1..Len(uplink') : uplink'[i].command = Queued(1)
    BY <2>4, <2>6
  <2>8. \A c \in Command : result_cache[c] \in MavResult => result[c] = result_cache[c]
    BY <2>1 DEF IInv, TimelyOK
  <2>9. QED
    BY <1>1, <2>2, <2>7, <2>8 DEF TimelyOK, Queued, gateway, transport, air
<1>12. QED
  BY <1>7, <1>8, <1>9, <1>10, <1>11 DEF IInv

LEMMA AirExecutesStep ==
  ASSUME IInv, AirExecutes
  PROVE  IInv'
<1> DEFINE c == Head(downlink)
<1>1. /\ UNCHANGED <<gateway, transport, turn, turns, timed_out>>
      /\ downlink # <<>> /\ downlink' = Tail(downlink) /\ Cached(c) = {}
      /\ executed' = Append(executed, c)
  BY DEF AirExecutes
<1>2. PICK r \in MavResult :
        /\ result' = [result EXCEPT ![c] = r]
        /\ cache' = [cache EXCEPT ![next_cache_index] = [command |-> c, result |-> r]]
        /\ next_cache_index' = (next_cache_index + 1) % CacheSize
        /\ uplink' = Append(uplink, [command |-> c, result |-> r])
  BY DEF AirExecutes, CacheResult, NextIndex, AckedResult
<1>3. /\ uplink \in Seq(Ack) /\ downlink \in Seq(Command) /\ executed \in Seq(Command)
      /\ cache \in [Slot -> Ack \cup {Free}] /\ next_cache_index \in Slot
      /\ result \in [Command -> MavResult \cup {Nothing}]
      /\ turn \in [Command -> Nat]
      /\ \A i \in 1..Len(executed) : executed[i] \in Command
  BY DEF IInv, TypeOK
<1>4. /\ Len(downlink) \in Nat /\ Len(downlink) >= 1 /\ c = downlink[1] /\ c \in Command
      /\ downlink' \in Seq(Command) /\ Len(downlink') = Len(downlink) - 1
      /\ \A i \in 1..Len(downlink') :
           downlink'[i] = downlink[i + 1] /\ i + 1 \in 1..Len(downlink)
  BY <1>1, <1>3, TailFacts
<1> HIDE DEF c
<1>5. PICK a : a = [command |-> c, result |-> r]
  OBVIOUS
<1>6. a \in Ack /\ a.command = c /\ a.result = r /\ a # Free
  BY <1>4, <1>5, LinkAssumption DEF Ack, MavResult
<1>7. /\ uplink' \in Seq(Ack) /\ Len(uplink') = Len(uplink) + 1 /\ Len(uplink) \in Nat
      /\ uplink'[Len(uplink) + 1] = a
      /\ \A i \in 1..Len(uplink) : uplink'[i] = uplink[i]
  BY <1>2, <1>3, <1>5, <1>6, AppendFacts
<1>8. /\ executed' \in Seq(Command) /\ Len(executed') = Len(executed) + 1
      /\ Len(executed) \in Nat /\ executed' # <<>>
      /\ executed'[Len(executed) + 1] = c
      /\ \A i \in 1..Len(executed) : executed'[i] = executed[i]
  <2>1. executed \in Seq(Command) /\ c \in Command /\ executed' = Append(executed, c)
    BY <1>1, <1>3, <1>4
  <2>2. QED
    BY <2>1, AppendFacts
<1>9. /\ cache' \in [Slot -> Ack \cup {Free}]
      /\ cache'[next_cache_index] = a
      /\ \A i \in Slot : i # next_cache_index => cache'[i] = cache[i]
  BY <1>2, <1>3, <1>5, <1>6
<1>10. next_cache_index' \in Slot
  BY <1>2, <1>3, LinkAssumption DEF Slot
<1>11. /\ result' \in [Command -> MavResult \cup {Nothing}]
       /\ result'[c] = r
       /\ \A d \in Command : d # c => result'[d] = result[d]
  BY <1>2, <1>3, <1>4
<1>12. TypeOK'
  BY <1>1, <1>4, <1>7, <1>8, <1>9, <1>10, <1>11 DEF IInv, TypeOK, gateway, transport
<1>13. LockOK' /\ TurnOK'
  BY <1>1 DEF IInv, LockOK, TurnOK, Queued, gateway, transport
\* The command is above everything that was executed, so it was not executed before.
<1>14. \A i \in 1..Len(executed) : turn[executed[i]] < turn[c]
  <2>1. SUFFICES ASSUME NEW i \in 1..Len(executed) PROVE turn[executed[i]] < turn[c]
    OBVIOUS
  <2>2. PICK n : n = Len(executed) /\ n \in 1..Len(executed) /\ i <= n
    BY <1>8
  <2>3. executed[n] # c
    <3>1. PICK k \in Slot : cache[k] # Free /\ cache[k].command = executed[n]
      <4>1. executed # <<>>
        BY <1>3, <2>2
      <4>2. QED
        BY <2>2, <4>1 DEF IInv, OrderOK, Cached
    <3>2. QED
      BY <1>1, <3>1 DEF Cached
  <2>4. turn[executed[n]] <= turn[c]
    BY <1>4, <2>2 DEF IInv, OrderOK
  <2>5. turn[executed[n]] # turn[c]
    <3>1. turn[executed[n]] # 0 /\ executed[n] \in Command
      BY <1>3, <2>2 DEF IInv, OrderOK
    <3>2. QED
      BY <1>4, <2>3, <3>1 DEF IInv, TurnOK
  <2>6. i = n \/ turn[executed[i]] < turn[executed[n]]
    <3>1. i = n \/ i < n
      BY <2>2
    <3>2. QED
      BY <2>2, <3>1 DEF IInv, OrderOK, ExecutedInOrder
  <2>7. turn[executed[i]] \in Nat /\ turn[executed[n]] \in Nat /\ turn[c] \in Nat
    BY <1>3, <1>4, <2>2
  <2>8. QED
    BY <2>4, <2>5, <2>6, <2>7
<1>15. \A i \in 1..Len(executed') :
         i \in 1..Len(executed) \/ i = Len(executed) + 1
  BY <1>8
<1>16. OrderOK'
  <2>1. ASSUME NEW i \in 1..Len(executed'), NEW j \in 1..Len(executed'), i < j
        PROVE  turn[executed'[i]] < turn[executed'[j]]
    <3>1. CASE j \in 1..Len(executed)
      <4>1. i \in 1..Len(executed)
        BY <1>8, <2>1, <3>1
      <4>2. QED
        BY <1>8, <2>1, <3>1, <4>1 DEF IInv, OrderOK, ExecutedInOrder
    <3>2. CASE j = Len(executed) + 1
      <4>1. i \in 1..Len(executed)
        BY <1>8, <2>1, <3>2
      <4>2. QED
        BY <1>8, <1>14, <3>2, <4>1
    <3>3. QED
      BY <1>15, <3>1, <3>2
  <2>2. ASSUME NEW i \in 1..Len(downlink'), NEW j \in 1..Len(downlink'), i <= j
        PROVE  turn[downlink'[i]] <= turn[downlink'[j]]
    <3>1. i + 1 <= j + 1
      BY <1>4, <2>2
    <3>2. QED
      BY <1>4, <3>1 DEF IInv, OrderOK
  <2>3. ASSUME NEW i \in 1..Len(executed'), NEW j \in 1..Len(downlink')
        PROVE  turn[executed'[i]] <= turn[downlink'[j]]
    <3>1. CASE i \in 1..Len(executed)
      BY <1>4, <1>8, <3>1 DEF IInv, OrderOK
    <3>2. CASE i = Len(executed) + 1
      <4>1. 1 \in 1..Len(downlink) /\ 1 <= j + 1
        BY <1>4
      <4>2. QED
        BY <1>4, <1>8, <3>2, <4>1 DEF IInv, OrderOK
    <3>3. QED
      BY <1>15, <3>1, <3>2
  <2>4. turn[c] # 0
    BY <1>4 DEF IInv, OrderOK
  <2>5. ASSUME NEW i \in 1..Len(executed')
        PROVE  turn[executed'[i]] # 0
    BY <1>8, <1>15, <2>4 DEF IInv, OrderOK
  <2>6. ASSUME NEW i \in 1..Len(downlink')
        PROVE  turn[downlink'[i]] # 0
    BY <1>4 DEF IInv, OrderOK
  <2>7. \E k \in Slot : cache'[k] # Free /\ cache'[k].command = executed'[Len(executed')]
    BY <1>3, <1>6, <1>8, <1>9
  <2>8. QED
    BY <1>1, <2>1, <2>2, <2>3, <2>5, <2>6, <2>7 DEF OrderOK, ExecutedInOrder, Cached
<1>17. result[c] = Nothing
  <2>1. turn[c] \in Nat
    BY <1>3, <1>4
  <2>2. \A i \in 1..Len(executed) : executed[i] # c
    BY <1>14, <2>1
  <2>3. QED
    BY <1>4, <2>2 DEF IInv, ResultOK
<1>18. Nothing \notin MavResult
  BY DEF Nothing, MavResult
\* So no entry of the ring and no acknowledgement is about it.
<1>19. \A d \in Command : result[d] \in MavResult => d # c /\ result'[d] = result[d]
  BY <1>11, <1>17, <1>18
<1>20. \A b \in Ack : b.result = result[b.command] => b.result = result'[b.command]
  BY <1>19 DEF Ack
<1>21. ResultOK'
  <2>1. ASSUME NEW d \in Command, result'[d] # Nothing
        PROVE  \E i \in 1..Len(executed') : executed'[i] = d
    <3>1. CASE d = c
      BY <1>8, <3>1
    <3>2. CASE d # c
      <4>1. PICK i \in 1..Len(executed) : executed[i] = d
        BY <1>11, <2>1, <3>2 DEF IInv, ResultOK
      <4>2. i \in 1..Len(executed')
        BY <1>8
      <4>3. QED
        BY <1>8, <4>1, <4>2
    <3>3. QED
      BY <3>1, <3>2
  <2>2. ASSUME NEW i \in Slot, cache'[i] # Free
        PROVE  cache'[i].result = result'[cache'[i].command]
    <3>1. CASE i = next_cache_index
      BY <1>6, <1>9, <1>11, <3>1
    <3>2. CASE i # next_cache_index
      <4>1. cache'[i] = cache[i] /\ cache[i] \in Ack
        BY <1>3, <1>9, <2>2, <3>2
      <4>2. QED
        BY <1>20, <2>2, <4>1 DEF IInv, ResultOK
    <3>3. QED
      BY <3>1, <3>2
  <2>3. ASSUME NEW i \in 1..Len(uplink')
        PROVE  uplink'[i].result = result'[uplink'[i].command]
    <3>1. CASE i \in 1..Len(uplink)
      <4>1. uplink'[i] = uplink[i] /\ uplink[i] \in Ack
        BY <1>3, <1>7, <3>1
      <4>2. QED
        BY <1>20, <3>1, <4>1 DEF IInv, ResultOK
    <3>2. CASE i = Len(uplink) + 1
      BY <1>6, <1>7, <1>11, <3>2
    <3>3. QED
      BY <1>7, <3>1, <3>2
  <2>4. QED
    BY <2>1, <2>2, <2>3 DEF ResultOK
<1>22. TimelyOK'
  <2>1. SUFFICES ASSUME ~timed_out PROVE TimelyOK'
    BY <1>1 DEF TimelyOK
  <2>2. transport_at = "wait"
    BY <1>1, <2>1 DEF IInv, TimelyOK
  <2>3. /\ Len(downlink) + Len(uplink) <= 1
        /\ \A i \in 1..Len(downlink) : downlink[i] = Queued(1)
    BY <2>1, <2>2 DEF IInv, TimelyOK
  <2>4. Len(uplink) = 0 /\ Len(downlink') = 0 /\ Len(uplink') = 1
    BY <1>4, <1>7, <2>3
  <2>5. c = Queued(1)
    BY <1>4, <2>3
  <2>6. uplink'[1].command = Queued(1)
    BY <1>6, <1>7, <2>4, <2>5
  <2>7. /\ Len(downlink') + Len(uplink') <= 1
        /\ \A i \in 1..Len(downlink') : downlink'[i] = Queued(1)
        /\ \A i \in 1..Len(uplink') : uplink'[i].command = Queued(1)
    BY <2>4, <2>6
  <2>8. \A d \in Command : result_cache[d] \in MavResult => result'[d] = result_cache[d]
    BY <1>19, <2>1 DEF IInv, TimelyOK
  <2>9. QED
    BY <1>1, <2>2, <2>7, <2>8 DEF TimelyOK, Queued, gateway, transport
<1>23. QED
  BY <1>12, <1>13, <1>16, <1>21, <1>22 DEF IInv

LEMMA LoseCommandStep ==
  ASSUME IInv, LoseCommand
  PROVE  IInv'
<1>1. UNCHANGED <<gateway, transport, uplink, air, turn, turns, timed_out>>
  BY DEF LoseCommand
<1>2. PICK n \in 1..Len(downlink) : downlink' = Without(downlink, n)
  BY DEF LoseCommand
<1>3. downlink \in Seq(Command) /\ Len(downlink) \in Nat /\ n \in Nat /\ Len(uplink) \in Nat
  BY DEF IInv, TypeOK
<1>4. /\ downlink' \in Seq(Command) /\ Len(downlink') = Len(downlink) - 1
      /\ \A k \in 1..Len(downlink') :
           /\ k < n => downlink'[k] = downlink[k] /\ k \in 1..Len(downlink)
           /\ k >= n => downlink'[k] = downlink[k + 1] /\ k + 1 \in 1..Len(downlink)
  <2>1. downlink \in Seq(Command) /\ n \in 1..Len(downlink)
    BY <1>3
  <2>2. PICK w : w = Without(downlink, n)
    OBVIOUS
  <2>3. /\ w \in Seq(Command) /\ Len(w) = Len(downlink) - 1
        /\ \A k \in 1..(Len(downlink) - 1) :
             /\ k < n => w[k] = downlink[k] /\ k \in 1..Len(downlink)
             /\ k >= n => w[k] = downlink[k + 1] /\ k + 1 \in 1..Len(downlink)
    BY ONLY <2>1, <2>2, WithoutFacts
  <2>4. QED
    BY ONLY <1>2, <2>2, <2>3
\* Where an element was before.
<1>5. PICK was : was = [k \in 1..Len(downlink') |-> IF k < n THEN k ELSE k + 1]
  OBVIOUS
<1>6. \A k \in 1..Len(downlink') :
        was[k] \in 1..Len(downlink) /\ downlink'[k] = downlink[was[k]]
  BY <1>3, <1>4, <1>5
<1>7. \A i, j \in 1..Len(downlink') : i <= j => was[i] <= was[j]
  BY <1>3, <1>4, <1>5
<1>8. TypeOK'
  BY <1>1, <1>4 DEF IInv, TypeOK, gateway, transport, air
<1>9. LockOK' /\ TurnOK' /\ ResultOK'
  BY <1>1 DEF IInv, LockOK, TurnOK, ResultOK, Queued, gateway, transport, air
<1>10. OrderOK'
  <2>1. UNCHANGED <<turn, executed, cache>>
    BY <1>1 DEF air
  <2>2. \A i \in 1..Len(downlink') : turn'[downlink'[i]] # 0
    BY <1>6, <2>1 DEF IInv, OrderOK
  <2>3. \A i, j \in 1..Len(downlink') :
          i <= j => turn'[downlink'[i]] <= turn'[downlink'[j]]
    BY <1>6, <1>7, <2>1 DEF IInv, OrderOK
  <2>4. \A i \in 1..Len(executed), j \in 1..Len(downlink') :
          turn'[executed[i]] <= turn'[downlink'[j]]
    BY <1>6, <2>1 DEF IInv, OrderOK
  <2>5. QED
    BY <2>1, <2>2, <2>3, <2>4 DEF IInv, OrderOK, ExecutedInOrder, Cached
<1>11. TimelyOK'
  <2>1. SUFFICES ASSUME ~timed_out PROVE TimelyOK'
    BY <1>1 DEF TimelyOK
  <2>2. downlink # <<>>
    BY <1>3
  <2>3. transport_at = "wait"
    BY <2>1, <2>2 DEF IInv, TimelyOK
  <2>4. /\ Len(downlink) + Len(uplink) <= 1
        /\ \A i \in 1..Len(uplink) : uplink[i].command = Queued(1)
        /\ \A c \in Command : result_cache[c] \in MavResult => result[c] = result_cache[c]
    BY <2>1, <2>3 DEF IInv, TimelyOK
  <2>5. Len(downlink') = 0 /\ Len(downlink') + Len(uplink) <= 1
    BY <1>3, <1>4, <2>4
  <2>6. \A i \in 1..Len(downlink') : downlink'[i] = Queued(1)
    BY <2>5
  <2>7. QED
    BY <1>1, <2>3, <2>4, <2>5, <2>6 DEF TimelyOK, Queued, gateway, transport, air
<1>12. QED
  BY <1>8, <1>9, <1>10, <1>11 DEF IInv

LEMMA LoseAckStep ==
  ASSUME IInv, LoseAck
  PROVE  IInv'
<1>1. UNCHANGED <<gateway, transport, downlink, air, turn, turns, timed_out>>
  BY DEF LoseAck
<1>2. PICK n \in 1..Len(uplink) : uplink' = Without(uplink, n)
  BY DEF LoseAck
<1>3. uplink \in Seq(Ack) /\ Len(uplink) \in Nat /\ n \in Nat /\ Len(downlink) \in Nat
  BY DEF IInv, TypeOK
<1>4. /\ uplink' \in Seq(Ack) /\ Len(uplink') = Len(uplink) - 1
      /\ \A k \in 1..Len(uplink') :
           /\ k < n => uplink'[k] = uplink[k] /\ k \in 1..Len(uplink)
           /\ k >= n => uplink'[k] = uplink[k + 1] /\ k + 1 \in 1..Len(uplink)
  <2>1. uplink \in Seq(Ack) /\ n \in 1..Len(uplink)
    BY <1>3
  <2>2. PICK w : w = Without(uplink, n)
    OBVIOUS
  <2>3. /\ w \in Seq(Ack) /\ Len(w) = Len(uplink) - 1
        /\ \A k \in 1..(Len(uplink) - 1) :
             /\ k < n => w[k] = uplink[k] /\ k \in 1..Len(uplink)
             /\ k >= n => w[k] = uplink[k + 1] /\ k + 1 \in 1..Len(uplink)
    BY ONLY <2>1, <2>2, WithoutFacts
  <2>4. QED
    BY ONLY <1>2, <2>2, <2>3
<1>5. \A k \in 1..Len(uplink') : \E m \in 1..Len(uplink) : uplink'[k] = uplink[m]
  BY <1>3, <1>4
<1>6. TypeOK'
  BY <1>1, <1>4 DEF IInv, TypeOK, gateway, transport, air
<1>7. LockOK' /\ TurnOK' /\ OrderOK'
  BY <1>1 DEF IInv, LockOK, TurnOK, OrderOK, ExecutedInOrder, Cached, Queued, gateway,
              transport, air
<1>8. ResultOK'
  <2>1. UNCHANGED <<executed, result, cache>>
    BY <1>1 DEF air
  <2>2. \A k \in 1..Len(uplink') : uplink'[k].result = result'[uplink'[k].command]
    BY <1>5, <2>1 DEF IInv, ResultOK
  <2>3. QED
    BY <2>1, <2>2 DEF IInv, ResultOK
<1>9. TimelyOK'
  <2>1. SUFFICES ASSUME ~timed_out PROVE TimelyOK'
    BY <1>1 DEF TimelyOK
  <2>2. uplink # <<>>
    BY <1>3
  <2>3. transport_at = "wait"
    BY <2>1, <2>2 DEF IInv, TimelyOK
  <2>4. /\ Len(downlink) + Len(uplink) <= 1
        /\ \A i \in 1..Len(downlink) : downlink[i] = Queued(1)
        /\ \A c \in Command : result_cache[c] \in MavResult => result[c] = result_cache[c]
    BY <2>1, <2>3 DEF IInv, TimelyOK
  <2>5. Len(uplink') = 0 /\ Len(downlink) + Len(uplink') <= 1
    BY <1>3, <1>4, <2>4
  <2>6. \A i \in 1..Len(uplink') : uplink'[i].command = Queued(1)
    BY <2>5
  <2>7. QED
    BY <1>1, <2>3, <2>4, <2>5, <2>6 DEF TimelyOK, Queued, gateway, transport, air
<1>10. QED
  BY <1>6, <1>7, <1>8, <1>9 DEF IInv

LEMMA StutterStep ==
  ASSUME IInv, UNCHANGED vars
  PROVE  IInv'
BY DEF IInv, TypeOK, LockOK, TurnOK, OrderOK, ExecutedInOrder, Cached, ResultOK, TimelyOK,
       Queued, vars, gateway, transport, air

LEMMA NextIInv == IInv /\ [Next]_vars => IInv'
<1> SUFFICES ASSUME IInv, [Next]_vars PROVE IInv'
  OBVIOUS
<1>1. ASSUME NEW s \in Socket, NEW c \in Command,
             KnownCommand(s, c) \/ ReplayedCommand(s, c) \/ NewCommand(s, c)
      PROVE  IInv'
  BY <1>1, StutterStep, ReplayedStep, NewCommandStep DEF KnownCommand
<1>2. CASE Finish \/ Transport
  BY <1>2, FinishStep, BeginTurnStep, SendStep, SendFailsStep, ReceiveAckStep, AckTimeoutStep
     DEF Transport
<1>3. CASE AirDuplicate \/ AirExecutes \/ LoseCommand \/ LoseAck
  BY <1>3, AirDuplicateStep, AirExecutesStep, LoseCommandStep, LoseAckStep
<1>4. CASE UNCHANGED vars
  BY <1>4, StutterStep
<1>5. QED
  BY <1>1, <1>2, <1>3, <1>4 DEF Next

LEMMA Invariance == Spec => []IInv
BY InitIInv, NextIInv, PTL DEF Spec
-----------------------------------------------------------------------------
\* Every variable keeps its type, the attempts stay within settings.max_attempts and the
\* ring index within the ring.
THEOREM TypeCorrect == Spec => []TypeOK
<1>1. IInv => TypeOK
  BY DEF IInv
<1>2. QED
  BY <1>1, Invariance, PTL

\* The aircraft executes every command once at most and in the order of sending, with a
\* mavlink_web_control_t that keeps any number of results, even one.
THEOREM InOrder == Spec => []ExecutedInOrder
<1>1. IInv => ExecutedInOrder
  BY DEF IInv, OrderOK
<1>2. QED
  BY <1>1, Invariance, PTL

\* Without a timeout in MavlinkCommandTransport.send_and_wait the answer is that of the
\* aircraft to this command.
THEOREM AnswerRight == Spec => []AnswerIsRight
<1>1. IInv => AnswerIsRight
  BY DEF IInv, TimelyOK, AnswerIsRight
<1>2. QED
  BY <1>1, Invariance, PTL

\* handle_command never replaces the result of a command that went over the link.
THEOREM AnswerFinal == Spec => FinalAnswerStays
<1> DEFINE Stays == \A c \in Command :
                      result_cache[c] \in Final => result_cache'[c] = result_cache[c]
<1>1. ASSUME IInv, [Next]_vars PROVE Stays
  <2>1. ASSUME NEW s \in Socket, NEW c \in Command,
               KnownCommand(s, c) \/ ReplayedCommand(s, c) \/ NewCommand(s, c)
        PROVE  Stays
    <3>1. Nothing \notin Final
      BY DEF Nothing, Final, MavResult
    <3>2. \/ result_cache' = result_cache
          \/ /\ result_cache[c] = Nothing
             /\ result_cache' = [result_cache EXCEPT ![c] = "sequence_replay"]
      BY <2>1 DEF KnownCommand, ReplayedCommand, NewCommand, vars, gateway
    <3>3. result_cache \in [Command -> Answer \cup {Nothing}]
      BY <1>1 DEF IInv, TypeOK
    <3>4. QED
      BY <3>1, <3>2, <3>3
  <2>2. CASE Finish
    <3>1. /\ command_lock # <<>> /\ result_cache' = [result_cache EXCEPT ![InWork] = verdict]
      BY <1>1, <2>2 DEF Finish, InWork, IInv, LockOK
    <3>2. result_cache[InWork] \notin Final
      BY <1>1, <3>1, HeadFacts DEF IInv, LockOK
    <3>3. result_cache \in [Command -> Answer \cup {Nothing}]
      BY <1>1 DEF IInv, TypeOK
    <3>4. QED
      BY <3>1, <3>2, <3>3
  <2>3. CASE Transport \/ AirDuplicate \/ AirExecutes \/ LoseCommand \/ LoseAck
    BY <2>3 DEF Transport, BeginTurn, Send, SendFails, ReceiveAck, AckTimeout, AirDuplicate,
                AirExecutes, LoseCommand, LoseAck, gateway
  <2>4. CASE UNCHANGED vars
    BY <2>4 DEF vars, gateway
  <2>5. QED
    BY <1>1, <2>1, <2>2, <2>3, <2>4 DEF Next
<1>2. IInv /\ [Next]_vars => [Stays]_vars
  BY <1>1
<1>3. QED
  BY <1>2, Invariance, PTL DEF Spec, FinalAnswerStays
=============================================================================
