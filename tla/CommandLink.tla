----------------------------- MODULE CommandLink -----------------------------
(***************************************************************************)
(* A button command on its way from the browser to the aircraft and back:  *)
(*   ground_gateway/main.py               handle_command, one per socket;  *)
(*   ground_gateway/gateway_core.py       result cache, sequence tracker;  *)
(*   ground_gateway/mavlink_transport.py  sending, waiting, trying again;  *)
(*   src/control/mavlink/mavlink_web_control.c  the air side, which keeps  *)
(*                                        the results of the last commands.*)
(*                                                                         *)
(* The gateway is one asyncio loop: what a handler does between two awaits *)
(* is one action. The transport runs in a thread of its own, for one       *)
(* handler at a time (command_lock, first come first served).              *)
(*                                                                         *)
(* The link loses and delays messages without bound and keeps their order, *)
(* as a serial line or TCP does. What the command does on board is an      *)
(* accepted or a rejected request; its fields are left out.                *)
(*                                                                         *)
(* Not modelled: commands that from_payload refuses (they change no        *)
(* state), and the limits of the gateway's tables (2048 results for 600    *)
(* seconds, 256 clients), as a command is too old after 3 seconds.         *)
(***************************************************************************)
EXTENDS Naturals, Sequences

CONSTANTS
  Socket,       \* the browser's connections
  Command,      \* the commands, each with an id of its own (command_id)
  Client,       \* the clients
  ClientOf,     \* client_id of a command
  SequenceOf,   \* sequence of a command
  NoCommand,    \* a connection without a command in work
  Free,         \* an entry of the air side's ring that was never used
  MaxAttempts,  \* settings.max_attempts
  CacheSize     \* MAVLINK_WEB_CONTROL_CACHE_SIZE

ASSUME LinkAssumption ==
  /\ ClientOf \in [Command -> Client]
  /\ SequenceOf \in [Command -> Nat \ {0}]
  /\ NoCommand \notin Command
  /\ Free \notin [command : Command, result : {"accepted", "rejected"}]
  /\ MaxAttempts \in Nat \ {0}
  /\ CacheSize \in Nat \ {0}

VARIABLES
  handler,           \* the command each connection waits for
  command_lock,      \* the connections that hold or wait for the lock, in order
  sequences,         \* the highest sequence of each client
  result_cache,      \* the answer kept for each command
  transport_at,      \* where the transport thread is
  attempt,           \* the attempt it makes
  verdict,           \* what send_and_wait returned or raised
  downlink,          \* the commands on their way to the aircraft
  uplink,            \* the COMMAND_ACKs on their way back, or not yet read
  cache,             \* the results the air side keeps
  next_cache_index,
  turn,              \* history: when each command got the lock, 0 if not yet
  turns,             \* history: how many commands got it
  executed,          \* history: what the air side executed, in order
  result,            \* history: with which result
  timed_out          \* history: some attempt got no answer in time

gateway == <<handler, command_lock, sequences, result_cache>>
transport == <<transport_at, attempt, verdict>>
air == <<cache, next_cache_index, executed, result>>
vars == <<gateway, transport, downlink, uplink, air, turn, turns, timed_out>>

MavResult == {"accepted", "rejected"}
Final == MavResult \cup {"ack_timeout", "gateway_error"}
Answer == Final \cup {"sequence_replay"}
Ack == [command : Command, result : MavResult]
Slot == 0..(CacheSize - 1)
Nothing == "nothing"
-----------------------------------------------------------------------------
Init ==
  /\ handler = [s \in Socket |-> NoCommand]
  /\ command_lock = <<>>
  /\ sequences = [c \in Client |-> 0]
  /\ result_cache = [c \in Command |-> Nothing]
  /\ transport_at = "idle"
  /\ attempt = 0
  /\ verdict = Nothing
  /\ downlink = <<>>
  /\ uplink = <<>>
  /\ cache = [i \in Slot |-> Free]
  /\ next_cache_index = 0
  /\ turn = [c \in Command |-> 0]
  /\ turns = 0
  /\ executed = <<>>
  /\ result = [c \in Command |-> Nothing]
  /\ timed_out = FALSE
-----------------------------------------------------------------------------
(***************************************************************************)
(* handle_command.                                                         *)
(***************************************************************************)
\* A mutant: the same sequence is accepted again.
AcceptsEqual(c) == SequenceOf[c] >= sequences[ClientOf[c]]

\* ClientSequenceTracker.accept.
Accepts(c) == SequenceOf[c] > sequences[ClientOf[c]]

\* A known result is sent again and changes nothing.
KnownCommand(s, c) ==
  /\ handler[s] = NoCommand
  /\ result_cache[c] # Nothing
  /\ UNCHANGED vars

ReplayedCommand(s, c) ==
  /\ handler[s] = NoCommand
  /\ result_cache[c] = Nothing
  /\ ~Accepts(c)
  /\ result_cache' = [result_cache EXCEPT ![c] = "sequence_replay"]
  /\ UNCHANGED <<handler, command_lock, sequences, transport, downlink, uplink, air, turn,
                 turns, timed_out>>

NewCommand(s, c) ==
  /\ handler[s] = NoCommand
  /\ result_cache[c] = Nothing
  /\ Accepts(c)
  /\ sequences' = [sequences EXCEPT ![ClientOf[c]] = SequenceOf[c]]
  /\ handler' = [handler EXCEPT ![s] = c]
  /\ command_lock' = Append(command_lock, s)
  /\ UNCHANGED <<result_cache, transport, downlink, uplink, air, turn, turns, timed_out>>

\* The loop learns what the thread returned, releases the lock and keeps the answer.
Finish ==
  /\ transport_at = "returned"
  /\ result_cache' = [result_cache EXCEPT ![handler[Head(command_lock)]] = verdict]
  /\ handler' = [handler EXCEPT ![Head(command_lock)] = NoCommand]
  /\ command_lock' = Tail(command_lock)
  /\ transport_at' = "idle"
  /\ UNCHANGED <<sequences, attempt, verdict, downlink, uplink, air, turn, turns, timed_out>>
-----------------------------------------------------------------------------
(***************************************************************************)
(* MavlinkCommandTransport.send_and_wait.                                  *)
(***************************************************************************)
InWork == handler[Head(command_lock)]

\* The acknowledgements that have arrived by now are dropped, the later ones are not.
BeginTurn ==
  /\ transport_at = "idle"
  /\ command_lock # <<>>
  /\ \E n \in 0..Len(uplink) : uplink' = SubSeq(uplink, n + 1, Len(uplink))
  /\ transport_at' = "send"
  /\ attempt' = 1
  /\ turns' = turns + 1
  /\ turn' = [turn EXCEPT ![InWork] = turns + 1]
  /\ UNCHANGED <<gateway, verdict, downlink, air, timed_out>>

Send ==
  /\ transport_at = "send"
  /\ downlink' = Append(downlink, InWork)
  /\ transport_at' = "wait"
  /\ UNCHANGED <<gateway, attempt, verdict, uplink, air, turn, turns, timed_out>>

\* The connection raises an exception.
SendFails ==
  /\ transport_at = "send"
  /\ verdict' = "gateway_error"
  /\ transport_at' = "returned"
  /\ UNCHANGED <<gateway, attempt, downlink, uplink, air, turn, turns, timed_out>>

\* Any COMMAND_ACK for MAV_CMD_USER_1 will do: the uid it carries is not looked at.
ReceiveAck ==
  /\ transport_at = "wait"
  /\ uplink # <<>>
  /\ verdict' = Head(uplink).result
  /\ uplink' = Tail(uplink)
  /\ transport_at' = "returned"
  /\ UNCHANGED <<gateway, attempt, downlink, air, turn, turns, timed_out>>

\* A mutant: the last attempt waits without a limit.
AckTimeoutNotTheLast ==
  /\ transport_at = "wait"
  /\ timed_out' = TRUE
  /\ attempt < MaxAttempts
  /\ attempt' = attempt + 1
  /\ transport_at' = "send"
  /\ UNCHANGED <<gateway, verdict, downlink, uplink, air, turn, turns>>

AckTimeout ==
  /\ transport_at = "wait"
  /\ timed_out' = TRUE
  /\ \/ /\ attempt < MaxAttempts
        /\ attempt' = attempt + 1
        /\ transport_at' = "send"
        /\ UNCHANGED verdict
     \/ /\ attempt = MaxAttempts
        /\ verdict' = "ack_timeout"
        /\ transport_at' = "returned"
        /\ UNCHANGED attempt
  /\ UNCHANGED <<gateway, downlink, uplink, air, turn, turns>>
-----------------------------------------------------------------------------
(***************************************************************************)
(* mavlink_web_control_handle_ex, and the link.                            *)
(***************************************************************************)
Cached(c) == {i \in Slot : cache[i] # Free /\ cache[i].command = c}

AirDuplicate ==
  /\ downlink # <<>>
  /\ downlink' = Tail(downlink)
  /\ \E i \in Cached(Head(downlink)) : uplink' = Append(uplink, cache[i])
  /\ UNCHANGED <<gateway, transport, air, turn, turns, timed_out>>

\* A mutant: the ring index is not wrapped.
NextIndexUnwrapped == next_cache_index + 1

NextIndex == (next_cache_index + 1) % CacheSize

\* A mutant: the result is acknowledged but not kept.
CacheResultForgotten(c, r) == UNCHANGED <<cache, next_cache_index>>

CacheResult(c, r) ==
  /\ cache' = [cache EXCEPT ![next_cache_index] = [command |-> c, result |-> r]]
  /\ next_cache_index' = NextIndex

\* A mutant: every command is acknowledged as accepted.
AckedResultAlwaysGood(r) == "accepted"

\* mavlink_web_make_ack: the result of the handler.
AckedResult(r) == r

AirExecutes ==
  /\ downlink # <<>>
  /\ Cached(Head(downlink)) = {}
  /\ downlink' = Tail(downlink)
  /\ \E r \in MavResult :
       /\ executed' = Append(executed, Head(downlink))
       /\ result' = [result EXCEPT ![Head(downlink)] = r]
       /\ CacheResult(Head(downlink), r)
       /\ uplink' = Append(uplink, [command |-> Head(downlink), result |-> AckedResult(r)])
  /\ UNCHANGED <<gateway, transport, turn, turns, timed_out>>

Without(s, i) == SubSeq(s, 1, i - 1) \o SubSeq(s, i + 1, Len(s))

LoseCommand ==
  /\ \E i \in 1..Len(downlink) : downlink' = Without(downlink, i)
  /\ UNCHANGED <<gateway, transport, uplink, air, turn, turns, timed_out>>

LoseAck ==
  /\ \E i \in 1..Len(uplink) : uplink' = Without(uplink, i)
  /\ UNCHANGED <<gateway, transport, downlink, air, turn, turns, timed_out>>
-----------------------------------------------------------------------------
Transport == BeginTurn \/ Send \/ SendFails \/ ReceiveAck \/ AckTimeout

Next ==
  \/ \E s \in Socket, c \in Command :
       KnownCommand(s, c) \/ ReplayedCommand(s, c) \/ NewCommand(s, c)
  \/ Finish
  \/ Transport
  \/ AirDuplicate \/ AirExecutes
  \/ LoseCommand \/ LoseAck

Spec == Init /\ [][Next]_vars

\* The loop and the transport thread run, and a wait ends. The link and the aircraft
\* owe nothing.
FairSpec == Spec /\ WF_vars(Finish) /\ WF_vars(Transport)
-----------------------------------------------------------------------------
TypeOK ==
  /\ handler \in [Socket -> Command \cup {NoCommand}]
  /\ command_lock \in Seq(Socket)
  /\ sequences \in [Client -> Nat]
  /\ result_cache \in [Command -> Answer \cup {Nothing}]
  /\ transport_at \in {"idle", "send", "wait", "returned"}
  /\ attempt \in 0..MaxAttempts
  /\ verdict \in Final \cup {Nothing}
  /\ downlink \in Seq(Command)
  /\ uplink \in Seq(Ack)
  /\ cache \in [Slot -> Ack \cup {Free}]
  /\ next_cache_index \in Slot
  /\ turn \in [Command -> Nat]
  /\ turns \in Nat
  /\ executed \in Seq(Command)
  /\ result \in [Command -> MavResult \cup {Nothing}]
  /\ timed_out \in BOOLEAN

(***************************************************************************)
(* The aircraft executes commands in the order in which the gateway sent   *)
(* them, each at most once, whatever is lost, late or sent again, and even *)
(* if it remembers no more than the last command: a release never          *)
(* overtakes its press, and a toggle is never toggled back by a retry.     *)
(***************************************************************************)
ExecutedInOrder ==
  \A i, j \in 1..Len(executed) : i < j => turn[executed[i]] < turn[executed[j]]

(***************************************************************************)
(* What a client is told of a command that went over the link is final:    *)
(* neither a second copy of the command on another connection nor an       *)
(* answer that comes later changes it.                                     *)
(***************************************************************************)
FinalAnswerStays ==
  [][\A c \in Command : result_cache[c] \in Final => result_cache'[c] = result_cache[c]]_vars

(***************************************************************************)
(* As long as every attempt is answered in time, what a client is told is  *)
(* what the aircraft did.                                                  *)
(***************************************************************************)
AnswerIsRight ==
  ~timed_out => \A c \in Command :
    result_cache[c] \in MavResult => result[c] = result_cache[c]

(***************************************************************************)
(* What README.md:88 of the gateway says: the page shows that the command  *)
(* was received, and the aircraft has received it.                         *)
(***************************************************************************)
OkMeansExecuted ==
  \A c \in Command : result_cache[c] = "accepted" => result[c] = "accepted"

(***************************************************************************)
(* Every command that was let in is answered, however many wait for the    *)
(* link and even if the aircraft never answers.                            *)
(***************************************************************************)
EveryCommandAnswered == \A s \in Socket : handler[s] # NoCommand ~> handler[s] = NoCommand
=============================================================================
