---------------------------- MODULE AirTransport ----------------------------
(***************************************************************************)
(* The MAVLink service on board: one thread opens the configured           *)
(* transport, reads it, hands every byte to the parser, answers each       *)
(* command where it came from, and opens the transport again when it       *)
(* fails.                                                                  *)
(*   src/control/mavlink/mavlink_control_service.c                         *)
(*   src/control/mavlink/mavlink_transport_{udp,tcp,serial}.c              *)
(*                                                                         *)
(* A command is a message of one peer, whole in a datagram and cut in two  *)
(* anywhere in a stream. The parser is the MAVLink library's: a frame that *)
(* mixes two messages fails its checksum. CommandLink models what a        *)
(* command does, and AirActions.                                           *)
(***************************************************************************)
EXTENDS Naturals, Sequences

CONSTANTS
  Peer,        \* ground stations
  MaxCommands, \* bound: commands that are sent
  MaxFaults    \* bound: calls of the operating system that fail

Nobody == "nobody"
NoCommand == [from |-> Nobody, number |-> 0]
Kinds == {"udp", "tcp_server", "tcp_client", "serial"}
Command == [from : Peer, number : 1..MaxCommands]
Part(c, half) == [command |-> c, half |-> half]

VARIABLES
  transport,     \* of the configuration: it never changes
  pc,            \* of the thread
  open,          \* its descriptors
  peer,          \* who is connected, or sent the datagram
  parser_status, \* the command whose first half has been read
  inbox,         \* external: what the descriptor has to read, with its sender
  in_work,       \* the command to be answered
  acked,         \* history: the answers sent, and to whom
  main,          \* the main thread: no service yet, "up", "joining", "gone"
  stop_requested,
  sent, faults   \* bound counters

thread == <<pc, open, peer, parser_status, inbox, in_work, acked>>
vars == <<transport, thread, main, stop_requested, sent, faults>>

Init ==
  /\ transport \in Kinds
  /\ pc = "none" /\ open = {} /\ peer = Nobody /\ parser_status = NoCommand
  /\ inbox = <<>> /\ in_work = NoCommand /\ acked = {}
  /\ main = "none" /\ stop_requested = FALSE
  /\ sent = 0 /\ faults = 0

Fault == faults < MaxFaults /\ faults' = faults + 1
Thread == UNCHANGED <<transport, main, stop_requested, sent>>
Listening == open = {"listen"}

\* A mutant: the client's descriptor is forgotten.
CloseNone(fds) == open \ (fds \ {"link"})

Closed(fds) == open \ fds
-----------------------------------------------------------------------------
\* mavlink_control_thread: the top of its loop, and the wait before the next turn.
Turn ==
  /\ pc \in {"turn", "reconnect"}
  /\ pc' = IF stop_requested THEN "ended" ELSE "open"
  /\ parser_status' = NoCommand
  /\ UNCHANGED <<open, peer, inbox, in_work, acked, faults>> /\ Thread

RunReturns ==
  /\ pc' = IF stop_requested THEN "ended" ELSE "reconnect"
  /\ open' = Closed({"listen", "link"})
  /\ inbox' = <<>>
  /\ peer' = Nobody

\* Resolving, creating, binding and opening may each fail, before or after there is
\* a descriptor to close.
Open ==
  /\ pc = "open"
  /\ \/ /\ open' = IF transport = "tcp_server" THEN {"listen"} ELSE {"link"}
        /\ pc' = CASE transport = "tcp_server" -> "listening"
                   [] transport = "tcp_client" -> "connecting"
                   [] OTHER -> "connected"
        /\ inbox' = <<>>
        /\ UNCHANGED <<peer, faults>>
     \/ Fault /\ RunReturns
  /\ UNCHANGED <<parser_status, in_work, acked>> /\ Thread

\* mavlink_tcp_open_client, once connect is under way: for at most 2 seconds.
Connecting ==
  /\ pc = "connecting"
  /\ \/ /\ ~stop_requested
        /\ \E p \in Peer : peer' = p
        /\ pc' = "connected"
        /\ UNCHANGED <<open, inbox, faults>>
     \/ stop_requested /\ RunReturns /\ UNCHANGED faults
     \/ Fault /\ RunReturns
  /\ UNCHANGED <<parser_status, in_work, acked>> /\ Thread

\* mavlink_tcp_run_server. The parser is not reset between two clients.
Accept ==
  /\ pc = "listening" /\ ~stop_requested
  /\ \/ /\ \E p \in Peer : peer' = p
        /\ open' = open \cup {"link"}
        /\ pc' = "connected"
        /\ UNCHANGED faults
     \/ Fault /\ UNCHANGED <<pc, open, peer>>
  /\ UNCHANGED <<parser_status, inbox, in_work, acked>> /\ Thread

\* A connection is over: the server waits for the next client.
Disconnected ==
  IF transport = "tcp_server"
  THEN /\ open' = Closed({"link"})
       /\ pc' = "listening"
       /\ inbox' = <<>>
       /\ peer' = Nobody
  ELSE RunReturns

LeavesOnStop ==
  /\ stop_requested
  /\ \/ pc = "connected" /\ Disconnected
     \/ pc = "listening" /\ RunReturns
  /\ UNCHANGED <<parser_status, in_work, acked, faults>> /\ Thread

\* poll or recv fails, or the peer hangs up; or poll fails while the server has no client.
ConnectionEnds ==
  /\ ~stop_requested
  /\ Fault
  /\ \/ pc = "connected" /\ Disconnected
     \/ pc = "listening" /\ RunReturns
  /\ UNCHANGED <<parser_status, in_work, acked>> /\ Thread
-----------------------------------------------------------------------------
\* mavlink_control_process_bytes, for one part of what was received.
Parsed(part) ==
  \/ parser_status = NoCommand /\ part.half = "whole"
  \/ parser_status = part.command /\ part.half = "tail"

\* The datagrams that are there are read to the last before the stop is looked at.
Receive ==
  /\ pc = "connected"
  /\ stop_requested => transport = "udp"
  /\ inbox # <<>>
  /\ inbox' = Tail(inbox)
  /\ LET part == Head(inbox)
     IN /\ peer' = IF transport = "udp" THEN part.command.from ELSE peer
        /\ parser_status' = IF parser_status = NoCommand /\ part.half = "head"
                            THEN part.command ELSE NoCommand
        /\ IF Parsed(part)
           THEN in_work' = part.command /\ pc' = "answer"
           ELSE UNCHANGED <<in_work, pc>>
  /\ UNCHANGED <<open, acked, faults>> /\ Thread

\* A mutant: a datagram is answered to whoever sent the first one.
ToFirst ==
  IF transport = "udp" /\ acked # {} THEN (CHOOSE a \in acked : TRUE).to ELSE peer

ReplyTo == peer

\* mavlink_tcp_send, mavlink_udp_send and mavlink_serial_send. Only the datagram
\* socket goes on after a failure.
Answer ==
  /\ pc = "answer"
  /\ in_work' = NoCommand
  /\ \/ /\ acked' = acked \cup {[command |-> in_work, to |-> ReplyTo]}
        /\ pc' = "connected"
        /\ UNCHANGED <<open, peer, inbox, faults>>
     \/ /\ Fault
        /\ UNCHANGED acked
        /\ IF transport = "udp"
           THEN pc' = "connected" /\ UNCHANGED <<open, peer, inbox>>
           ELSE Disconnected
  /\ UNCHANGED parser_status /\ Thread
-----------------------------------------------------------------------------
\* External: the peers.
PeerSends ==
  /\ pc \in {"connected", "answer"}
  /\ sent < MaxCommands
  /\ sent' = sent + 1
  /\ \E p \in Peer :
       /\ transport \in {"tcp_server", "tcp_client"} => p = peer
       /\ LET c == [from |-> p, number |-> sent + 1]
          IN \/ inbox' = Append(inbox, Part(c, "whole"))
             \/ /\ transport # "udp"
                /\ \/ inbox' = inbox \o <<Part(c, "head"), Part(c, "tail")>>
                   \/ inbox' = Append(inbox, Part(c, "head"))  \* and hangs up, or is lost
  /\ UNCHANGED <<transport, pc, open, peer, parser_status, in_work, acked, main,
                 stop_requested, faults>>

\* The main thread. When the configuration is wrong or the thread cannot be created
\* there is no service.
service_init ==
  /\ main = "none"
  /\ \/ main' = "up" /\ pc' = "turn" /\ UNCHANGED faults
     \/ main' = "up" /\ UNCHANGED <<pc, faults>>       \* enabled = 0
     \/ main' = "gone" /\ UNCHANGED pc /\ Fault
  /\ UNCHANGED <<transport, open, peer, parser_status, inbox, in_work, acked,
                 stop_requested, sent>>

service_deinit ==
  /\ main = "up"
  /\ stop_requested' = TRUE
  /\ main' = "joining"
  /\ UNCHANGED <<transport, thread, sent, faults>>

Joined ==
  /\ main = "joining" /\ pc \in {"none", "ended"}
  /\ main' = "gone"
  /\ UNCHANGED <<transport, thread, stop_requested, sent, faults>>
-----------------------------------------------------------------------------
ThreadStep ==
  Turn \/ Open \/ Connecting \/ LeavesOnStop \/ Answer

Next ==
  \/ ThreadStep
  \/ Accept \/ ConnectionEnds \/ Receive
  \/ PeerSends
  \/ service_init \/ service_deinit \/ Joined

\* The thread is scheduled, polls with a timeout, and its sends end: a serial line
\* drains (mavlink_serial_send waits for it without looking at stop_requested), and
\* nobody sends datagrams without a pause.
Fairness == WF_vars(ThreadStep) /\ WF_vars(Joined)

Spec == Init /\ [][Next]_vars /\ Fairness
-----------------------------------------------------------------------------
(***************************************************************************)
(* A command is answered to the peer that sent it, whoever has sent or     *)
(* connected before or since; and whenever the thread waits to reconnect   *)
(* or has ended, every descriptor it had is closed, whichever step of the  *)
(* opening or of the connection failed.                                    *)
(***************************************************************************)
AnswersTheSender == \A a \in acked : a.command.from = a.to \/ transport = "serial"
NothingLeftOpen ==
  /\ pc \in {"none", "turn", "open", "reconnect", "ended"} => open = {}
  /\ pc = "listening" => Listening

\* The service is being stopped.
Stopping == main = "joining"
=============================================================================
