------------------------------ MODULE RsdkLink ------------------------------
(***************************************************************************)
(* Requests to the gimbal, told apart by a sequence number:                *)
(*   src/control/dji_rsdk/dji_rsdk_protocol.c:131-174, 260-298, 327-508    *)
(*   src/control/dji_rsdk/dji_rsdk_commands.c:51-72                        *)
(* Packets come whole and in order here (RsdkFrames); what has come late   *)
(* stays in the receiver and is met by the next request, which knows it by *)
(* its number. The numbers wrap, 0 left out. The gimbal is external: it    *)
(* answers requests in order, may be slow, and reports on its own.         *)
(***************************************************************************)
EXTENDS Naturals, Sequences

CONSTANTS
  LastSequence,  \* the largest sequence number (65535)
  MaxLate,       \* an answer comes before this many further packets were sent
  MaxSends,      \* bound: packets sent
  MaxReports     \* bound: packets the gimbal sends on its own

None == 0
Command == {1, 2}

VARIABLES
  open,           \* can_socket_is_open
  next_sequence,
  request,        \* the request that waits, or None; a record
  result,         \* what the request that ended last returned, and whose answer it took
  to_gimbal,      \* external: packets on their way to the gimbal
  to_host,        \* packets on their way back, those in rx_buffer included
  sends,          \* bound counters
  reports

gimbal == <<to_gimbal, to_host, reports>>
vars == <<open, next_sequence, request, result, to_gimbal, to_host, sends, reports>>

Idle == [call |-> None]
Packet(ack, sequence, id, code, call) ==
  [is_ack |-> ack, sequence |-> sequence, command_id |-> id, code |-> code, call |-> call]

\* dji_rsdk_init.
Init ==
  /\ open = FALSE
  /\ next_sequence = 1
  /\ request = Idle
  /\ result = [call |-> None, status |-> "DJI_RSDK_OK", answer |-> None]
  /\ to_gimbal = <<>>
  /\ to_host = <<>>
  /\ sends = 0
  /\ reports = 0
-----------------------------------------------------------------------------
\* The bytes that were received go with the socket; the number does not restart.
dji_rsdk_open ==
  /\ ~open
  /\ open' = TRUE
  /\ to_host' = <<>>
  /\ UNCHANGED <<next_sequence, request, result, to_gimbal, sends, reports>>

dji_rsdk_close ==
  /\ open
  /\ request = Idle
  /\ open' = FALSE
  /\ to_host' = <<>>
  /\ UNCHANGED <<next_sequence, request, result, to_gimbal, sends, reports>>

\* The number is used up before the packet is built and sent.
TakeSequence ==
  next_sequence' = IF next_sequence = LastSequence THEN 1 ELSE next_sequence + 1

\* No packet is as late as MaxLate says.
InTime ==
  \A q \in {to_gimbal, to_host} :
    \A i \in DOMAIN q : q[i].call = None \/ sends + 1 - q[i].call < MaxLate

\* A failure of the bus within the packet leaves a part of it, that no one answers.
dji_rsdk_send_command(id, wanted) ==
  /\ open
  /\ request = Idle
  /\ sends < MaxSends /\ InTime
  /\ sends' = sends + 1
  /\ TakeSequence
  /\ LET call == sends + 1
         packet == [sequence |-> next_sequence, command_id |-> id, answer |-> wanted, call |-> call]
         Ends(status) == request' = Idle /\ result' = [call |-> call, status |-> status, answer |-> None]
     IN \/ /\ to_gimbal' = Append(to_gimbal, packet)
           /\ IF wanted
              THEN request' = packet /\ UNCHANGED result
              ELSE Ends("sent")
        \/ /\ \E status \in {"DJI_RSDK_ERR_CAN", "DJI_RSDK_ERR_TIMEOUT"} : Ends(status)
           /\ UNCHANGED to_gimbal
  /\ UNCHANGED <<open, to_host, reports>>

Return(status, answer) ==
  /\ request' = Idle
  /\ result' = [call |-> request.call, status |-> status, answer |-> answer]

\* A mutant: the number of the answer is not looked at.
AnswersCommand(f) == f.is_ack /\ f.command_id = request.command_id

Answers(f) ==
  /\ f.is_ack
  /\ f.sequence = request.sequence
  /\ f.command_id = request.command_id

\* dji_rsdk_request: a packet that is not the answer goes to the callback, which
\* nobody sets, or is ignored.
dji_rsdk_request ==
  /\ request # Idle
  /\ to_host # <<>>
  /\ to_host' = Tail(to_host)
  /\ LET f == Head(to_host) IN
     IF ~Answers(f) THEN UNCHANGED <<request, result>>
     ELSE CASE f.code = "none" -> Return("DJI_RSDK_ERR_PROTOCOL", f.call)
            [] f.code = "long" -> Return("DJI_RSDK_ERR_BUFFER", f.call)
            [] f.code = "failed" -> Return("DJI_RSDK_ERR_REMOTE", f.call)
            [] f.code = "ok" -> Return("DJI_RSDK_OK", f.call)
  /\ UNCHANGED <<open, next_sequence, to_gimbal, sends, reports>>

\* The deadline, an error of the bus, or a foreign CAN frame end the call.
RequestFails ==
  /\ request # Idle
  /\ \E status \in {"DJI_RSDK_ERR_TIMEOUT", "DJI_RSDK_ERR_CAN"} : Return(status, None)
  /\ UNCHANGED <<open, next_sequence, to_gimbal, to_host, sends, reports>>
-----------------------------------------------------------------------------
\* External: the gimbal.
GimbalTakes ==
  /\ to_gimbal # <<>>
  /\ to_gimbal' = Tail(to_gimbal)
  /\ LET p == Head(to_gimbal) IN
     \/ UNCHANGED to_host
     \/ /\ open /\ p.answer
        /\ \E code \in {"ok", "failed", "none", "long"} :
             to_host' = Append(to_host, Packet(TRUE, p.sequence, p.command_id, code, p.call))
  /\ UNCHANGED <<open, next_sequence, request, result, sends, reports>>

GimbalReports ==
  /\ open
  /\ reports < MaxReports
  /\ reports' = reports + 1
  /\ \E s \in 1..LastSequence, id \in Command :
       to_host' = Append(to_host, Packet(FALSE, s, id, "ok", None))
  /\ UNCHANGED <<open, next_sequence, request, result, to_gimbal, sends>>
-----------------------------------------------------------------------------
Next ==
  \/ dji_rsdk_open
  \/ dji_rsdk_close
  \/ \E id \in Command, wanted \in BOOLEAN : dji_rsdk_send_command(id, wanted)
  \/ dji_rsdk_request
  \/ RequestFails
  \/ GimbalTakes
  \/ GimbalReports

Spec == Init /\ [][Next]_vars
-----------------------------------------------------------------------------
(***************************************************************************)
(* A request that succeeds has the answer to this very request, whatever   *)
(* came late, was lost or was reported in between, also when the numbers   *)
(* have wrapped: a number is not used again before the answer to its last  *)
(* use has come or never will.                                             *)
(***************************************************************************)
AnswerIsOwn == result.status = "DJI_RSDK_OK" => result.answer = result.call
=============================================================================
