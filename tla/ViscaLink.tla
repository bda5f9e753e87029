----------------------------- MODULE ViscaLink ------------------------------
(***************************************************************************)
(* One call at a time to a VISCA camera over the serial line:              *)
(*   src/control/visca_camera/visca_camera.c:106-368, 514-570              *)
(* A command is acknowledged on one of the two sockets of the camera and   *)
(* completed on it later; a movement waits for the acknowledgement only,   *)
(* so its completion comes during some later call. An inquiry is answered  *)
(* on socket 0. A command and an inquiry throw away what has arrived       *)
(* before they are sent; what is late comes after that.                    *)
(*                                                                         *)
(* The bytes of a packet, and the search for its first byte, are left out: *)
(* a packet with a damaged byte, or one swallowed by it, is lost here. The *)
(* camera is external. A call may time out whenever it waits.              *)
(***************************************************************************)
EXTENDS Naturals, Sequences

CONSTANTS
  MaxCalls,  \* bound: calls made
  MaxLosses  \* bound: packets lost in either direction

Kind == {"command", "move", "inquiry", "address"}
Call == 1..MaxCalls
Socket == 1..2
None == 0

VARIABLES
  kind,        \* of each call made so far
  waiting,     \* the last call has not returned
  ack_seen,    \* locals of visca_wait_for_command
  ack_socket,
  result,      \* of the call that returned last: its status and whose answer it took
  failed,      \* history: the calls that returned an error
  to_camera,   \* external: calls on their way to the camera
  executing,   \* external: the call that each socket executes, or None
  wire,        \* packets on their way from the camera
  losses       \* bound counter

host == <<kind, waiting, ack_seen, ack_socket, result, failed>>
camera == <<to_camera, executing>>
vars == <<host, camera, wire, losses>>

Packet(type, socket, of) == [type |-> type, socket |-> socket, of |-> of]
Current == Len(kind)

Init ==
  /\ kind = <<>>
  /\ waiting = FALSE
  /\ ack_seen = FALSE
  /\ ack_socket = None
  /\ result = [call |-> None, status |-> "ok", answer |-> None]
  /\ failed = {}
  /\ to_camera = <<>>
  /\ executing = [s \in Socket |-> None]
  /\ wire = <<>>
  /\ losses = 0
-----------------------------------------------------------------------------
(***************************************************************************)
(* The camera.                                                             *)
(***************************************************************************)
Takes ==
  /\ to_camera # <<>>
  /\ to_camera' = Tail(to_camera)
  /\ LET c == Head(to_camera) IN
     CASE kind[c] \in {"command", "move"} ->
            \/ \E s \in Socket :
                 /\ executing[s] = None
                 /\ executing' = [executing EXCEPT ![s] = c]
                 /\ wire' = Append(wire, Packet("ack", s, c))
            \/ /\ \A s \in Socket : executing[s] # None
               /\ wire' = Append(wire, Packet("error", 0, c))
               /\ UNCHANGED executing
       [] kind[c] = "inquiry" ->
            wire' = Append(wire, Packet("value", 0, c)) /\ UNCHANGED executing
       [] kind[c] = "address" ->
            wire' = Append(wire, Packet("address", 0, c)) /\ UNCHANGED executing
  /\ UNCHANGED <<host, losses>>

Completes ==
  /\ \E s \in Socket, type \in {"completion", "error"} :
       /\ executing[s] # None
       /\ executing' = [executing EXCEPT ![s] = None]
       /\ wire' = Append(wire, Packet(type, s, executing[s]))
  /\ UNCHANGED <<host, to_camera, losses>>

Lose ==
  /\ losses < MaxLosses
  /\ losses' = losses + 1
  /\ \/ to_camera # <<>> /\ to_camera' = Tail(to_camera) /\ UNCHANGED wire
     \/ wire # <<>> /\ wire' = Tail(wire) /\ UNCHANGED to_camera
  /\ UNCHANGED <<host, executing>>
-----------------------------------------------------------------------------
(***************************************************************************)
(* A call. visca_command and visca_inquiry flush the input, the setting of *)
(* the address does not.                                                   *)
(***************************************************************************)
visca_camera_send_raw(k) ==
  /\ ~waiting
  /\ Current < MaxCalls
  /\ kind' = Append(kind, k)
  /\ to_camera' = Append(to_camera, Current + 1)
  /\ waiting' = TRUE
  /\ ack_seen' = FALSE
  /\ ack_socket' = None
  /\ UNCHANGED <<result, failed, executing, losses>>

visca_command(k) ==
  /\ k \in {"command", "move"}
  /\ visca_camera_send_raw(k)
  /\ wire' = <<>>

visca_inquiry ==
  /\ visca_camera_send_raw("inquiry")
  /\ wire' = <<>>

visca_camera_address_set ==
  /\ visca_camera_send_raw("address")
  /\ UNCHANGED wire

Return(status, answer) ==
  /\ waiting' = FALSE
  /\ result' = [call |-> Current, status |-> status, answer |-> answer]
  /\ failed' = IF status = "ok" THEN failed ELSE failed \cup {Current}
  /\ UNCHANGED <<kind, ack_seen, ack_socket>>

\* visca_camera_read_packet: the next packet, in the wait of a call of kind k.
Reading(k) ==
  /\ waiting
  /\ kind[Current] \in k
  /\ wire # <<>>
  /\ wire' = Tail(wire)
  /\ UNCHANGED <<camera, losses>>

GoOn == UNCHANGED host

\* A mutant: a completion is taken without a look at its socket.
AnyCompletion(p) == TRUE

\* A completion or an error belongs to the call that was acknowledged on its
\* socket; before the acknowledgement it must be on socket 0.
Matches(p) == IF ack_seen THEN p.socket = ack_socket ELSE p.socket = 0

visca_wait_for_command ==
  /\ Reading({"command", "move"})
  /\ LET p == Head(wire) IN
     CASE p.type = "ack" ->
            IF kind[Current] = "move"
            THEN Return("ok", p.of)
            ELSE /\ ack_seen' = TRUE
                 /\ ack_socket' = p.socket
                 /\ UNCHANGED <<kind, waiting, result, failed>>
       [] p.type \in {"completion", "value"} ->
            IF Matches(p) THEN Return("ok", p.of) ELSE GoOn
       [] p.type = "error" ->
            IF Matches(p) THEN Return("camera", p.of) ELSE GoOn
       [] OTHER -> GoOn

\* An inquiry looks at no socket: a completion is an answer with no data, which
\* visca_query_data refuses.
WaitForValue ==
  /\ Reading({"inquiry"})
  /\ LET p == Head(wire) IN
     CASE p.type = "value" -> Return("ok", p.of)
       [] p.type = "completion" -> Return("protocol", p.of)
       [] p.type = "error" -> Return("camera", p.of)
       [] OTHER -> GoOn

\* The first packet must be the answer.
WaitForAddress ==
  /\ Reading({"address"})
  /\ Return(IF Head(wire).type = "address" THEN "ok" ELSE "protocol", Head(wire).of)

Timeout ==
  /\ waiting
  /\ Return("timeout", None)
  /\ UNCHANGED <<camera, wire, losses>>
-----------------------------------------------------------------------------
Next ==
  \/ Takes
  \/ Completes
  \/ Lose
  \/ \E k \in Kind : visca_command(k)
  \/ visca_inquiry
  \/ visca_camera_address_set
  \/ visca_wait_for_command
  \/ WaitForValue
  \/ WaitForAddress
  \/ Timeout

Spec == Init /\ [][Next]_vars
-----------------------------------------------------------------------------
(***************************************************************************)
(* A call that succeeds took its own answer, unless a call had failed: a   *)
(* late answer is then taken by the next call, whose own answer is late    *)
(* for the one after it, and so on. No answer is older than the failure,   *)
(* and none is ever the completion of a movement that returned at its      *)
(* acknowledgement, though that comes during any later call.               *)
(***************************************************************************)
AnswerIsOwn ==
  result.status = "ok" /\ result.answer # result.call =>
    \E f \in failed : f <= result.answer /\ result.answer < result.call
=============================================================================
