----------------------------- MODULE ViscaItems -----------------------------
(***************************************************************************)
(* The settings of the 4K camera, as the library writes and reads them.    *)
(* The camera is external: it keeps the parameter bytes of a setting and   *)
(* repeats them in the answer; a packet of an action (a movement, a step   *)
(* up or down) is carried out and stores nothing.                          *)
(***************************************************************************)
EXTENDS ViscaCommands

CONSTANT MaxSends  \* bound: settings and actions sent

VARIABLES
  stored,  \* external: the parameter bytes the camera keeps, by inquiry key
  asked,   \* the value set last, for the settings whose value is known
  got,     \* the answer to the last inquiry, none or one
  sends    \* bound counter

vars == <<stored, asked, got, sends>>
-----------------------------------------------------------------------------
\* External: what the camera does with the bytes of a command.
CameraTakes(bytes) ==
  LET key == {k \in Keys : IsStrictPrefix(k, bytes)}
  IN stored' = IF bytes \in ActionPackets THEN stored
               ELSE [k \in key |-> SubSeq(bytes, Len(k) + 1, Len(bytes))] @@ stored

Init ==
  /\ stored = <<>>
  /\ asked = <<>>
  /\ got = {}
  /\ sends = 0

Send(bytes) ==
  /\ sends < MaxSends
  /\ CameraTakes(bytes)
  /\ got' = {}
  /\ sends' = sends + 1

\* A value outside its range is refused before anything is sent.
Set(i, v) ==
  /\ v \in Commands[i].values
  /\ Send(Commands[i].key \o Encode(Commands[i], v))
  /\ asked' = (i :> v) @@ asked

Act(a) ==
  /\ Send(a.bytes)
  /\ asked' = [i \in DOMAIN asked \ a.moves |-> asked[i]]

WriteOnly(key) ==
  /\ Send(Append(key, 0))
  /\ UNCHANGED asked

Inquire(i) ==
  /\ i \in DOMAIN asked
  /\ got = {}
  /\ Inquiries[i].key \in DOMAIN stored
  /\ got' = {[item |-> i, value |-> visca_query_data(Inquiries[i], stored[Inquiries[i].key])]}
  /\ UNCHANGED <<stored, asked, sends>>

Next ==
  \/ \E i \in DOMAIN Commands : \E v \in Commands[i].values : Set(i, v)
  \/ \E a \in Actions : Act(a)
  \/ \E key \in TitleKeys \cup MaskKeys \cup ExtendedKeys : WriteOnly(key)
  \/ \E i \in DOMAIN Inquiries : Inquire(i)

Spec == Init /\ [][Next]_vars
-----------------------------------------------------------------------------
(***************************************************************************)
(* An inquiry returns the value that was set last, whatever other settings *)
(* and actions were sent in between: no two commands share a packet or a   *)
(* key, and the two layouts of a setting agree for every value in range.   *)
(***************************************************************************)
ReadsBack ==
  /\ \A g \in got : g.value = asked[g.item]
  /\ \A i \in DOMAIN asked : Inquiries[i].key \in DOMAIN stored
=============================================================================
