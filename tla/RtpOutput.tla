------------------------------ MODULE RtpOutput -----------------------------
(***************************************************************************)
(* The UDP output of the stream: an access unit of the encoder is split at *)
(* its start codes, and each NAL unit goes out in one RTP packet, or in    *)
(* fragments when it is longer than the payload of a packet.               *)
(*   src/output/stream/rtp/rtp_output.c, src/output/stream/udp/udp_output.c *)
(*                                                                         *)
(* Bytes are 0, 1 and 2, which stands for the others and for the header of *)
(* a NAL unit. A receiver puts fragments together whose numbers follow one *)
(* another (RFC 6184); what it holds at first may be left from earlier.    *)
(***************************************************************************)
EXTENDS Naturals, Sequences

CONSTANTS
  Capacity,   \* payload_capacity: 1200 and 1400 bytes in the two outputs
  Modulus,    \* of the sequence number, 2^16
  MaxBytes,   \* bound: bytes of the NAL units of an access unit
  MaxLosses   \* bound: datagrams that are lost, or refused by the socket

VARIABLES
  sent,       \* the NAL units the encoder put into the access unit
  data,       \* the access unit
  current,    \* where rtp_output_send is in it, counted from 1
  nal,        \* [bytes, first, marker]: what remains of the unit being sent
  pc,         \* "scan", "nal", "fragment", "done" or "failed"
  sequence,
  expected, building, \* external: the receiver
  begun,      \* history: NAL units begun
  got,        \* history: units the receiver has completed: which was being sent, and what it is
  marked,     \* history: units begun when a packet carried the marker
  losses      \* bound counter

sender == <<data, current, nal, pc, sequence>>
receiver == <<expected, building, got>>
vars == <<sent, sender, receiver, begun, marked, losses>>

\* What an encoder emits: a unit does not end in 0, nor look like a start code inside.
IsNal(s) ==
  /\ s # <<>> /\ s[1] = 2 /\ s[Len(s)] # 0
  /\ \A i \in 1..(Len(s) - 2) : ~(s[i] = 0 /\ s[i + 1] = 0 /\ s[i + 2] # 2)
Nals == {s \in UNION {[1..n -> 0..2] : n \in 1..MaxBytes} : IsNal(s)}
Codes == {<<0, 0, 1>>, <<0, 0, 0, 1>>}
Nothing == [bytes |-> <<>>, first |-> FALSE, marker |-> FALSE]

Init ==
  /\ \E a \in Nals, b \in Nals \cup {<<>>}, c \in Codes, d \in Codes :
       /\ Len(a) + Len(b) <= MaxBytes
       /\ sent = IF b = <<>> THEN <<a>> ELSE <<a, b>>
       /\ data = c \o a \o (IF b = <<>> THEN <<>> ELSE d \o b)
  /\ current = 1 /\ nal = Nothing /\ pc = "scan"
  /\ sequence \in {0, Modulus - 1}
  /\ expected = sequence /\ building \in {<<>>, <<2>>}
  /\ begun = 0 /\ got = <<>> /\ marked = {} /\ losses = 0
-----------------------------------------------------------------------------
\* The four bytes that are looked at must exist, also for a code of three.
StartCode(i) ==
  /\ i + 3 <= Len(data)
  /\ data[i] = 0 /\ data[i + 1] = 0
  /\ data[i + 2] = 1 \/ (data[i + 2] = 0 /\ data[i + 3] = 1)
CodeLength(i) == IF data[i + 2] = 1 THEN 3 ELSE 4

\* Where the search from i finds a code, or gives up.
Found(i) == {j \in i..Len(data) : StartCode(j)}
First(i) == CHOOSE j \in Found(i) : \A k \in Found(i) : j <= k

\* A mutant: the last unit is the one after which no byte is left.
LastIfNothingFollows(start) == start > Len(data)

LastUnit(start) == Found(start) = {}

Scan ==
  /\ pc = "scan"
  /\ IF Found(current) = {}
     THEN pc' = "done" /\ UNCHANGED <<current, nal, begun>>
     ELSE LET start == First(current) + CodeLength(First(current))
              next == IF Found(start) = {} THEN Len(data) + 1 ELSE First(start)
          IN /\ current' = next
             /\ IF next > start
                THEN /\ nal' = [bytes |-> SubSeq(data, start, next - 1), first |-> TRUE,
                                marker |-> LastUnit(start)]
                     /\ begun' = begun + 1
                     /\ pc' = IF next - start <= Capacity THEN "nal" ELSE "fragment"
                ELSE UNCHANGED <<nal, begun, pc>>
  /\ UNCHANGED <<sent, data, sequence, receiver, marked, losses>>
-----------------------------------------------------------------------------
\* External: the receiver takes a packet [start, end, bytes], or whole units.
Completes(bytes) == got' = Append(got, [unit |-> begun, bytes |-> bytes]) /\ building' = <<>>

Receive(p) ==
  LET held == IF sequence = expected THEN building ELSE <<>>
  IN /\ expected' = (sequence + 1) % Modulus
     /\ CASE p.start /\ p.end -> Completes(p.bytes)
          [] p.start /\ ~p.end -> building' = p.bytes /\ UNCHANGED got
          [] ~p.start /\ held = <<>> -> building' = <<>> /\ UNCHANGED got
          [] ~p.start /\ held # <<>> /\ p.end -> Completes(held \o p.bytes)
          [] OTHER -> building' = held \o p.bytes /\ UNCHANGED got

\* send_datagram: it arrives, is lost, or is refused, which ends the access unit.
Packet(p, after) ==
  /\ sequence' = (sequence + 1) % Modulus
  /\ marked' = IF nal.marker /\ after = "scan" THEN marked \cup {begun} ELSE marked
  /\ \/ Receive(p) /\ pc' = after /\ UNCHANGED losses
     \/ /\ losses < MaxLosses /\ losses' = losses + 1
        /\ UNCHANGED receiver
        /\ pc' \in {after, "failed"}

SendWhole ==
  /\ pc = "nal"
  /\ Packet([start |-> TRUE, end |-> TRUE, bytes |-> nal.bytes], "scan")
  /\ nal' = Nothing
  /\ UNCHANGED <<sent, data, current, begun>>

\* The first fragment carries the header in its own two bytes.
SendFragment ==
  /\ pc = "fragment"
  /\ LET rest == IF nal.first THEN Tail(nal.bytes) ELSE nal.bytes
         chunk == IF Len(rest) > Capacity THEN Capacity ELSE Len(rest)
         last == chunk = Len(rest)
         payload == SubSeq(rest, 1, chunk)
     IN /\ Packet([start |-> nal.first, end |-> last,
                   bytes |-> IF nal.first THEN <<nal.bytes[1]>> \o payload ELSE payload],
                  IF last THEN "scan" ELSE "fragment")
        /\ nal' = IF last THEN Nothing
                  ELSE [nal EXCEPT !.first = FALSE,
                                   !.bytes = SubSeq(rest, chunk + 1, Len(rest))]
  /\ UNCHANGED <<sent, data, current, begun>>

Next == Scan \/ SendWhole \/ SendFragment

Spec == Init /\ [][Next]_vars
-----------------------------------------------------------------------------
(***************************************************************************)
(* Whatever is lost, refused or left over, each unit a receiver completes  *)
(* is the one being sent; without a loss it completes all of them, and     *)
(* exactly the last packet of the access unit carries the marker.          *)
(***************************************************************************)
UnitsArriveWhole ==
  /\ \A k \in DOMAIN got :
       got[k].unit \in DOMAIN sent /\ got[k].bytes = sent[got[k].unit]
  /\ pc = "done" /\ losses = 0 => [k \in DOMAIN got |-> got[k].bytes] = sent
  /\ marked \subseteq {Len(sent)}
  /\ pc = "done" => marked # {}
=============================================================================
