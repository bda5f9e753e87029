----------------------------- MODULE RsdkFrames -----------------------------
(***************************************************************************)
(* Packets out of a stream of bytes, over CAN frames that hold a few each: *)
(*   src/control/dji_rsdk/dji_rsdk_protocol.c:176-258, 370-428             *)
(*   src/input/can/can_socket.c:223-312                                    *)
(* The receiver looks for the first byte of a packet, waits for as many    *)
(* bytes as the header claims, and checks the sums. A first byte may be    *)
(* false: payload with the same value, met when the start of its packet    *)
(* was lost on the bus. A byte is named after its packet and its place in  *)
(* it, so the sums are right exactly when the bytes from the first one on  *)
(* are those of one packet. What a call of the receiver keeps between two  *)
(* calls is rx alone: a timeout in between changes nothing.                *)
(***************************************************************************)
EXTENDS Naturals, Sequences, SequencesExt

CONSTANTS
  MinSize,        \* size of the shortest packet
  MaxSize,        \* of the longest
  Header,      \* bytes that hold the size
  ChunkSize,   \* bytes in one CAN frame
  BufferSize,  \* capacity of rx_buffer
  MaxPackets,  \* bound: packets sent
  MaxLosses    \* bound: CAN frames lost

VARIABLES
  bus,        \* CAN frames on their way
  rx,         \* rx_buffer
  delivered,  \* history: packets handed to the caller
  expected,   \* history: plain packets of which no byte was lost
  sent,       \* bound counters
  losses

vars == <<bus, rx, delivered, expected, sent, losses>>

\* The claims that bytes 2 and 3 behind a first byte can make: no packet size,
\* the shortest and the longest one.
Claims == {1, MinSize, MaxSize}
NoClaim == 0

\* Packet p: size n; at place f, unless that is 0, its payload looks like the
\* first byte of a packet that claims c bytes.
Packet(p, n, plain, f, c) ==
  [i \in 1..n |-> [packet |-> p, at |-> i, size |-> n, plain |-> plain,
                   claim |-> IF i = 1 THEN n ELSE IF i = f THEN c ELSE NoClaim]]

\* can_socket_send: as many full CAN frames as there are, and the rest.
Chunks(bytes) ==
  [i \in 1..((Len(bytes) + ChunkSize - 1) \div ChunkSize) |->
     SubSeq(bytes, (i - 1) * ChunkSize + 1,
            IF i * ChunkSize < Len(bytes) THEN i * ChunkSize ELSE Len(bytes))]

Init ==
  /\ bus = <<>>
  /\ rx = <<>>
  /\ delivered = <<>>
  /\ expected = <<>>
  /\ sent = 0
  /\ losses = 0
-----------------------------------------------------------------------------
\* External: the gimbal sends a packet, and the bus may lose one CAN frame of it.
GimbalSends(n, plain, f, c) ==
  /\ sent < MaxPackets
  /\ sent' = sent + 1
  /\ LET chunks == Chunks(Packet(sent + 1, n, plain, f, c)) IN
     \/ /\ bus' = bus \o chunks
        /\ expected' = IF plain THEN Append(expected, sent + 1) ELSE expected
        /\ UNCHANGED losses
     \/ /\ losses < MaxLosses
        /\ losses' = losses + 1
        /\ \E i \in DOMAIN chunks : bus' = bus \o RemoveAt(chunks, i)
        /\ UNCHANGED expected
  /\ UNCHANGED <<rx, delivered>>
-----------------------------------------------------------------------------
\* rx from the first byte on that can start a packet.
Aligned ==
  LET starts == {i \in DOMAIN rx : rx[i].claim # NoClaim}
  IN IF starts = {} THEN <<>>
     ELSE SubSeq(rx, CHOOSE i \in starts : \A j \in starts : i <= j, Len(rx))

dji_rsdk_discard_rx(bytes, n) == SubSeq(bytes, n + 1, Len(bytes))

\* Both sums fit the bytes that the header claims.
SumsMatch(bytes) ==
  /\ bytes[1].at = 1
  /\ \A i \in 1..bytes[1].size : bytes[i].packet = bytes[1].packet /\ bytes[i].at = i

\* A mutant: a packet with a wrong sum is thrown away whole.
BadPacketDropped(bytes) == bytes[1].claim

\* After a wrong sum the search goes on behind the first byte.
Mismatch(bytes) == 1

Complete(bytes) == Len(bytes) >= Header /\ Len(bytes) >= bytes[1].claim
Misshapen(bytes) == Len(bytes) >= Header /\ bytes[1].claim \notin MinSize..MaxSize

dji_rsdk_extract_frame ==
  LET bytes == Aligned
      Drop(n) == rx' = dji_rsdk_discard_rx(bytes, n)
  IN /\ \/ Misshapen(bytes) /\ Drop(1) /\ UNCHANGED delivered
        \/ /\ ~Misshapen(bytes)
           /\ Complete(bytes)
           /\ IF ~SumsMatch(bytes)
              THEN Drop(Mismatch(bytes)) /\ UNCHANGED delivered
              ELSE /\ Drop(bytes[1].claim)
                   /\ delivered' = IF bytes[1].plain THEN Append(delivered, bytes[1].packet)
                                   ELSE delivered
     /\ UNCHANGED <<bus, expected, sent, losses>>

\* dji_rsdk_receive_frame, when there is no packet in rx: one CAN frame more. A
\* buffer that cannot take it is emptied.
dji_rsdk_receive_frame ==
  LET bytes == Aligned IN
  /\ ~Misshapen(bytes) /\ ~Complete(bytes)
  /\ bus # <<>>
  /\ bus' = Tail(bus)
  /\ rx' = IF Len(bytes) + Len(Head(bus)) > BufferSize THEN <<>> ELSE bytes \o Head(bus)
  /\ UNCHANGED <<delivered, expected, sent, losses>>
-----------------------------------------------------------------------------
Next ==
  \/ \E n \in {MinSize, MaxSize}, c \in Claims : \E f \in 2..n : GimbalSends(n, TRUE, f, c)
  \/ \E n \in {MinSize, MaxSize} : GimbalSends(n, FALSE, NoClaim, NoClaim)
  \/ dji_rsdk_extract_frame
  \/ dji_rsdk_receive_frame

Spec == Init /\ [][Next]_vars
-----------------------------------------------------------------------------
\* The bytes on their way: read, or still on the bus. A packet is whole when all of it is.
OnItsWay == Range(rx) \cup UNION {Range(bus[k]) : k \in DOMAIN bus}
WholeOnItsWay(p) ==
  \E b \in OnItsWay :
    /\ b.packet = p
    /\ \A i \in 1..b.size : \E x \in OnItsWay : x.packet = p /\ x.at = i

(***************************************************************************)
(* However the loss of a CAN frame leaves the receiver out of step, every  *)
(* packet that arrives whole is delivered, once and in order: a false      *)
(* first byte delays the packets behind it and never swallows one.         *)
(***************************************************************************)
NoPacketSwallowed ==
  /\ IsPrefix(delivered, expected)
  /\ \A k \in (Len(delivered) + 1)..Len(expected) : WholeOnItsWay(expected[k])

\* The receiver never has to throw the buffer away.
BufferSuffices == Len(rx) + ChunkSize <= BufferSize
=============================================================================
