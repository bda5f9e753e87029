------------------------------ MODULE MCLinks ------------------------------
(***************************************************************************)
(* The units of Links, and two more that write values as bytes and read    *)
(* them: the settings of the 4K camera and the tables of the relay boards. *)
(* One of them moves in a behaviour: unit says which. To check them side   *)
(* by side would only multiply the states. The two units of this module    *)
(* share the variables s1..s6, which hold what the unit keeps, in the      *)
(* order of its VARIABLES; the others are Unused.                          *)
(*                                                                         *)
(* Bounds. Two calls are the least after which the first can be answered   *)
(* late, three leave one in between; one loss or fault is enough for an    *)
(* answer, an acknowledgement or a byte to be missed, and two for a fault  *)
(* while the first is handled. Of the bits of a byte, 0 turns a value or a *)
(* kind into another, and 3 and 7 make a frame longer and too long.        *)
(***************************************************************************)
EXTENDS Links, Integers

VARIABLES s1, s2, s3, s4, s5, s6

\* Every combination of the least and the greatest angle, and one in between.
MCPositions == [yaw : {-1800, -1, 1800}, roll : {-300, 300}, pitch : {-560, 1460}]
MCLimits == [pitch_max : {0, 145}, pitch_min : {55}, yaw_max : {1, 179}, yaw_min : {178},
             roll_max : {30}, roll_min : {2, 29}]
MCMaps == {<<65525, 65527>>, <<65529, 65535>>}
Unused == "unused"

VI == INSTANCE ViscaItems WITH
  MaxSends <- 2, stored <- s1, asked <- s2, got <- s3, sends <- s4

MB == INSTANCE Modbus WITH
  Maps <- MCMaps, Addresses <- {65524, 65526, 65535},
  Counts <- {0, 1, 2, 9, 126, 2001}, MaxCalls <- 2, held <- s1, asked <- s2,
  got <- s3, before <- s4, left <- s5, calls <- s6
-----------------------------------------------------------------------------
After4 == <<s5, s6>>
slots == <<s1, s2, s3, s4, s5, s6>>
UnusedAfter(n) ==
  /\ n < 1 => s1 = Unused
  /\ n < 2 => s2 = Unused
  /\ n < 3 => s3 = Unused
  /\ n < 4 => s4 = Unused
  /\ n < 5 => s5 = Unused
  /\ n < 6 => s6 = Unused

LinksUnits == {"queue", "visca link", "rsdk link", "actions", "capture", "format",
               "convert", "osd", "key frames", "rtp", "rsdk frames", "rsdk items", "serial"}
ByteUnits == {"visca items", "modbus"}

MCInit ==
  /\ unit \in LinksUnits \cup ByteUnits
  /\ LinksInit
  /\ \/ unit \in LinksUnits /\ UnusedAfter(0)
     \/ unit = "visca items" /\ VI!Init /\ UnusedAfter(4)
     \/ unit = "modbus" /\ MB!Init

MCNext ==
  \/ LinksNext /\ UNCHANGED slots
  \/ /\ UNCHANGED links_vars
     /\ \/ unit = "visca items" /\ VI!Next /\ UNCHANGED After4
        \/ unit = "modbus" /\ MB!Next

MCSpec == MCInit /\ [][MCNext]_<<links_vars, slots>>
-----------------------------------------------------------------------------
(***************************************************************************)
(* What is written as bytes at one end is read as the same at the other: a *)
(* device that was set reads back what it was set to, and only the values  *)
(* addressed change; on the relay boards a refused call changes nothing    *)
(* and leaves no byte of its answer behind; and with one byte lost, or one *)
(* of the bits looked at damaged, the check of the laser, an exclusive or, *)
(* and that of the thermal camera, a sum, fit the bytes of an answer only. *)
(***************************************************************************)
BytesAgree ==
  /\ unit = "visca items" => VI!ReadsBack
  /\ unit = "modbus" => MB!TransactionRight
  /\ I!ListsAreWhole
  /\ A!ChecksTell
=============================================================================
