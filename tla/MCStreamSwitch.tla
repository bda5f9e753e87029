--------------------------- MODULE MCStreamSwitch ---------------------------
(***************************************************************************)
(* StreamSwitch with two sources and room for two changes: away from a     *)
(* source and back to it, or the stream off and on again. The encoder may  *)
(* hold one frame back and is reset after two failures in a row.           *)
(***************************************************************************)
EXTENDS StreamSwitch

MCChannel == {0, 1}
=============================================================================
