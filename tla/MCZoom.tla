------------------------------- MODULE MCZoom -------------------------------
(***************************************************************************)
(* Zoom as it is: its sets are those of the code, only the number of       *)
(* commands that are lost is bounded by the configuration.                 *)
(***************************************************************************)
EXTENDS Zoom
=============================================================================
