----------------------------- MODULE MCRecorder -----------------------------
(***************************************************************************)
(* Recorder with an HDMI channel, which loses and regains its input, and a *)
(* CSI channel, which does not. Two record threads let a channel record    *)
(* twice or both channels at once; two queue slots fill up and wrap. What  *)
(* must happen in the end is checked of the HDMI channel alone, with three *)
(* recordings.                                                             *)
(***************************************************************************)
EXTENDS Recorder

MCChannel == {0, 1}
MCOneChannel == {0}
MCReconnecting == {0}
MCHdmi == {0}
=============================================================================
