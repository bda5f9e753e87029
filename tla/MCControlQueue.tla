--------------------------- MODULE MCControlQueue ---------------------------
(***************************************************************************)
(* ControlQueue on a small instance: a queue of two requests wraps twice   *)
(* and the id counter once, with one synchronous caller and two channels.  *)
(***************************************************************************)
EXTENDS ControlQueue

CONSTANTS console, usb, hdmi

MCCaller == {console}
MCChannel == {usb, hdmi}
=============================================================================
