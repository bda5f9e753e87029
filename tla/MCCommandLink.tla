---------------------------- MODULE MCCommandLink ----------------------------
(***************************************************************************)
(* CommandLink with two clients, one of them with two commands, and two    *)
(* connections: a command may come twice, on both, while it is in work.    *)
(* Each is sent at most twice. The air side remembers one command only,    *)
(* the least it can, so that its ring wraps at every command.              *)
(***************************************************************************)
EXTENDS CommandLink

CONSTANTS s1, s2

MCSocket == {s1, s2}
MCCommand == {"press", "release", "other"}
MCClient == {"pilot", "guest"}
MCClientOf == [c \in MCCommand |-> IF c = "other" THEN "guest" ELSE "pilot"]
MCSequenceOf == [c \in MCCommand |-> IF c = "release" THEN 2 ELSE 1]
=============================================================================
