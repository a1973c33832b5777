----------------------------- MODULE MCEventLoop -----------------------------
(* Constants for TLC: two channels and two descriptors; the event list *)
(* starts with room for one report, so that it fills and doubles.            *)
EXTENDS EventLoop

CONSTANTS c1, c2

MCFds == 1 .. Cardinality(Channels)
=============================================================================
