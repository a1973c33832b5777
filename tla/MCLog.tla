-------------------------------- MODULE MCLog --------------------------------
(* Log and LogFile on a small instance: days of two seconds, files of three *)
(* bytes, a check at every third line. *)
EXTENDS Log, TLC

CONSTANTS p1, p2
TwoThreads == {p1, p2}

Symmetry == Permutations(TwoThreads)
=============================================================================
