-------------------------- MODULE MCTimerScheduler --------------------------
(* TimerScheduler on a small instance. *)
EXTENDS TimerScheduler, TLC

CONSTANTS a1, a2, p1, p2

TwoAddr == {a1, a2}
OneThread == {p1}
TwoThreads == {p1, p2}

\* Addresses are only compared for equality, and so are threads.
Symmetry == Permutations(TwoAddr) \union Permutations(TwoThreads)
=============================================================================
