------------------------- MODULE MCCoSchedulerThread -------------------------
(* CoSchedulerThread with a few coroutines. *)
EXTENDS CoSchedulerThread

CONSTANTS t1, t2, t3
ThreeTasks == {t1, t2, t3}
=============================================================================
