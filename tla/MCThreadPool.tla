---------------------------- MODULE MCThreadPool ----------------------------
(* ThreadPool with two workers and a client thread. *)
EXTENDS ThreadPool

CONSTANTS w1, w2, c1, t1, t2

TwoWorkers == {w1, w2}
OneClient == {c1}
TwoTasks == {t1, t2}
=============================================================================
