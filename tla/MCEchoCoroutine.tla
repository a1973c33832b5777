--------------------------- MODULE MCEchoCoroutine ---------------------------
(* EchoServer_coroutine with one connection. *)
EXTENDS EchoCoroutine

CONSTANT t1
OneConnection == {t1}
=============================================================================
