---------------------------- MODULE MCEchoServer -----------------------------
(* The echo servers with two clients, one of which sends zeros. *)
EXTENDS EchoServer

CONSTANTS k1, k2

TwoClients == {k1, k2}
SomeBinary == {k2}
TwoFds == {4, 5}
=============================================================================
