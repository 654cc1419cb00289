---------------------------- MODULE MCConnection ----------------------------
(* Two threads of the pool, and a few lines. *)
EXTENDS Connection, TLC

CONSTANTS t1, t2

ThreadsMC == {t1, t2}
OneThreadMC == {t1}
=============================================================================
