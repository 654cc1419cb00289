------------------------------ MODULE MCReader ------------------------------
(* Two cards whose uids differ in length and in one byte; bytes of four bits, *)
(* so that every value of every byte of a response can be disturbed.         *)
EXTENDS Reader

CardsMC == {<<3>>, <<3, 5>>}
=============================================================================
