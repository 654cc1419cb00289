-------------------------- MODULE MCAccessHistory --------------------------
(* One CLI thread is enough to lose what was promised; nobody checks cards. *)
EXTENDS AccessHistory

CONSTANTS n1, u1, u2, d1, cli1

NamesMC == {n1}
UidsMC == {u1, u2}
DoorsMC == {d1}
CliThreadsMC == {cli1}
ClientThreadsMC == {}
TypedLevelsMC == {1}
InitialFilesMC == {NoText}
FaultsMC == {}
=============================================================================
