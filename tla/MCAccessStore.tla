--------------------------- MODULE MCAccessStore ---------------------------
(* A small server: two CLI threads that change the tables at once, one     *)
(* client thread that checks a card meanwhile.                             *)
EXTENDS AccessStore, TLC

CONSTANTS n1, n2, u1, u2, d1, cli1, cli2, client1, client2

NamesMC == {n1, n2}
UidsMC == {u1, u2}
DoorsMC == {d1}
CliThreadsMC == {cli1, cli2}
ClientThreadsMC == {client1}

\* With a modulus of 2 the level 2 is stored as 0.
TypedLevelsMC == {1, 2}

\* Nothing yet; and a file edited by hand, whose first user is overridden by
\* name in the third entry and by card in the second, its first door by the next.
ShadowingFile(n, m, u, v) ==
    [users |-> <<[name |-> n, uid |-> u, level |-> 1],
                 [name |-> m, uid |-> u, level |-> 0],
                 [name |-> n, uid |-> v, level |-> 1]>>,
     doors |-> <<[name |-> d1, level |-> 0], [name |-> d1, level |-> 1]>>]
InitialFilesMC ==
    {NoText, ShadowingFile(n1, n2, u1, u2), ShadowingFile(n1, n2, u2, u1),
     ShadowingFile(n2, n1, u1, u2), ShadowingFile(n2, n1, u2, u1)}

\* A full disk, and a directory that may not be written.
FaultsMC == {"write", "rename"}

\* For liveness: the least that can be added, removed and checked, and two
\* threads on either side to keep each other waiting.
FewNames == {n1}
FewUids == {u1}
FewLevels == {1}
TwoClientThreads == {client1, client2}
FewFiles == {NoText}

\* Nothing tells two names, two cards or two threads apart.
SymmetryMC == Permutations(NamesMC) \cup Permutations(UidsMC)
                \cup Permutations(CliThreadsMC)
=============================================================================
