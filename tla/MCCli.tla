-------------------------------- MODULE MCCli --------------------------------
(* An administrator, a pool of two threads, and a name of any kind.         *)
EXTENDS Cli

CONSTANT admin

AdminsMC == {admin}

\* A character no name may have.
NoNamesMC == {<<"-">>}

\* One number that fits and one that does not.
NumbersMC == {1, 5}
=============================================================================
