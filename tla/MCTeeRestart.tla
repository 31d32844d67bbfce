------------------------------ MODULE MCTeeRestart -----------------------------
(* A small instance of TeeRestart: one incident and one elimination.       *)
EXTENDS TeeRestart, MCTee

CONSTANTS t1, t2   \* tasks

MCTask == {t1, t2}
EpochOnly == {0}

MCRequests ==
  { About("CreateIncident", i1), EliminateNodes(i1, <<n1>>, ByAgent(a, 0)) }
=============================================================================
