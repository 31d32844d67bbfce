----------------------------- MODULE MCTeeRecovery -----------------------------
(***************************************************************************)
(* A small instance of TeeRecovery: agents propose an edge with its        *)
(* target and register the incident; CMBS and others eliminate, also what  *)
(* nobody has proposed yet.                                                *)
(***************************************************************************)
EXTENDS TeeRecovery, MCTee, TLC

CONSTANTS t1, t2, t3   \* tasks

MCTask == {t1, t2, t3}
EpochOnly == {0}

Proposal ==
  Merge(<<Node(n2, 1, up, TRUE, <<ByAgent(a, 0)>>)>>,
        <<Edge(n1, 1, <<ByAgent(a, 0)>>)>>)

MCRequests ==
  { Proposal, About("CreateIncident", i1),
    EliminateNodes(i1, <<n2, n2>>, ByAgent(a, 0)),
    EliminateEdges(i1, <<1, 9>>, ByAgent(a, 0)),
    EliminateEdges(i1, <<1>>, ByAgent(a, 0)) }

Symmetry == Permutations(MCTask)
=============================================================================
