----------------------------- MODULE MCTeeService -----------------------------
(***************************************************************************)
(* Small instances of TeeService: requests that agree, contradict each     *)
(* other, confirm, and stop half way.                                      *)
(***************************************************************************)
EXTENDS TeeService, MCTee

CONSTANTS t1, t2, t3   \* tasks

\* Agent a's hypothesis, twice with different times: a node and an edge to a
\* node that nobody has proposed yet.
Proposal ==
  Merge(<<Node(n1, 1, up, TRUE, <<ByAgent(a, 1)>>),
          Node(n1, 1, up, TRUE, <<ByAgent(a, 0)>>)>>,
        <<Edge(n1, 1, <<ByAgent(a, 1)>>)>>)
\* Agent b confirms the node and corroborates the edge.
Confirmation ==
  Merge(<<Node(n1, 1, up, FALSE, <<ByAgent(b, None)>>)>>,
        <<Edge(n1, 1, <<ByAgent(b, None)>>)>>)
\* Agent b contradicts a's label, then names a node type the schema lacks.
Contradiction ==
  Merge(<<Node(n1, 1, down, TRUE, <<ByAgent(b, 1)>>),
          Node(n2, 9, up, TRUE, <<ByAgent(b, 1)>>)>>, <<>>)
\* Nobody vouches for the node.
Anonymous == Merge(<<Node(n1, 1, up, TRUE, <<ByAgent("", 1)>>)>>, <<>>)

MCTask == {t1, t2}

MCRequests ==
  { Proposal, Confirmation, Contradiction, Anonymous,
    About("CreateIncident", i1), About("CreateIncident", i2),
    EliminateNodes(i1, <<n1, n1>>, ByAgent(a, 1)),
    EliminateEdges(i1, <<1, 9>>, ByAgent(a, 1)),
    About("GetLiveView", i1), About("GetIncidentContext", i1),
    About("GetTombstones", i2), GetMainGraph }

\* The hand-over of the lock: calls that need it alone, calls that share it,
\* and of the latter one that may fail.
FairTask == {t1, t2, t3}
FairRequests ==
  {About("CreateIncident", i1), About("GetTombstones", i1), GetMainGraph}

\* An edge to a node that is tombstoned without having been proposed.
DanglingRequests ==
  { Proposal, About("CreateIncident", i1),
    EliminateNodes(i1, <<n2>>, ByAgent(a, 1)) }
=============================================================================
