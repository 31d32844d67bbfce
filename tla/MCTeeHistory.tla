----------------------------- MODULE MCTeeHistory -----------------------------
(***************************************************************************)
(* A small instance of TeeHistory: requests that repeat and contradict     *)
(* themselves, and that stop at every kind of item.                        *)
(***************************************************************************)
EXTENDS TeeHistory, MCTee

CONSTANTS t1, t2   \* tasks

\* One id proposed four times: as new, with another label, confirmed by two
\* agents (a again, at another time), and with another type.
Repetition ==
  Merge(<<Node(n1, 1, up, TRUE, <<ByAgent(a, 1), ByAgent(a, 0)>>),
          Node(n1, 1, down, FALSE, <<ByAgent(b, 1)>>),
          Node(n1, 1, up, FALSE, <<ByAgent(b, None), ByAgent(a, 1)>>),
          Node(n1, 2, down, TRUE, <<ByAgent(b, 1)>>)>>,
        <<Edge(n1, 1, <<ByAgent(a, 1)>>), Edge(n1, 1, <<ByAgent(b, 1), ByAgent(a, 0)>>)>>)
\* The other label first, and an edge whose type is not in the schema between
\* two that are.
Rival ==
  Merge(<<Node(n1, 1, down, TRUE, <<ByAgent(b, 1)>>)>>,
        <<Edge(n1, 1, <<ByAgent(b, None)>>), Edge(n1, 4, <<ByAgent(b, 1)>>),
          Edge(n1, 2, <<ByAgent(b, 1)>>)>>)
\* A node type that is not in the schema: the edge is not looked at.
Truncated ==
  Merge(<<Node(n2, 2, up, FALSE, <<ByAgent(b, 1)>>),
          Node(n1, 5, up, TRUE, <<ByAgent(b, 1)>>)>>,
        <<Edge(n1, 1, <<ByAgent(b, 1)>>)>>)

MCTask == {t1, t2}

MCRequests ==
  { Repetition, Rival, Truncated, Merge(<<>>, <<>>),
    About("CreateIncident", i1),
    EliminateNodes(i1, <<n1, "", n1>>, ByAgent(a, 1)),
    EliminateEdges(i1, <<1, 2, 1>>, ByAgent(a, 1)),
    EliminateEdges(i1, <<2, -1, 1>>, ByAgent(a, 1)),
    About("GetLiveView", i1), GetMainGraph }
=============================================================================
