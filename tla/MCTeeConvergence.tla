--------------------------- MODULE MCTeeConvergence ---------------------------
(***************************************************************************)
(* A small instance of TeeConvergence: two replays of proposals that       *)
(* agree, contradict each other in label and in type, and stop half way,   *)
(* and of eliminations that may come before what they name.                *)
(***************************************************************************)
EXTENDS TeeConvergence, MCTee, TLC

CONSTANTS p1, p2   \* replays

\* Agent a's hypothesis, which names an agent twice.
Proposal ==
  Merge(<<Node(n1, 1, up, TRUE, <<ByAgent(a, 0), ByAgent(a, 1)>>),
          Node(n2, 1, up, TRUE, <<ByAgent(a, 1)>>)>>,
        <<Edge(n1, 1, <<ByAgent(a, 1)>>)>>)
\* Agent b confirms one node, and contradicts the label and the type of the other.
Confirmation ==
  Merge(<<Node(n1, 1, up, FALSE, <<ByAgent(b, None)>>),
          Node(n2, 1, down, TRUE, <<ByAgent(b, 1)>>),
          Node(n2, 2, down, TRUE, <<ByAgent(b, 1)>>)>>,
        <<Edge(n1, 1, <<ByAgent(b, 0)>>)>>)
\* Another type, in a request that cannot be completed.
Rival ==
  Merge(<<Node(n1, 2, up, TRUE, <<ByAgent(b, 1)>>),
          Node(n2, 9, up, TRUE, <<ByAgent(b, 1)>>)>>, <<>>)
\* Agent a again, at another time.
Reminder == Merge(<<Node(n1, 1, up, TRUE, <<ByAgent(a, 0)>>)>>, <<>>)

MCReplay == {p1, p2}

MCRequests ==
  { Proposal, Confirmation, Rival, Reminder, About("CreateIncident", i1),
    EliminateNodes(i1, <<n1, n1>>, ByAgent(a, 1)),
    EliminateEdges(i1, <<1, 9>>, ByAgent(a, 1)) }

\* Two agents and one node.
RivalRequests ==
  { Merge(<<Node(n1, 1, up, TRUE, <<ByAgent(a, 1)>>)>>, <<>>),
    Merge(<<Node(n1, 1, down, TRUE, <<ByAgent(b, 1)>>)>>, <<>>) }

Symmetry == Permutations(MCReplay)
=============================================================================
