------------------------------- MODULE TeeEdgeId -------------------------------
(***************************************************************************)
(* The ids in the result of merge_hypothesis (memory.rs:62-138) as the     *)
(* text they are.  A node is reported by its id, an edge by                *)
(* format!("{}->{}:{}", source, target, type), in the same lists.  A text  *)
(* is a sequence of characters.  One delta after another, of one item      *)
(* each, is merged; conflicts are left out, for they touch no list here.   *)
(***************************************************************************)
EXTENDS Integers, Sequences

CONSTANTS
  Name,   \* the node ids that agents use, as sequences of characters
  Type    \* the wire numbers of edge types, each printed as one character

VARIABLES
  nodes,   \* the ids of the stored nodes
  edges,   \* the keys of the stored edges
  result   \* the entry of the last answer, in created_ids or merged_ids

vars == <<nodes, edges, result>>

EdgeId(k) == k.source \o <<"-", ">">> \o k.target \o <<":", k.type>>

\* Validation refuses self-loops.
Keys == {k \in [source : Name, target : Name, type : Type] : k.source # k.target}

Init == nodes = {} /\ edges = {} /\ result = [id |-> <<>>, outcome |-> "none"]

Report(id, known) ==
  [id |-> id, outcome |-> IF known THEN "merged" ELSE "created"]

MergeNode(id) ==
  /\ nodes' = nodes \cup {id}
  /\ result' = Report(id, id \in nodes)
  /\ UNCHANGED edges

MergeEdge(k) ==
  /\ edges' = edges \cup {k}
  /\ result' = Report(EdgeId(k), k \in edges)
  /\ UNCHANGED nodes

Next == (\E id \in Name : MergeNode(id)) \/ (\E k \in Keys : MergeEdge(k))

Spec == Init /\ [][Next]_vars

-----------------------------------------------------------------------------
\* README:106, "Merge results distinguish new writes from idempotent no-ops so
\* callers never need a follow-up query": the caller knows an item by the id in
\* the answer, so an id that is reported as created is not the id of anything
\* that was stored before.
CreatedMeansNew ==
  [][result'.outcome = "created" =>
       result'.id \notin nodes \cup {EdgeId(k) : k \in edges}]_vars
=============================================================================
