-------------------------------- MODULE MCTee --------------------------------
(***************************************************************************)
(* What the instances for TLC share: the strings in play, and short forms  *)
(* for messages about two nodes and the edges from the first to the second. *)
(***************************************************************************)
EXTENDS Naturals

CONSTANTS n1, n2, up, down, a, b, alert, i1, i2

MCStr == {n1, n2, up, down, a, b, alert, i1, i2}
MCTime == {0, 1}

ByAgent(agent, time) == [source |-> agent, trigger |-> alert, timestamp |-> time]

Node(id, type, label, hyp, ps) ==
  [ id |-> id, type |-> type, label |-> label, hypothetical |-> hyp,
    provenance |-> ps ]

Edge(source, type, ps) ==
  [source |-> source, target |-> n2, type |-> type, provenance |-> ps]

Merge(ns, es) == [rpc |-> "MergeHypothesis", nodes |-> ns, edges |-> es]

EliminateNodes(i, ids, p) ==
  [ rpc |-> "MergeNodeTombstones", incident_id |-> i, node_ids |-> ids,
    provenance |-> p ]

\* types: the types of the edges to eliminate, all from n1 to n2.
EliminateEdges(i, types, p) ==
  [ rpc |-> "MergeEdgeTombstones", incident_id |-> i,
    entries |-> [j \in DOMAIN types |->
                   [source |-> n1, target |-> n2, type |-> types[j]]],
    provenance |-> p ]

About(rpc, i) == [rpc |-> rpc, incident_id |-> i]

GetMainGraph == [rpc |-> "GetMainGraph"]
=============================================================================
