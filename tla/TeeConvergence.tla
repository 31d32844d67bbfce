---------------------------- MODULE TeeConvergence ----------------------------
(***************************************************************************)
(* Does the order of the calls matter?  Several replays of Tee serve the   *)
(* same requests, each in an order of its own and any request any number   *)
(* of times.  Beside each store the replay keeps what domain/graph.rs      *)
(* describes: the composite lattice into which every proposal is merged,   *)
(* conflict or not.                                                        *)
(***************************************************************************)
EXTENDS TeeBatch, FiniteSets

CONSTANTS
  Replay,   \* the replays compared
  Requests  \* the requests they serve

ASSUME WriteAssumption ==
  \A r \in Requests : r \in Message /\ Valid(r) /\ r.rpc \in WriteRpcs

VARIABLES
  store,   \* the store of each replay
  served,  \* the requests that have taken effect in it
  join,    \* the lattice of all the proposals in them
  told     \* the verdicts that callers were given: <<request, position, verdict>>

vars == <<store, served, join, told>>

\* MapUnion::merge: the keys of both maps; merged gives the values of the keys
\* that both have.
MapUnion(m, d, merged) ==
  [k \in DOMAIN m \cup DOMAIN d |->
     IF k \in DOMAIN merged THEN merged[k] ELSE IF k \in DOMAIN m THEN m[k] ELSE d[k]]

NodeMapMerge(m, d) ==
  MapUnion(m, d, [id \in DOMAIN m \cap DOMAIN d |-> NodeMerge(m[id], d[id])])

\* MapUnion::merge passes over the values that are the bottom of their lattice:
\* no node is, and an edge is without provenance.
Solid(d) == [k \in {j \in DOMAIN d : DOMAIN d[j] # {}} |-> d[k]]

EdgeMapMerge(m, d) ==
  MapUnion(m, Solid(d), [k \in DOMAIN m \cap DOMAIN Solid(d) |-> EdgeMerge(m[k], d[k])])

Singleton(k, v) == [x \in {k} |-> v]

NodeDelta(r, i) == Singleton(r.nodes[i].id, ProtoNodeToDomain(r.nodes[i]))

EdgeDelta(r, i) ==
  Singleton(ProtoEdgeKey(r.edges[i]), CollectProvenance(r.edges[i].provenance))

\* The maps that come of m when the items of r are merged into it one by one.
NodesJoined(m, r) ==
  LET f[i \in 0..Cardinality(NodeItems(r))] ==
        IF i = 0 THEN m ELSE NodeMapMerge(f[i - 1], NodeDelta(r, i))
  IN  f

EdgesJoined(m, r) ==
  LET f[i \in 0..Cardinality(EdgeItems(r))] ==
        IF i = 0 THEN m ELSE EdgeMapMerge(f[i - 1], EdgeDelta(r, i))
  IN  f

NewGraph == [nodes |-> EmptyMap, edges |-> EmptyMap]

\* The lattice g with all that r proposes merged into it.
Joined(g, r) ==
  IF r.rpc # "MergeHypothesis" THEN g
  ELSE [ nodes |-> NodesJoined(g.nodes, r)[Cardinality(NodeItems(r))],
         edges |-> EdgesJoined(g.edges, r)[Cardinality(EdgeItems(r))] ]

\* What report says of each node that r proposes.
Answers(r, report) ==
  IF r.rpc # "MergeHypothesis" THEN {}
  ELSE {<<r, i, IF report[i].outcome = "conflict" THEN "conflict" ELSE "accepted">> :
          i \in DOMAIN r.nodes \cap DOMAIN report}

Init ==
  /\ store = [p \in Replay |-> NewState]
  /\ served = [p \in Replay |-> {}]
  /\ join = [p \in Replay |-> NewGraph]
  /\ told = [p \in Replay |-> {}]

\* A request whose incident is not registered takes no effect; it may come again.
Serve(p, r) ==
  /\ StatusOf(store[p], r) # "NotFound"
  /\ \E now \in Time : store' = [store EXCEPT ![p] = After(@, r, now)]
  /\ served' = [served EXCEPT ![p] = @ \cup {r}]
  /\ join' = [join EXCEPT ![p] = Joined(@, r)]
  /\ told' = [told EXCEPT ![p] = @ \cup Answers(r, ReportOf(store[p], r))]

Next == \E p \in Replay, r \in Requests : Serve(p, r)

Spec == Init /\ [][Next]_vars

-----------------------------------------------------------------------------
(* Properties.                                                             *)

\* The nodes for which the proposals contradict each other.
Disputed(p) == {id \in DOMAIN join[p].nodes : HasConflict(join[p].nodes[id])}

\* A node without the timestamps of its provenance.
Timeless(l) == [l EXCEPT !.provenance = DOMAIN @]

Nodes(p, ids) == [id \in ids |-> Timeless(store[p].nodes[id])]

\* All that the order of the calls must not decide: not the fields of disputed
\* nodes, not the timestamps, not an incident's time of creation.
Settled(p) ==
  [ ids |-> DOMAIN store[p].nodes,
    disputed |-> Disputed(p),
    nodes |-> Nodes(p, DOMAIN store[p].nodes \ Disputed(p)),
    edges |-> [k \in DOMAIN store[p].edges |-> DOMAIN store[p].edges[k]],
    eliminated |-> [i \in DOMAIN store[p].incidents |->
                      <<store[p].incidents[i].node_tombstones,
                        store[p].incidents[i].edge_tombstones>>] ]

\* Strong convergence (CRDT_Safe.md, README "Concurrent writes"): replays that
\* have served the same requests, whatever the order, the repetitions and the
\* requests that stopped half way, agree on everything that is not disputed,
\* and on what is disputed.
StrongConvergence ==
  \A p, q \in Replay : served[p] = served[q] => Settled(p) = Settled(q)

\* First-write-wins and the lattice of domain/graph.rs meet: the store, which
\* merges each item into a clone and throws the conflicting ones away, is the
\* join of all proposals, timestamps included, wherever the join is no
\* conflict; elsewhere it is below it and not in conflict.
StoreIsJoin ==
  \A p \in Replay :
    /\ store[p].edges = join[p].edges
    /\ DOMAIN store[p].nodes = DOMAIN join[p].nodes
    /\ \A id \in DOMAIN store[p].nodes \ Disputed(p) :
         store[p].nodes[id] = join[p].nodes[id]
    /\ \A id \in Disputed(p) :
         LET l == store[p].nodes[id]
         IN  /\ ~ HasConflict(l)
             /\ join[p].nodes[id].hypothetical => l.hypothetical
             /\ DOMAIN l.provenance \subseteq DOMAIN join[p].nodes[id].provenance

\* The verdicts on the i-th node of r that callers were given.
Verdicts(p, r, i) == {x[3] : x \in {y \in told[p] : y[1] = r /\ y[2] = i}}

\* No hypothesis is dropped in silence: every proposed node is wholly in the
\* store, or it contradicts what is there.  Each of its callers was told which,
\* item by item and the same at every repetition; the one excuse is that this
\* request itself, and not another one, was answered with an error.
DisputesAreTold ==
  \A p \in Replay : \A r \in {q \in served[p] : q.rpc = "MergeHypothesis"} :
    \A i \in NodeItems(r) :
      LET l      == store[p].nodes[r.nodes[i].id]
          merged == NodeMerge(l, ProtoNodeToDomain(r.nodes[i]))
      IN  /\ HasConflict(merged) \/ merged = l
          /\ Complete(r) =>
               Verdicts(p, r, i) = {IF HasConflict(merged) THEN "conflict" ELSE "accepted"}

\* docs/architecture-overview.md:73, "Two agents submitting hypotheses in
\* either order produce the same graph."
OrderIndependent ==
  \A p, q \in Replay :
    served[p] = served[q] =>
      Nodes(p, DOMAIN store[p].nodes) = Nodes(q, DOMAIN store[q].nodes)
=============================================================================
