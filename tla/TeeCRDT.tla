------------------------------- MODULE TeeCRDT -------------------------------
(***************************************************************************)
(* What Tee promises of its state: a main graph of hypotheses that only    *)
(* ever grows (the Join phase), and for every incident a set of tombstones *)
(* that only ever grows (the Meet phase).  Each step changes one hypothesis *)
(* or one incident and moves it up in its lattice.  Who calls what, and    *)
(* when, is left open.                                                     *)
(***************************************************************************)
EXTENDS TeeStore

VARIABLE state

Init == state = NewState

\* q holds every provenance entry of p, with the timestamp it had in p.
Extends(p, q) ==
  DOMAIN p \subseteq DOMAIN q /\ \A k \in DOMAIN p : q[k] = p[k]

\* A new node enters the main graph.
Hypothesize(id) ==
  /\ id # "" /\ id \notin DOMAIN state.nodes
  /\ state' = [state EXCEPT !.nodes = Put(@, id, state'.nodes[id])]
  /\ WellFormedNode(state'.nodes[id])

\* Type and label are what they were when the node was created; a confirmed
\* node is never hypothetical again; nothing is lost from the provenance.
Strengthen(id) ==
  /\ id \in DOMAIN state.nodes
  /\ state' = [state EXCEPT !.nodes = Put(@, id, state'.nodes[id])]
  /\ LET old == state.nodes[id]
         new == state'.nodes[id]
     IN  /\ new.node_type = old.node_type /\ new.label = old.label
         /\ new.hypothetical => old.hypothetical
         /\ Extends(old.provenance, new.provenance)
         /\ WellFormedNode(new)

Connect(k) ==
  /\ k \notin DOMAIN state.edges
  /\ state' = [state EXCEPT !.edges = Put(@, k, state'.edges[k])]
  /\ WellFormedEdge(k, state'.edges[k])

Corroborate(k) ==
  /\ k \in DOMAIN state.edges
  /\ state' = [state EXCEPT !.edges = Put(@, k, state'.edges[k])]
  /\ Extends(state.edges[k], state'.edges[k])
  /\ WellFormedEdge(k, state'.edges[k])

\* A new incident starts from the whole main graph: nothing is eliminated.
Register(i) ==
  /\ i # "" /\ i \notin DOMAIN state.incidents
  /\ \E now \in Time :
       state' = [state EXCEPT !.incidents = Put(@, i, NewIncident(now))]

\* One more elimination, in one incident only.
EliminateNode(i) ==
  /\ i \in DOMAIN state.incidents
  /\ \E id \in state'.incidents[i].node_tombstones :
       state' = [state EXCEPT !.incidents[i].node_tombstones = @ \cup {id}]

EliminateEdge(i) ==
  /\ i \in DOMAIN state.incidents
  /\ \E k \in state'.incidents[i].edge_tombstones :
       state' = [state EXCEPT !.incidents[i].edge_tombstones = @ \cup {k}]

Next ==
  \/ \E id \in DOMAIN state'.nodes : Hypothesize(id) \/ Strengthen(id)
  \/ \E k \in DOMAIN state'.edges : Connect(k) \/ Corroborate(k)
  \/ \E i \in DOMAIN state'.incidents :
       Register(i) \/ EliminateNode(i) \/ EliminateEdge(i)

Spec == Init /\ [][Next]_state
=============================================================================
