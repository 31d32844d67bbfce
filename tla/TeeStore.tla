------------------------------- MODULE TeeStore -------------------------------
(***************************************************************************)
(* The state InMemoryStore keeps behind its lock (struct InnerState of     *)
(* src/src/store/memory.rs), and what the read handlers compute from it.   *)
(* A state s is a record of three BTreeMaps: s.nodes, s.edges and          *)
(* s.incidents.                                                            *)
(***************************************************************************)
EXTENDS TeeSchema

EmptyMap == [x \in {} |-> None]

\* InnerState::default()
NewState == [nodes |-> EmptyMap, edges |-> EmptyMap, incidents |-> EmptyMap]

NewIncident(now) ==
  [created_at |-> now, node_tombstones |-> {}, edge_tombstones |-> {}]

IncidentState ==
  [ created_at : Time, node_tombstones : SUBSET Text,
    edge_tombstones : SUBSET AnyEdgeKey ]

IsState(s) ==
  /\ s = [nodes |-> s.nodes, edges |-> s.edges, incidents |-> s.incidents]
  /\ s.nodes = [id \in DOMAIN s.nodes |-> s.nodes[id]]
  /\ DOMAIN s.nodes \subseteq Text /\ \A id \in DOMAIN s.nodes : IsNode(s.nodes[id])
  /\ s.edges = [k \in DOMAIN s.edges |-> s.edges[k]]
  /\ DOMAIN s.edges \subseteq AnyEdgeKey
  /\ \A k \in DOMAIN s.edges : IsProvenance(s.edges[k])
  /\ IsMap(s.incidents, Text, IncidentState)

-----------------------------------------------------------------------------
\* The filters of get_live_view.
LiveNodes(s, i) == DOMAIN s.nodes \ s.incidents[i].node_tombstones

\* Mutation: the target of an edge is not looked at.
LiveEdgesBySource(s, i) ==
  {k \in DOMAIN s.edges :
     /\ k \notin s.incidents[i].edge_tombstones
     /\ k[1] \notin s.incidents[i].node_tombstones}

LiveEdges(s, i) ==
  {k \in DOMAIN s.edges :
     /\ k \notin s.incidents[i].edge_tombstones
     /\ k[1] \notin s.incidents[i].node_tombstones
     /\ k[2] \notin s.incidents[i].node_tombstones}

\* The early return of every handler that names an incident.
Registered(s, r) == r.rpc \in IncidentRpcs => r.incident_id \in DOMAIN s.incidents

\* What a read handler collects first (nodes, or the ids of the tombstoned
\* ones) and then (edges, or the entries of the tombstoned ones).
NodesRead(s, r) ==
  CASE r.rpc = "GetMainGraph" ->
         {DomainNodeToProto(id, s.nodes[id]) : id \in DOMAIN s.nodes}
    [] r.rpc = "GetLiveView" ->
         {DomainNodeToProto(id, s.nodes[id]) : id \in LiveNodes(s, r.incident_id)}
    [] OTHER -> s.incidents[r.incident_id].node_tombstones

EdgesRead(s, r) ==
  CASE r.rpc = "GetMainGraph" ->
         {DomainEdgeToProto(k, s.edges[k]) : k \in DOMAIN s.edges}
    [] r.rpc = "GetLiveView" ->
         {DomainEdgeToProto(k, s.edges[k]) : k \in LiveEdges(s, r.incident_id)}
    [] OTHER -> {EdgeTombstoneEntryOf(k) :
                   k \in s.incidents[r.incident_id].edge_tombstones}

\* Only get_incident_context answers with the creation time.
CreatedAtRead(s, r) ==
  IF r.rpc = "GetIncidentContext"
  THEN s.incidents[r.incident_id].created_at ELSE None

NoView == [nodes |-> {}, edges |-> {}, created_at |-> None]

View(s, r) ==
  [ nodes |-> NodesRead(s, r), edges |-> EdgesRead(s, r),
    created_at |-> CreatedAtRead(s, r) ]

-----------------------------------------------------------------------------
\* Mutation: the main graph is asked before the incident.
MarkingKnownFirst(id, marked, known) ==
  IF id \in known THEN "applied"
  ELSE IF id \in marked THEN "already_tombstoned" ELSE "unmatched"

\* What merging a tombstone reports: marked is the incident's tombstone set
\* before it, known the ids or keys of the main graph.
Marking(id, marked, known) ==
  IF id \in marked THEN "already_tombstoned"
  ELSE IF id \in known THEN "applied" ELSE "unmatched"
=============================================================================
