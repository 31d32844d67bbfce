------------------------------- MODULE TeeBatch -------------------------------
(***************************************************************************)
(* What one request does to the store and what it is answered, as one      *)
(* function of the whole request: the reference definition of the loops in *)
(* src/src/store/memory.rs, with no position and no intermediate state.    *)
(***************************************************************************)
EXTENDS TeeStore

\* The items that come before the first one with an unknown enum number.
Prefix(items, enum) ==
  {i \in DOMAIN items : \A j \in 1..i : items[j].type \in DOMAIN enum}

NodeItems(r) == Prefix(r.nodes, NodeType)

\* No edge is looked at unless every node was.
EdgeItems(r) ==
  IF NodeItems(r) = DOMAIN r.nodes THEN Prefix(r.edges, EdgeType) ELSE {}

Least(S) == CHOOSE i \in S : \A j \in S : i <= j

\* The entry that a set of provenance lists, in order, contributes for k.
FirstTimestamp(lists, I, k) ==
  LET i == Least({j \in I : k \in Identities(lists[j].provenance)})
  IN  CollectProvenance(lists[i].provenance)[k]

\* Mutation: a later timestamp replaces the one on record.
AccumulateAnew(old, lists, I) ==
  LET new == UNION {Identities(lists[i].provenance) : i \in I}
  IN  [k \in DOMAIN old \cup new |->
         IF k \in new THEN FirstTimestamp(lists, I, k) ELSE old[k]]

\* The provenance old after the items I of lists were merged into it.
Accumulate(old, lists, I) ==
  [k \in DOMAIN old \cup UNION {Identities(lists[i].provenance) : i \in I} |->
     IF k \in DOMAIN old THEN old[k] ELSE FirstTimestamp(lists, I, k)]

-----------------------------------------------------------------------------
(* merge_hypothesis: for each node id the first value ever written is the  *)
(* anchor, the items that agree with it are accepted.                      *)

NodeItemsFor(r, id) == {i \in NodeItems(r) : r.nodes[i].id = id}

Anchor(s, r, id) ==
  IF id \in DOMAIN s.nodes THEN s.nodes[id]
  ELSE ProtoNodeToDomain(r.nodes[Least(NodeItemsFor(r, id))])

Agrees(s, r, i) ==
  LET n == ProtoNodeToDomain(r.nodes[i])
      anchor == Anchor(s, r, r.nodes[i].id)
  IN  n.node_type = anchor.node_type /\ n.label = anchor.label

NodeAfter(s, r, id) ==
  LET anchor   == Anchor(s, r, id)
      accepted == {i \in NodeItemsFor(r, id) : Agrees(s, r, i)}
      old == IF id \in DOMAIN s.nodes THEN anchor.provenance ELSE EmptyMap
  IN  [ node_type    |-> anchor.node_type,
        label        |-> anchor.label,
        hypothetical |->
          anchor.hypothetical /\ \A i \in accepted : r.nodes[i].hypothetical,
        provenance   |-> Accumulate(old, r.nodes, accepted) ]

EdgeItemsFor(r, k) == {i \in EdgeItems(r) : ProtoEdgeKey(r.edges[i]) = k}

EdgeAfter(s, r, k) ==
  Accumulate(IF k \in DOMAIN s.edges THEN s.edges[k] ELSE EmptyMap,
             r.edges, EdgeItemsFor(r, k))

Merged(s, r) ==
  [ s EXCEPT
      !.nodes = [id \in DOMAIN @ \cup {r.nodes[i].id : i \in NodeItems(r)} |->
                   NodeAfter(s, r, id)],
      !.edges = [k \in DOMAIN @ \cup {ProtoEdgeKey(r.edges[i]) : i \in EdgeItems(r)} |->
                   EdgeAfter(s, r, k)] ]

\* Mutation: a request is told of one conflict for each node.
NodeEntryOnce(s, r, i) ==
  LET id == r.nodes[i].id
      anchor == Anchor(s, r, id)
      told == \E j \in NodeItemsFor(r, id) : j < i /\ ~ Agrees(s, r, j)
  IN  IF Agrees(s, r, i) \/ told
      THEN [ id |-> id,
             outcome |-> IF id \notin DOMAIN s.nodes /\ i = Least(NodeItemsFor(r, id))
                         THEN "created" ELSE "merged" ]
      ELSE [ id |-> id, outcome |-> "conflict", field |-> "label",
             existing_value |-> anchor.label ]

NodeEntry(s, r, i) ==
  LET id == r.nodes[i].id
      anchor == Anchor(s, r, id)
      field == IF NodeType[r.nodes[i].type] # anchor.node_type THEN "type" ELSE "label"
  IN  IF Agrees(s, r, i)
      THEN [ id |-> id,
             outcome |-> IF id \notin DOMAIN s.nodes /\ i = Least(NodeItemsFor(r, id))
                         THEN "created" ELSE "merged" ]
      ELSE [ id |-> id, outcome |-> "conflict", field |-> field,
             existing_value |-> IF field = "type" THEN anchor.node_type
                                ELSE anchor.label ]

EdgeEntry(s, r, i) ==
  LET k == ProtoEdgeKey(r.edges[i])
  IN  [ id |-> k,
        outcome |-> IF k \notin DOMAIN s.edges /\ i = Least(EdgeItemsFor(r, k))
                    THEN "created" ELSE "merged" ]

-----------------------------------------------------------------------------
(* The tombstone merges.                                                   *)

EntryItems(r) == Prefix(r.entries, EdgeType)

\* The ids or keys that a tombstone request names, in order.
Named(r) ==
  IF r.rpc = "MergeNodeTombstones" THEN r.node_ids
  ELSE [i \in EntryItems(r) |-> ProtoEdgeKey(r.entries[i])]

\* Mutation: a tombstone for an unknown node is reported and not stored.
TombstonedKnown(s, r) ==
  LET new == {Named(r)[i] : i \in DOMAIN Named(r)}
  IN  IF r.rpc = "MergeNodeTombstones"
      THEN [s EXCEPT !.incidents[r.incident_id].node_tombstones =
              @ \cup (new \cap DOMAIN s.nodes)]
      ELSE [s EXCEPT !.incidents[r.incident_id].edge_tombstones = @ \cup new]

Tombstoned(s, r) ==
  LET new == {Named(r)[i] : i \in DOMAIN Named(r)}
  IN  IF r.rpc = "MergeNodeTombstones"
      THEN [s EXCEPT !.incidents[r.incident_id].node_tombstones = @ \cup new]
      ELSE [s EXCEPT !.incidents[r.incident_id].edge_tombstones = @ \cup new]

TombstoneEntry(s, r, i) ==
  LET incident == s.incidents[r.incident_id]
      earlier  == {Named(r)[j] : j \in 1..(i - 1)}
  IN  [ id |-> Named(r)[i],
        outcome |-> IF r.rpc = "MergeNodeTombstones"
                    THEN Marking(Named(r)[i], incident.node_tombstones \cup earlier,
                                 DOMAIN s.nodes)
                    ELSE Marking(Named(r)[i], incident.edge_tombstones \cup earlier,
                                 DOMAIN s.edges) ]

-----------------------------------------------------------------------------
(* The whole request.                                                      *)

\* Every item has a known enum number.
Complete(r) ==
  /\ r.rpc = "MergeHypothesis" =>
       NodeItems(r) = DOMAIN r.nodes /\ EdgeItems(r) = DOMAIN r.edges
  /\ r.rpc = "MergeEdgeTombstones" => EntryItems(r) = DOMAIN r.entries

StatusOf(s, r) ==
  IF ~ Registered(s, r) THEN "NotFound" ELSE IF Complete(r) THEN "Ok" ELSE "Internal"

\* The store after r was served at the instant now.
After(s, r, now) ==
  CASE ~ Registered(s, r) -> s
    [] Registered(s, r) /\ r.rpc = "MergeHypothesis" -> Merged(s, r)
    [] Registered(s, r) /\ r.rpc \in TombstoneRpcs -> Tombstoned(s, r)
    [] r.rpc = "CreateIncident" /\ r.incident_id \notin DOMAIN s.incidents ->
         [s EXCEPT !.incidents = Put(@, r.incident_id, NewIncident(now))]
    [] OTHER -> s

ReportOf(s, r) ==
  CASE StatusOf(s, r) # "Ok" -> <<>>
    [] StatusOf(s, r) = "Ok" /\ r.rpc = "MergeHypothesis" ->
         [i \in DOMAIN r.nodes |-> NodeEntry(s, r, i)]
           \o [i \in DOMAIN r.edges |-> EdgeEntry(s, r, i)]
    [] StatusOf(s, r) = "Ok" /\ r.rpc \in TombstoneRpcs ->
         [i \in DOMAIN Named(r) |-> TombstoneEntry(s, r, i)]
    [] r.rpc = "CreateIncident" ->
         << [ id |-> r.incident_id,
              outcome |-> IF r.incident_id \in DOMAIN s.incidents
                          THEN "existed" ELSE "created" ] >>
    [] OTHER -> <<>>

ViewOf(s, r) ==
  IF StatusOf(s, r) = "Ok" /\ r.rpc \notin WriteRpcs THEN View(s, r) ELSE NoView
=============================================================================
