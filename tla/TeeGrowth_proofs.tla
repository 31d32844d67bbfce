---------------------------- MODULE TeeGrowth_proofs ---------------------------
(***************************************************************************)
(* The store only grows: TeeService implements TeeCRDT.  What follows from *)
(* that for the service: its answers stay true, one writer of an item is   *)
(* credited with it, and an answered write is absorbed when repeated.      *)
(***************************************************************************)
EXTENDS TeeService_proofs

-----------------------------------------------------------------------------
(* The abstract store speaks of the same maps and of the same schema.      *)

LEMMA SameOperators ==
  /\ CRDT!NewState = NewState
  /\ \A m, k, v : CRDT!Put(m, k, v) = Put(m, k, v)
  /\ \A now : CRDT!NewIncident(now) = NewIncident(now)
  /\ \A l : CRDT!WellFormedNode(l) <=> WellFormedNode(l)
  /\ \A k, l : CRDT!WellFormedEdge(k, l) <=> WellFormedEdge(k, l)
BY DEF CRDT!NewState, NewState, CRDT!EmptyMap, EmptyMap, CRDT!Put, Put,
   CRDT!NewIncident, NewIncident, CRDT!WellFormedNode, WellFormedNode,
   CRDT!WellFormedEdge, WellFormedEdge, CRDT!Attributed, Attributed,
   CRDT!NodeTypes, NodeTypes, CRDT!NodeType, NodeType,
   CRDT!EdgeTypes, EdgeTypes, CRDT!EdgeType, EdgeType

-----------------------------------------------------------------------------
(* The shape of a step that stores one item.                               *)

LEMMA NodeStored ==
  ASSUME TypeOK, NEW id, NEW l, state' = [state EXCEPT !.nodes = Put(@, id, l)]
  PROVE  /\ state'.nodes = Put(state.nodes, id, l)
         /\ state'.edges = state.edges /\ state'.incidents = state.incidents
         /\ id \in DOMAIN state'.nodes /\ state'.nodes[id] = l
<1>1. state = [nodes |-> state.nodes, edges |-> state.edges,
               incidents |-> state.incidents]
  BY DEF TypeOK, IsState
<1>2. id \in DOMAIN Put(state.nodes, id, l) /\ Put(state.nodes, id, l)[id] = l
  BY DEF Put
<1> QED
  BY <1>1, <1>2

LEMMA EdgeStored ==
  ASSUME TypeOK, NEW k, NEW l, state' = [state EXCEPT !.edges = Put(@, k, l)]
  PROVE  /\ state'.edges = Put(state.edges, k, l)
         /\ state'.nodes = state.nodes /\ state'.incidents = state.incidents
         /\ k \in DOMAIN state'.edges /\ state'.edges[k] = l
<1>1. state = [nodes |-> state.nodes, edges |-> state.edges,
               incidents |-> state.incidents]
  BY DEF TypeOK, IsState
<1>2. k \in DOMAIN Put(state.edges, k, l) /\ Put(state.edges, k, l)[k] = l
  BY DEF Put
<1> QED
  BY <1>1, <1>2

\* The item at which a tombstone merge is.
LEMMA TombstoneStored ==
  ASSUME TypeOK, NEW i \in DOMAIN state.incidents, NEW N, NEW E
  PROVE  /\ state' = [state EXCEPT !.incidents[i].node_tombstones = @ \cup N] =>
              /\ state'.nodes = state.nodes /\ state'.edges = state.edges
              /\ DOMAIN state'.incidents = DOMAIN state.incidents
              /\ \A j \in DOMAIN state.incidents \ {i} :
                   state'.incidents[j] = state.incidents[j]
              /\ state'.incidents[i]
                   = [state.incidents[i] EXCEPT !.node_tombstones = @ \cup N]
              /\ state'.incidents[i].node_tombstones
                   = state.incidents[i].node_tombstones \cup N
              /\ state'.incidents[i].edge_tombstones
                   = state.incidents[i].edge_tombstones
         /\ state' = [state EXCEPT !.incidents[i].edge_tombstones = @ \cup E] =>
              /\ state'.nodes = state.nodes /\ state'.edges = state.edges
              /\ DOMAIN state'.incidents = DOMAIN state.incidents
              /\ \A j \in DOMAIN state.incidents \ {i} :
                   state'.incidents[j] = state.incidents[j]
              /\ state'.incidents[i]
                   = [state.incidents[i] EXCEPT !.edge_tombstones = @ \cup E]
              /\ state'.incidents[i].edge_tombstones
                   = state.incidents[i].edge_tombstones \cup E
              /\ state'.incidents[i].node_tombstones
                   = state.incidents[i].node_tombstones
<1>1. /\ state = [nodes |-> state.nodes, edges |-> state.edges,
                  incidents |-> state.incidents]
      /\ state.incidents = [j \in DOMAIN state.incidents |-> state.incidents[j]]
  BY DEF TypeOK, IsState, IsMap
<1>2. state.incidents[i] \in IncidentState
  BY IncidentType
<1>3. /\ [state.incidents[i] EXCEPT !.node_tombstones = @ \cup N].node_tombstones
           = state.incidents[i].node_tombstones \cup N
      /\ [state.incidents[i] EXCEPT !.node_tombstones = @ \cup N].edge_tombstones
           = state.incidents[i].edge_tombstones
      /\ [state.incidents[i] EXCEPT !.edge_tombstones = @ \cup E].edge_tombstones
           = state.incidents[i].edge_tombstones \cup E
      /\ [state.incidents[i] EXCEPT !.edge_tombstones = @ \cup E].node_tombstones
           = state.incidents[i].node_tombstones
  BY <1>2 DEF IncidentState
<1> QED
  BY <1>1, <1>3

-----------------------------------------------------------------------------
(* The refinement: each write is a step of TeeCRDT or changes nothing.     *)

LEMMA NodeWriteGrows ==
  ASSUME TypeOK, Validated, SchemaConformance, NEW t \in Task,
         CreateNode(t) \/ MergeNode(t)
  PROVE  CRDT!Next
<1> DEFINE id == NodeAt(t).id
           p  == ProtoNodeToDomain(NodeAt(t))
           l  == IF id \in DOMAIN state.nodes THEN Candidate(t) ELSE p
<1>1. /\ AtNode(t) /\ NodeAt(t).type \in DOMAIN NodeType
      /\ state' = [state EXCEPT !.nodes = Put(@, id, l)]
      /\ id \in DOMAIN state.nodes => ~ HasConflict(Candidate(t))
  BY DEF CreateNode, MergeNode
<1>2. id # "" /\ IsNode(p) /\ WellFormedNode(p)
  BY <1>1, NodeAtType, NodeAtValid, ProtoNodeToDomainType
<1>3. CASE id \in DOMAIN state.nodes
  <2> DEFINE old == state.nodes[id]
  <2>1. IsNode(old) /\ WellFormedNode(old)
    BY <1>3, StoredNodeType DEF SchemaConformance
  <2>2. l = NodeMerge(old, p) /\ ~ HasConflict(NodeMerge(old, p))
    BY <1>1, <1>3 DEF Candidate
  <2> HIDE DEF old, p, l, id
  <2>3. /\ l.node_type = old.node_type /\ l.label = old.label
        /\ l.hypothetical => old.hypothetical
        /\ CRDT!Extends(old.provenance, l.provenance)
        /\ WellFormedNode(l)
    BY <1>2, <2>1, <2>2, NodeMergeWithoutConflict DEF CRDT!Extends
  <2>4. CRDT!Strengthen(id)
    BY <1>1, <1>3, <2>3, NodeStored, SameOperators DEF CRDT!Strengthen, old
  <2> QED
    BY <1>1, <2>4, NodeStored DEF CRDT!Next
<1>4. CASE id \notin DOMAIN state.nodes
  <2>1. WellFormedNode(l)
    BY <1>2, <1>4
  <2> HIDE DEF id, l
  <2>2. CRDT!Hypothesize(id)
    BY <1>1, <1>2, <1>4, <2>1, NodeStored, SameOperators DEF CRDT!Hypothesize
  <2> QED
    BY <1>1, <2>2, NodeStored DEF CRDT!Next
<1> QED
  BY <1>3, <1>4

LEMMA EdgeWriteGrows ==
  ASSUME TypeOK, Validated, SchemaConformance, SchemaConformance',
         NEW t \in Task, CreateEdge(t) \/ MergeEdge(t)
  PROVE  CRDT!Next
<1> DEFINE k == ProtoEdgeKey(EdgeAt(t))
           p == CollectProvenance(EdgeAt(t).provenance)
           l == IF k \in DOMAIN state.edges THEN EdgeMerge(state.edges[k], p) ELSE p
<1>1. state' = [state EXCEPT !.edges = Put(@, k, l)]
  BY DEF CreateEdge, MergeEdge
<1>2. CASE k \in DOMAIN state.edges
  <2>1. CRDT!Extends(state.edges[k], l)
    BY <1>2 DEF CRDT!Extends, EdgeMerge, SetUnion
  <2> HIDE DEF k, l
  <2>2. WellFormedEdge(k, state'.edges[k])
    BY <1>1, EdgeStored DEF SchemaConformance
  <2>3. CRDT!Corroborate(k)
    BY <1>1, <1>2, <2>1, <2>2, EdgeStored, SameOperators DEF CRDT!Corroborate
  <2> QED
    BY <1>1, <2>3, EdgeStored DEF CRDT!Next
<1>3. CASE k \notin DOMAIN state.edges
  <2> HIDE DEF k, l
  <2>1. WellFormedEdge(k, state'.edges[k])
    BY <1>1, EdgeStored DEF SchemaConformance
  <2>2. CRDT!Connect(k)
    BY <1>1, <1>3, <2>1, EdgeStored, SameOperators DEF CRDT!Connect
  <2> QED
    BY <1>1, <2>2, EdgeStored DEF CRDT!Next
<1> QED
  BY <1>2, <1>3

LEMMA TombstoneWriteGrows ==
  ASSUME TypeOK, NEW t \in Task, TombstoneNode(t) \/ TombstoneEdge(t)
  PROVE  CRDT!Next
<1> DEFINE i == task[t].req.incident_id
<1>1. i \in DOMAIN state.incidents
  BY DEF TombstoneNode, TombstoneEdge, AtEntry, Running, Registered, IncidentRpcs,
     TombstoneRpcs
<1> HIDE DEF i
<1>2. ASSUME NEW id, state' = [state EXCEPT !.incidents[i].node_tombstones = @ \cup {id}]
      PROVE  CRDT!EliminateNode(i) /\ i \in DOMAIN state'.incidents
  <2>1. id \in state'.incidents[i].node_tombstones /\ i \in DOMAIN state'.incidents
    BY <1>1, <1>2, TombstoneStored
  <2> QED
    BY <1>1, <1>2, <2>1 DEF CRDT!EliminateNode
<1>3. ASSUME NEW k, state' = [state EXCEPT !.incidents[i].edge_tombstones = @ \cup {k}]
      PROVE  CRDT!EliminateEdge(i) /\ i \in DOMAIN state'.incidents
  <2>1. k \in state'.incidents[i].edge_tombstones /\ i \in DOMAIN state'.incidents
    BY <1>1, <1>3, TombstoneStored
  <2> QED
    BY <1>1, <1>3, <2>1 DEF CRDT!EliminateEdge
<1>4. \/ \E id : state' = [state EXCEPT !.incidents[i].node_tombstones = @ \cup {id}]
      \/ \E k : state' = [state EXCEPT !.incidents[i].edge_tombstones = @ \cup {k}]
  BY DEF TombstoneNode, TombstoneEdge, i
<1> QED
  BY <1>2, <1>3, <1>4 DEF CRDT!Next

LEMMA IncidentWriteGrows ==
  ASSUME TypeOK, Validated, NEW t \in Task, CreateIncident(t)
  PROVE  CRDT!Next \/ state' = state
<1> DEFINE i == task[t].req.incident_id
<1>1. i # ""
  BY DEF CreateIncident, Running, Validated, Valid
<1>2. \/ state' = state
      \/ /\ i \notin DOMAIN state.incidents
         /\ \E now \in Time :
              state' = [state EXCEPT !.incidents = Put(@, i, NewIncident(now))]
  BY DEF CreateIncident
<1> HIDE DEF i
<1>3. ASSUME i \notin DOMAIN state.incidents, NEW now \in Time,
             state' = [state EXCEPT !.incidents = Put(@, i, NewIncident(now))]
      PROVE  CRDT!Next
  <2>1. CRDT!Register(i)
    BY <1>1, <1>3, SameOperators DEF CRDT!Register
  <2>2. i \in DOMAIN state'.incidents
    BY <1>3 DEF Put, TypeOK, IsState
  <2> QED
    BY <2>1, <2>2 DEF CRDT!Next
<1> QED
  BY <1>2, <1>3

LEMMA StepGrows ==
  ASSUME TypeOK, Validated, SchemaConformance, SchemaConformance', [Next]_vars
  PROVE  [CRDT!Next]_state
<1>1. ASSUME NEW t \in Task, Write(t)
      PROVE  CRDT!Next \/ state' = state
  BY <1>1, NodeWriteGrows, EdgeWriteGrows, TombstoneWriteGrows, IncidentWriteGrows
     DEF Write, ConflictNode
<1> QED
  BY <1>1, OnlyWritesWrite

\* The abstract specification: whatever the calls do to each other, the store
\* goes through the states of a graph that only grows and of incidents that
\* only eliminate.
THEOREM Growth == Spec => GrowOnly
<1>1. Init => CRDT!Init
  BY SameOperators DEF Init, CRDT!Init
<1>2. TypeOK /\ Validated /\ SchemaConformance /\ SchemaConformance' /\ [Next]_vars
        => [CRDT!Next]_state
  <2> SUFFICES ASSUME TypeOK, Validated, SchemaConformance, SchemaConformance',
                      [Next]_vars
               PROVE  [CRDT!Next]_state
    OBVIOUS
  <2> QED
    BY StepGrows
<1>3. Spec => []Validated
  BY ValidatedInvariant
<1> QED
  BY <1>1, <1>2, <1>3, TypeCorrect, SchemaKept, PTL DEF Spec, GrowOnly, CRDT!Spec
-----------------------------------------------------------------------------
(* Monotony.                                                               *)

\* The store q has all that the store s has.
Kept(s, q) ==
  /\ \A id \in DOMAIN s.nodes :
       /\ id \in DOMAIN q.nodes
       /\ q.nodes[id].node_type = s.nodes[id].node_type
       /\ q.nodes[id].label = s.nodes[id].label
       /\ q.nodes[id].hypothetical => s.nodes[id].hypothetical
       /\ DOMAIN s.nodes[id].provenance \subseteq DOMAIN q.nodes[id].provenance
  /\ \A k \in DOMAIN s.edges :
       k \in DOMAIN q.edges /\ DOMAIN s.edges[k] \subseteq DOMAIN q.edges[k]
  /\ \A i \in DOMAIN s.incidents :
       /\ i \in DOMAIN q.incidents
       /\ s.incidents[i].node_tombstones \subseteq q.incidents[i].node_tombstones
       /\ s.incidents[i].edge_tombstones \subseteq q.incidents[i].edge_tombstones

LEMMA StepKeeps ==
  ASSUME TypeOK, [CRDT!Next]_state
  PROVE  Kept(state, state')
<1>1. CASE state' = state
  BY <1>1 DEF Kept
<1>2. ASSUME NEW id, CRDT!Hypothesize(id) \/ CRDT!Strengthen(id)
      PROVE  Kept(state, state')
  <2> DEFINE l == state'.nodes[id]
  <2>1. state' = [state EXCEPT !.nodes = Put(@, id, l)]
    BY <1>2, SameOperators DEF CRDT!Hypothesize, CRDT!Strengthen
  <2>2. id \in DOMAIN state.nodes =>
          /\ l.node_type = state.nodes[id].node_type /\ l.label = state.nodes[id].label
          /\ l.hypothetical => state.nodes[id].hypothetical
          /\ DOMAIN state.nodes[id].provenance \subseteq DOMAIN l.provenance
    BY <1>2 DEF CRDT!Hypothesize, CRDT!Strengthen, CRDT!Extends
  <2> HIDE DEF l
  <2>3. /\ state'.nodes = Put(state.nodes, id, l)
        /\ state'.edges = state.edges /\ state'.incidents = state.incidents
    BY <2>1, NodeStored
  <2> QED
    BY <2>2, <2>3 DEF Kept, Put
<1>3. ASSUME NEW k, CRDT!Connect(k) \/ CRDT!Corroborate(k)
      PROVE  Kept(state, state')
  <2> DEFINE l == state'.edges[k]
  <2>1. state' = [state EXCEPT !.edges = Put(@, k, l)]
    BY <1>3, SameOperators DEF CRDT!Connect, CRDT!Corroborate
  <2>2. k \in DOMAIN state.edges => DOMAIN state.edges[k] \subseteq DOMAIN l
    BY <1>3 DEF CRDT!Connect, CRDT!Corroborate, CRDT!Extends
  <2> HIDE DEF l
  <2>3. /\ state'.edges = Put(state.edges, k, l)
        /\ state'.nodes = state.nodes /\ state'.incidents = state.incidents
    BY <2>1, EdgeStored
  <2> QED
    BY <2>2, <2>3 DEF Kept, Put
<1>4. ASSUME NEW i, CRDT!Register(i)
      PROVE  Kept(state, state')
  <2>1. i \notin DOMAIN state.incidents
    BY <1>4 DEF CRDT!Register
  <2>2. PICK m : state' = [state EXCEPT !.incidents = Put(@, i, m)]
    BY <1>4, SameOperators DEF CRDT!Register
  <2>3. /\ state'.incidents = Put(state.incidents, i, m)
        /\ state'.nodes = state.nodes /\ state'.edges = state.edges
    BY <2>2 DEF TypeOK, IsState
  <2> QED
    BY <2>1, <2>3 DEF Kept, Put
<1>5. ASSUME NEW i, CRDT!EliminateNode(i) \/ CRDT!EliminateEdge(i)
      PROVE  Kept(state, state')
  <2>1. i \in DOMAIN state.incidents
    BY <1>5 DEF CRDT!EliminateNode, CRDT!EliminateEdge
  <2>2. \/ \E id : state' = [state EXCEPT !.incidents[i].node_tombstones = @ \cup {id}]
        \/ \E k : state' = [state EXCEPT !.incidents[i].edge_tombstones = @ \cup {k}]
    BY <1>5 DEF CRDT!EliminateNode, CRDT!EliminateEdge
  <2>3. /\ state'.nodes = state.nodes /\ state'.edges = state.edges
        /\ DOMAIN state'.incidents = DOMAIN state.incidents
        /\ \A j \in DOMAIN state.incidents \ {i} :
             state'.incidents[j] = state.incidents[j]
        /\ state.incidents[i].node_tombstones \subseteq state'.incidents[i].node_tombstones
        /\ state.incidents[i].edge_tombstones \subseteq state'.incidents[i].edge_tombstones
    BY <2>1, <2>2, TombstoneStored
  <2> QED
    BY <2>3 DEF Kept
<1> QED
  BY <1>1, <1>2, <1>3, <1>4, <1>5 DEF CRDT!Next

\* An entry that holds goes on holding.
LEMMA HoldsOn ==
  ASSUME NEW s, NEW q, Kept(s, q), NEW r, r.rpc \in WriteRpcs, Registered(s, r),
         NEW e, Holds(s, r, e)
  PROVE  Holds(q, r, e) /\ Registered(q, r)
<1>1. r.rpc \in TombstoneRpcs =>
        r.incident_id \in DOMAIN s.incidents /\ r.incident_id \in DOMAIN q.incidents
  BY DEF Registered, IncidentRpcs, Kept
<1>2. Registered(q, r)
  BY DEF Registered, Kept
<1>3. Written(s, r) \subseteq Written(q, r)
  BY <1>1 DEF Written, Kept, WriteRpcs, TombstoneRpcs
<1> QED
  BY <1>2, <1>3 DEF Holds, Kept, FieldValue

-----------------------------------------------------------------------------
(* What a write reports.                                                   *)

NewlyWritten == {"created", "applied", "unmatched"}

\* The entry e, recorded by a step of t, is true of the store after the step,
\* and says that something is new only if it was not there before.
TrueEntry(t, e) ==
  /\ Record(t, e) /\ e \in Entry
  /\ Holds(state', task[t].req, e)
  /\ e.outcome \in NewlyWritten => e.id \notin Written(state, task[t].req)

LEMMA NodeWriteEntry ==
  ASSUME TypeOK, NEW t \in Task, CreateNode(t) \/ MergeNode(t)
  PROVE  \E e : TrueEntry(t, e)
<1> DEFINE id == NodeAt(t).id
           e  == [ id |-> id,
                   outcome |-> IF id \in DOMAIN state.nodes THEN "merged" ELSE "created" ]
<1>1. /\ AtNode(t) /\ NodeAt(t).type \in DOMAIN NodeType /\ Record(t, e)
      /\ \E l : state' = [state EXCEPT !.nodes = Put(@, id, l)]
  BY DEF CreateNode, MergeNode
<1>2. id \in Text
  BY <1>1, NodeAtType, ProtoNodeToDomainType
<1>3. id \in DOMAIN state'.nodes
  BY <1>1, NodeStored
<1>4. task[t].req.rpc = "MergeHypothesis"
  BY <1>1 DEF AtNode, Running
<1>5. id \notin DOMAIN state.edges
  BY <1>2, KeyAssumption DEF TypeOK, IsState
<1>6. e \in Entry
  BY <1>2 DEF Entry, ItemId
<1>7. /\ Holds(state', task[t].req, e)
      /\ e.outcome \in NewlyWritten => e.id \notin Written(state, task[t].req)
  BY <1>3, <1>4, <1>5 DEF Holds, Written, NewlyWritten
<1> HIDE DEF e
<1> QED
  BY <1>1, <1>6, <1>7 DEF TrueEntry

LEMMA EdgeWriteEntry ==
  ASSUME TypeOK, NEW t \in Task, CreateEdge(t) \/ MergeEdge(t)
  PROVE  \E e : TrueEntry(t, e)
<1> DEFINE k == ProtoEdgeKey(EdgeAt(t))
           e == [ id |-> k,
                  outcome |-> IF k \in DOMAIN state.edges THEN "merged" ELSE "created" ]
<1>1. /\ AtEdge(t) /\ EdgeAt(t).type \in DOMAIN EdgeType /\ Record(t, e)
      /\ \E l : state' = [state EXCEPT !.edges = Put(@, k, l)]
  BY DEF CreateEdge, MergeEdge
<1>2. k \in AnyEdgeKey
  BY <1>1, EdgeItemType
<1>3. k \in DOMAIN state'.edges
  BY <1>1, EdgeStored
<1>4. task[t].req.rpc = "MergeHypothesis"
  BY <1>1 DEF AtEdge, Running
<1>5. k \notin DOMAIN state.nodes
  BY <1>2, KeyAssumption DEF TypeOK, IsState
<1>6. e \in Entry
  BY <1>2 DEF Entry, ItemId
<1>7. /\ Holds(state', task[t].req, e)
      /\ e.outcome \in NewlyWritten => e.id \notin Written(state, task[t].req)
  BY <1>3, <1>4, <1>5 DEF Holds, Written, NewlyWritten
<1> HIDE DEF e
<1> QED
  BY <1>1, <1>6, <1>7 DEF TrueEntry

LEMMA ConflictWriteEntry ==
  ASSUME TypeOK, NEW t \in Task, ConflictNode(t)
  PROVE  \E e : TrueEntry(t, e)
<1> DEFINE old   == state.nodes[NodeAt(t).id]
           field == ConflictField(Candidate(t))
           e == [ id |-> NodeAt(t).id, outcome |-> "conflict", field |-> field,
                  existing_value |-> FieldValue(old, field) ]
<1>1. /\ AtNode(t) /\ NodeAt(t).type \in DOMAIN NodeType
      /\ NodeAt(t).id \in DOMAIN state.nodes /\ Record(t, e) /\ state' = state
  BY DEF ConflictNode
<1>2. NodeAt(t).id \in Text /\ field \in {"type", "label"}
  BY <1>1, NodeAtType, ProtoNodeToDomainType DEF ConflictField
<1>3. FieldValue(old, field) \in NodeTypes \cup Text \cup {Top}
  BY <1>1, StoredNodeType DEF IsNode, FieldValue
<1>4. e \in Entry
  BY <1>2, <1>3 DEF Entry
<1>5. Holds(state', task[t].req, e) /\ e.outcome \notin NewlyWritten
  BY <1>1 DEF Holds, NewlyWritten
<1> HIDE DEF e
<1> QED
  BY <1>1, <1>4, <1>5 DEF TrueEntry

LEMMA TombstoneWriteEntry ==
  ASSUME TypeOK, NEW t \in Task, TombstoneNode(t) \/ TombstoneEdge(t)
  PROVE  \E e : TrueEntry(t, e)
<1> DEFINE r == task[t].req
           i == r.incident_id
<1>1. i \in DOMAIN state.incidents /\ r \in Requests
  BY RunningCall DEF TombstoneNode, TombstoneEdge, AtEntry, Running, Registered, IncidentRpcs,
     TombstoneRpcs
<1>2. CASE TombstoneNode(t)
  <2> DEFINE id == r.node_ids[task[t].at]
             e  == [ id |-> id,
                     outcome |-> Marking(id, state.incidents[i].node_tombstones,
                                         DOMAIN state.nodes) ]
  <2>1. /\ r.rpc = "MergeNodeTombstones" /\ task[t].at \in DOMAIN r.node_ids
        /\ state' = [state EXCEPT !.incidents[i].node_tombstones = @ \cup {id}]
        /\ Record(t, e)
    BY <1>2 DEF TombstoneNode, Running
  <2>2. id \in Text
    BY <1>1, <2>1, RequestForms, ElementType
  <2>3. e \in Entry
    BY <2>2, MarkingType DEF Entry, ItemId
  <2> HIDE DEF r, i, id
  <2>4. id \in state'.incidents[i].node_tombstones
    BY <1>1, <2>1, TombstoneStored
  <2>5. /\ Holds(state', r, e)
        /\ e.outcome \in NewlyWritten => e.id \notin Written(state, r)
    BY <2>1, <2>4 DEF Holds, Written, NewlyWritten, Marking, i
  <2> HIDE DEF e
  <2> QED
    BY <2>1, <2>3, <2>5 DEF TrueEntry, r
<1>3. CASE TombstoneEdge(t)
  <2> DEFINE k == ProtoEdgeKey(EntryAt(t))
             e == [ id |-> k,
                    outcome |-> Marking(k, state.incidents[i].edge_tombstones,
                                        DOMAIN state.edges) ]
  <2>1. /\ AtEntry(t) /\ EntryAt(t).type \in DOMAIN EdgeType
        /\ r.rpc = "MergeEdgeTombstones"
        /\ state' = [state EXCEPT !.incidents[i].edge_tombstones = @ \cup {k}]
        /\ Record(t, e)
    BY <1>3 DEF TombstoneEdge, AtEntry, Running
  <2>2. k \in AnyEdgeKey
    BY <2>1, EntryAtType, ProtoEdgeKeyType DEF EdgeTombstoneEntry
  <2>3. e \in Entry
    BY <2>2, MarkingType DEF Entry, ItemId
  <2> HIDE DEF r, i, k
  <2>4. k \in state'.incidents[i].edge_tombstones
    BY <1>1, <2>1, TombstoneStored
  <2>5. /\ Holds(state', r, e)
        /\ e.outcome \in NewlyWritten => e.id \notin Written(state, r)
    BY <2>1, <2>4 DEF Holds, Written, NewlyWritten, Marking, i
  <2> HIDE DEF e
  <2> QED
    BY <2>1, <2>3, <2>5 DEF TrueEntry, r
<1> QED
  BY <1>2, <1>3

LEMMA IncidentWriteEntry ==
  ASSUME TypeOK, NEW t \in Task, CreateIncident(t)
  PROVE  \E e : TrueEntry(t, e)
<1> DEFINE i == task[t].req.incident_id
           e == [ id |-> i,
                  outcome |-> IF i \in DOMAIN state.incidents
                              THEN "existed" ELSE "created" ]
<1>1. task[t].req.rpc = "CreateIncident" /\ task[t].req \in Requests
  BY RunningCall DEF CreateIncident, Running
<1>2. e \in Entry
  BY <1>1, RequestForms DEF Entry, ItemId
<1>3. /\ Record(t, e)
      /\ \/ i \in DOMAIN state.incidents /\ state' = state
         \/ \E m : state' = [state EXCEPT !.incidents = Put(@, i, m)]
  BY DEF CreateIncident
<1>4. i \in DOMAIN state'.incidents
  <2>1. CASE state' = state
    BY <1>3, <2>1 DEF TypeOK, IsState, Put
  <2>2. ASSUME NEW m, state' = [state EXCEPT !.incidents = Put(@, i, m)]
        PROVE  i \in DOMAIN state'.incidents
    BY <2>2 DEF TypeOK, IsState, Put
  <2> QED
    BY <1>3, <2>1, <2>2
<1>5. /\ Holds(state', task[t].req, e)
      /\ e.outcome \in NewlyWritten => e.id \notin Written(state, task[t].req)
  BY <1>1, <1>4 DEF Holds, Written, NewlyWritten
<1> HIDE DEF e
<1> QED
  BY <1>2, <1>3, <1>5 DEF TrueEntry

LEMMA WriteEntry ==
  ASSUME TypeOK, NEW t \in Task, Write(t)
  PROVE  /\ \E e : TrueEntry(t, e)
         /\ task[t].pc = "running"
         /\ task[t].req.rpc \in WriteRpcs /\ Registered(state, task[t].req)
<1>1. \E e : TrueEntry(t, e)
  BY NodeWriteEntry, EdgeWriteEntry, ConflictWriteEntry, TombstoneWriteEntry,
     IncidentWriteEntry DEF Write
<1>2. /\ task[t].pc = "running"
      /\ task[t].req.rpc \in WriteRpcs /\ Registered(state, task[t].req)
  BY DEF Write, CreateNode, MergeNode, ConflictNode, CreateEdge, MergeEdge, TombstoneNode,
     TombstoneEdge, CreateIncident, AtNode, AtEdge, AtEntry, Running, WriteRpcs,
     TombstoneRpcs
<1> QED
  BY <1>1, <1>2
-----------------------------------------------------------------------------
(* Reports.                                                                *)

\* What a step does to the report of a call: it ends it, leaves it, or it is
\* a write of this very call.
LEMMA ReportStep ==
  ASSUME TypeOK, [Next]_vars, NEW u \in Task
  PROVE  \/ task'[u].report = <<>>
         \/ task'[u].report = task[u].report /\ task'[u].req = task[u].req
         \/ Write(u)
<1> DEFINE Goal == \/ task'[u].report = <<>>
                   \/ task'[u].report = task[u].report /\ task'[u].req = task[u].req
                   \/ Write(u)
<1>1. CASE UNCHANGED vars
  BY <1>1 DEF vars
<1>2. ASSUME NEW t \in Task, NEW r \in Requests, Receive(t, r) \/ Reject(t, r)
      PROVE  Goal
  BY <1>2 DEF Receive, Reject, Call, TypeOK
<1>3. ASSUME NEW t \in Task, Cancel(t) \/ Reply(t)
      PROVE  Goal
  BY <1>3 DEF Cancel, Reply, Idle, Call, TypeOK
<1>4. ASSUME NEW t \in Task, Acquire(t)
      PROVE  Goal
  BY <1>4, AcquireType
<1>5. ASSUME NEW t \in Task, Write(t)
      PROVE  Goal
  BY <1>5, HandlerFrame DEF Handler
<1>6. ASSUME NEW t \in Task, Unconvertible(t) \/ IncidentMissing(t)
      PROVE  Goal
  BY <1>6 DEF Unconvertible, IncidentMissing, Fail, Call, TypeOK
<1>7. ASSUME NEW t \in Task, ReadNodes(t) \/ ReadEdges(t) \/ Return(t)
      PROVE  Goal
  BY <1>7, ReadStepType
<1> QED
  BY <1>1, <1>2, <1>3, <1>4, <1>5, <1>6, <1>7 DEF Next, Handler

\* ReportsStayTrue, for one call, is inductive together with this: only writes
\* report, and the incident that a tombstone merge reports on is registered.
ReportTrue(t) ==
  /\ task[t].report # <<>> =>
       task[t].req.rpc \in WriteRpcs /\ Registered(state, task[t].req)
  /\ \A i \in DOMAIN task[t].report : Holds(state, task[t].req, task[t].report[i])

LEMMA ReportTrueStep ==
  ASSUME TypeOK, Kept(state, state'), [Next]_vars, NEW u \in Task, ReportTrue(u)
  PROVE  ReportTrue(u)'
<1> DEFINE r == task[u].req
           p == task[u].report
<1>1. \A i \in DOMAIN p : Holds(state', r, p[i])
  BY HoldsOn DEF ReportTrue
<1>2. p # <<>> => r.rpc \in WriteRpcs /\ Registered(state', r)
  BY DEF ReportTrue, Registered, Kept
<1>3. CASE task'[u].report = <<>>
  BY <1>3 DEF ReportTrue
<1>4. CASE task'[u].report = p /\ task'[u].req = r
  BY <1>1, <1>2, <1>4 DEF ReportTrue
<1>5. CASE Write(u)
  <2>1. PICK e : TrueEntry(u, e)
    BY <1>5, WriteEntry
  <2>2. task'[u].report = Append(p, e) /\ task'[u].req = r
    BY <1>5, <2>1, WriteEntry, RecordType DEF TrueEntry
  <2>3. r.rpc \in WriteRpcs /\ Registered(state', r)
    BY <1>5, WriteEntry DEF Registered, Kept
  <2>4. p \in Seq(Entry)
    BY DEF TypeOK, IsCall
  <2> HIDE DEF r, p
  <2>5. ASSUME NEW i \in DOMAIN Append(p, e)
        PROVE  Holds(state', r, Append(p, e)[i])
    <3>1. CASE i \in DOMAIN p
      BY <1>1, <2>4, <3>1
    <3>2. CASE i \notin DOMAIN p
      <4>1. Append(p, e)[i] = e
        BY <2>4, <3>2
      <4> QED
        BY <2>1, <4>1 DEF TrueEntry, r
    <3> QED
      BY <3>1, <3>2
  <2> QED
    BY <2>2, <2>3, <2>5 DEF ReportTrue
<1> QED
  BY <1>3, <1>4, <1>5, ReportStep

\* The store after a step has all that it had before.
LEMMA StoreKeeps ==
  ASSUME TypeOK, Validated, SchemaConformance, SchemaConformance', [Next]_vars
  PROVE  Kept(state, state')
BY StepGrows, StepKeeps

LEMMA ReportsTrue == Spec => [](\A t \in Task : ReportTrue(t))
<1> DEFINE Inv == \A t \in Task : ReportTrue(t)
<1>1. Init => Inv
  BY DEF Init, ReportTrue, Idle, Call
<1>2. TypeOK /\ Validated /\ SchemaConformance /\ SchemaConformance' /\ Inv /\ [Next]_vars
        => Inv'
  <2> SUFFICES ASSUME TypeOK, Validated, SchemaConformance, SchemaConformance', Inv,
                      [Next]_vars, NEW t \in Task
               PROVE  ReportTrue(t)'
    OBVIOUS
  <2> QED
    BY StoreKeeps, ReportTrueStep
<1> HIDE DEF Inv
<1>3. Spec => []Inv
  BY <1>1, <1>2, TypeCorrect, ValidatedInvariant, SchemaKept, PTL DEF Spec
<1> QED
  BY <1>3, PTL DEF Inv

\* Answers stay true: what a call was told is created, merged or tombstoned is
\* in the store, and a conflicting value is the stored one, at any later time.
THEOREM AnswersStayTrue == Spec => []ReportsStayTrue
<1>1. (\A t \in Task : ReportTrue(t)) => ReportsStayTrue
  BY DEF ReportTrue, ReportsStayTrue
<1> QED
  BY <1>1, ReportsTrue, PTL

-----------------------------------------------------------------------------
(* Credits.                                                                *)

\* The j-th entry of u credits u, and the step leaves it alone.
OldCredit(u, j) ==
  /\ j \in CreditedAt(u)
  /\ task'[u].req = task[u].req /\ task'[u].report[j] = task[u].report[j]

\* The step adds the j-th entry of u, for what was not there before.
NewCredit(u, j) ==
  /\ Write(u) /\ task'[u].req = task[u].req
  /\ j = Len(task[u].report) + 1
  /\ task'[u].report[j].id \notin Written(state, task[u].req)

LEMMA CreditsStep ==
  ASSUME TypeOK, [Next]_vars, NEW u \in Task, NEW j \in CreditedAt(u)'
  PROVE  OldCredit(u, j) \/ NewCredit(u, j)
<1> DEFINE p == task[u].report
           q == task'[u].report
<1>1. j \in DOMAIN q /\ q[j].outcome \in NewlyWritten
  BY DEF CreditedAt, NewlyWritten
<1>2. CASE q = p /\ task'[u].req = task[u].req
  BY <1>1, <1>2 DEF OldCredit, CreditedAt, NewlyWritten
<1>3. CASE Write(u)
  <2>1. PICK e : TrueEntry(u, e)
    BY <1>3, WriteEntry
  <2>2. q = Append(p, e) /\ task'[u].req = task[u].req
    BY <1>3, <2>1, WriteEntry, RecordType DEF TrueEntry
  <2>3. p \in Seq(Entry)
    BY DEF TypeOK, IsCall
  <2>4. e.outcome \in NewlyWritten => e.id \notin Written(state, task[u].req)
    BY <2>1 DEF TrueEntry
  <2> HIDE DEF p, q
  <2>5. CASE j \in DOMAIN p
    <3>1. q[j] = p[j]
      BY <2>2, <2>3, <2>5
    <3> QED
      BY <1>1, <2>2, <2>5, <3>1 DEF OldCredit, CreditedAt, NewlyWritten, p, q
  <2>6. CASE j \notin DOMAIN p
    <3>1. j = Len(p) + 1 /\ q[j] = e
      BY <1>1, <2>2, <2>3, <2>6
    <3> QED
      BY <1>1, <1>3, <2>2, <2>4, <3>1 DEF NewCredit, p, q
  <2> QED
    BY <2>5, <2>6
<1>4. q # <<>>
  BY <1>1
<1> QED
  BY <1>2, <1>3, <1>4, ReportStep

\* What an entry credits its call with is there.
LEMMA CreditsWritten ==
  ASSUME NEW u \in Task, ReportTrue(u), NEW j \in CreditedAt(u)
  PROVE  /\ task[u].report[j].id \in Written(state, task[u].req)
         /\ task[u].req.rpc \in WriteRpcs
<1>1. j \in DOMAIN task[u].report /\ task[u].report[j].outcome \in NewlyWritten
  BY DEF CreditedAt, NewlyWritten
<1>2. task[u].report # <<>>
  BY <1>1
<1>3. Holds(state, task[u].req, task[u].report[j])
  BY <1>1 DEF ReportTrue
<1> QED
  BY <1>1, <1>2, <1>3 DEF ReportTrue, Holds, NewlyWritten

LEMMA SameTargetWritten ==
  ASSUME NEW s, NEW r, NEW q, SameTarget(r, q), r.rpc \in WriteRpcs
  PROVE  Written(s, r) = Written(s, q)
BY DEF SameTarget, Written, WriteRpcs, TombstoneRpcs

\* What is credited anew was not credited before, to the same call or another.
LEMMA NewAndOld ==
  ASSUME NEW t \in Task, NEW u \in Task, NEW i, NEW j, NewCredit(t, i), OldCredit(u, j),
         ReportTrue(u), SameTarget(task'[u].req, task'[t].req)
  PROVE  task'[t].report[i].id # task'[u].report[j].id
<1>1. /\ task[u].report[j].id \in Written(state, task[u].req)
      /\ task[u].req.rpc \in WriteRpcs
  BY CreditsWritten DEF OldCredit
<1>2. task'[u].report[j].id \in Written(state, task[u].req)
  BY <1>1 DEF OldCredit
<1>3. Written(state, task[u].req) = Written(state, task[t].req)
  BY <1>1, SameTargetWritten DEF NewCredit, OldCredit
<1> QED
  BY <1>2, <1>3 DEF NewCredit

\* One call writes in a step.
LEMMA OneWrites ==
  ASSUME TypeOK, NEW t \in Task, NEW u \in Task, Write(t), Write(u)
  PROVE  t = u
<1> SUFFICES ASSUME t # u
             PROVE  FALSE
  OBVIOUS
<1>1. PICK e : TrueEntry(t, e)
  BY WriteEntry
<1>2. task'[t].report = Append(task[t].report, e) /\ task'[t] = task[t]
  BY <1>1, WriteEntry, RecordType, HandlerFrame DEF TrueEntry, Handler
<1>3. task[t].report \in Seq(Entry)
  BY DEF TypeOK, IsCall
<1> QED
  BY <1>2, <1>3

LEMMA CreditedOnceStep ==
  ASSUME TypeOK, [Next]_vars, CreditedOnce, \A t \in Task : ReportTrue(t)
  PROVE  CreditedOnce'
<1> SUFFICES ASSUME NEW t \in Task, NEW u \in Task,
                    NEW i \in CreditedAt(t)', NEW j \in CreditedAt(u)',
                    SameTarget(task'[t].req, task'[u].req),
                    task'[t].report[i].id = task'[u].report[j].id
             PROVE  t = u /\ i = j
  BY DEF CreditedOnce
<1>1. SameTarget(task'[u].req, task'[t].req)
  BY DEF SameTarget
<1>2. /\ OldCredit(t, i) \/ NewCredit(t, i)
      /\ OldCredit(u, j) \/ NewCredit(u, j)
  BY CreditsStep
<1>3. CASE OldCredit(t, i) /\ OldCredit(u, j)
  BY <1>3 DEF CreditedOnce, OldCredit
<1>4. CASE NewCredit(t, i) /\ OldCredit(u, j)
  BY <1>1, <1>4, NewAndOld
<1>5. CASE OldCredit(t, i) /\ NewCredit(u, j)
  BY <1>5, NewAndOld
<1>6. CASE NewCredit(t, i) /\ NewCredit(u, j)
  <2>1. t = u
    BY <1>6, OneWrites DEF NewCredit
  <2> QED
    BY <1>6, <2>1 DEF NewCredit
<1> QED
  BY <1>2, <1>3, <1>4, <1>5, <1>6

\* Credits: of all the items that write the same node, edge, incident or
\* tombstone, in one call or in several, one at most is reported as the first.
THEOREM OneIsCredited == Spec => []CreditedOnce
<1>1. Init => CreditedOnce
  BY DEF Init, CreditedOnce, CreditedAt, Idle, Call
<1>2. TypeOK /\ (\A t \in Task : ReportTrue(t)) /\ CreditedOnce /\ [Next]_vars
        => CreditedOnce'
  BY CreditedOnceStep
<1> QED
  BY <1>1, <1>2, TypeCorrect, ReportsTrue, PTL DEF Spec

-----------------------------------------------------------------------------
(* What a store has absorbed: merging it once more changes nothing.        *)

\* The proposal n contradicts the stored node, or says nothing new of it.
AbsorbedNode(s, n) ==
  /\ n.id \in DOMAIN s.nodes
  /\ LET old == s.nodes[n.id]
         new == ProtoNodeToDomain(n)
     IN  \/ old.node_type # new.node_type \/ old.label # new.label
         \/ /\ old.hypothetical => new.hypothetical
            /\ DOMAIN new.provenance \subseteq DOMAIN old.provenance

AbsorbedEdge(s, e) ==
  /\ ProtoEdgeKey(e) \in DOMAIN s.edges
  /\ DOMAIN CollectProvenance(e.provenance) \subseteq DOMAIN s.edges[ProtoEdgeKey(e)]

\* The item of the request r at the position j of its handler.
Absorbed(s, r, j) ==
  /\ r.rpc = "MergeHypothesis" =>
       /\ j \in DOMAIN r.nodes => AbsorbedNode(s, r.nodes[j])
       /\ j - Len(r.nodes) \in DOMAIN r.edges => AbsorbedEdge(s, r.edges[j - Len(r.nodes)])
  /\ r.rpc = "MergeNodeTombstones" =>
       /\ r.incident_id \in DOMAIN s.incidents
       /\ j \in DOMAIN r.node_ids =>
            r.node_ids[j] \in s.incidents[r.incident_id].node_tombstones
  /\ r.rpc = "MergeEdgeTombstones" =>
       /\ r.incident_id \in DOMAIN s.incidents
       /\ j \in DOMAIN r.entries =>
            ProtoEdgeKey(r.entries[j]) \in s.incidents[r.incident_id].edge_tombstones
  /\ r.rpc = "CreateIncident" => r.incident_id \in DOMAIN s.incidents

\* The item stops the handler.
Stops(r, j) ==
  \/ /\ r.rpc = "MergeHypothesis"
     /\ \/ j \in DOMAIN r.nodes /\ r.nodes[j].type \notin DOMAIN NodeType
        \/ /\ j - Len(r.nodes) \in DOMAIN r.edges
           /\ r.edges[j - Len(r.nodes)].type \notin DOMAIN EdgeType
  \/ /\ r.rpc = "MergeEdgeTombstones"
     /\ j \in DOMAIN r.entries /\ r.entries[j].type \notin DOMAIN EdgeType

LEMMA AbsorbedOn ==
  ASSUME NEW s, NEW q, Kept(s, q), NEW r, NEW j, Absorbed(s, r, j)
  PROVE  Absorbed(q, r, j)
<1>1. ASSUME NEW n, AbsorbedNode(s, n)
      PROVE  AbsorbedNode(q, n)
  <2> DEFINE old == s.nodes[n.id]
             now == q.nodes[n.id]
  <2>1. /\ n.id \in DOMAIN q.nodes
        /\ now.node_type = old.node_type /\ now.label = old.label
        /\ now.hypothetical => old.hypothetical
        /\ DOMAIN old.provenance \subseteq DOMAIN now.provenance
    BY <1>1 DEF Kept, AbsorbedNode
  <2> QED
    BY <1>1, <2>1 DEF AbsorbedNode
<1>2. ASSUME NEW e, AbsorbedEdge(s, e)
      PROVE  AbsorbedEdge(q, e)
  BY <1>2 DEF Kept, AbsorbedEdge
<1>3. \A i \in DOMAIN s.incidents :
        /\ i \in DOMAIN q.incidents
        /\ s.incidents[i].node_tombstones \subseteq q.incidents[i].node_tombstones
        /\ s.incidents[i].edge_tombstones \subseteq q.incidents[i].edge_tombstones
  BY DEF Kept
<1> QED
  BY <1>1, <1>2, <1>3 DEF Absorbed

-----------------------------------------------------------------------------
(* The merges absorb.                                                      *)

LEMMA SetUnionAbsorbed ==
  ASSUME NEW p, NEW q, IsProvenance(p), DOMAIN q \subseteq DOMAIN p
  PROVE  SetUnion(p, q) = p
<1>1. p = [k \in DOMAIN p |-> p[k]]
  BY DEF IsProvenance, IsMap
<1>2. DOMAIN p \cup DOMAIN q = DOMAIN p
  OBVIOUS
<1>3. SetUnion(p, q) = [k \in DOMAIN p |-> p[k]]
  BY <1>2 DEF SetUnion
<1> QED
  BY <1>1, <1>3

LEMMA NodeMergeAbsorbed ==
  ASSUME NEW x, NEW y, IsNode(x), IsNode(y), ~ HasConflict(NodeMerge(x, y)),
         x.hypothetical => y.hypothetical,
         DOMAIN y.provenance \subseteq DOMAIN x.provenance
  PROVE  NodeMerge(x, y) = x
<1> DEFINE l == NodeMerge(x, y)
<1>1. /\ x = [ node_type |-> x.node_type, label |-> x.label,
               hypothetical |-> x.hypothetical, provenance |-> x.provenance ]
      /\ x.hypothetical \in BOOLEAN /\ y.hypothetical \in BOOLEAN
      /\ IsProvenance(x.provenance)
  BY DEF IsNode
<1>2. l.node_type = x.node_type /\ l.label = x.label
  BY NodeMergeWithoutConflict
<1>3. l = [ node_type |-> l.node_type, label |-> l.label,
            hypothetical |-> MinMerge(x.hypothetical, y.hypothetical),
            provenance |-> SetUnion(x.provenance, y.provenance) ]
  BY DEF NodeMerge
<1>4. MinMerge(x.hypothetical, y.hypothetical) = x.hypothetical
  BY <1>1 DEF MinMerge
<1>5. SetUnion(x.provenance, y.provenance) = x.provenance
  BY <1>1, SetUnionAbsorbed
<1> HIDE DEF l
<1> QED
  BY <1>1, <1>2, <1>3, <1>4, <1>5 DEF l

\* Storing what is stored.
LEMMA PutStored ==
  ASSUME NEW m, m = [x \in DOMAIN m |-> m[x]], NEW k \in DOMAIN m
  PROVE  Put(m, k, m[k]) = m
<1>1. DOMAIN m \cup {k} = DOMAIN m
  OBVIOUS
<1>2. Put(m, k, m[k]) = [x \in DOMAIN m |-> m[x]]
  BY <1>1 DEF Put
<1> QED
  BY <1>2

-----------------------------------------------------------------------------
(* One write.                                                              *)

\* The positions in two lists, one after the other.
LEMMA Positions ==
  ASSUME NEW a \in Nat, NEW b \in Nat, NEW j \in Nat
  PROVE  (j \in 1..a => j \in 1..(a + b)) /\ (j - a \in 1..b => j \in 1..(a + b))
OBVIOUS

\* Where a write is in its request, and what it finds there.
LEMMA WritePosition ==
  ASSUME TypeOK, NEW t \in Task, Write(t)
  PROVE  /\ task[t].at \in 1..Steps(task[t].req)
         /\ ~ Stops(task[t].req, task[t].at)
<1> DEFINE r == task[t].req
           j == task[t].at
<1>1. task[t].pc = "running"
  BY WriteEntry
<1>2. r \in Requests /\ j \in Nat \ {0}
  BY <1>1, RunningCall DEF IsCall
<1>3. CASE CreateNode(t) \/ MergeNode(t) \/ ConflictNode(t)
  <2>1. /\ r.rpc = "MergeHypothesis" /\ j \in DOMAIN r.nodes
        /\ r.nodes[j].type \in DOMAIN NodeType
    BY <1>3 DEF CreateNode, MergeNode, ConflictNode, AtNode, Running, NodeAt
  <2>2. r.nodes \in Seq(ProtoNode) /\ r.edges \in Seq(ProtoEdge)
    BY <1>2, <2>1, RequestForms
  <2> HIDE DEF r, j
  <2>3. j \in 1..Len(r.nodes) /\ Len(r.nodes) \in Nat /\ Len(r.edges) \in Nat
    BY <2>1, <2>2
  <2>4. j - Len(r.nodes) \notin DOMAIN r.edges
    BY <2>2, <2>3
  <2>5. Steps(r) = Len(r.nodes) + Len(r.edges)
    BY <2>1 DEF Steps
  <2>6. j \in Nat
    BY <1>2 DEF j
  <2>7. j \in 1..(Len(r.nodes) + Len(r.edges))
    BY <2>3, <2>6, Positions
  <2> QED
    BY <2>1, <2>4, <2>5, <2>7 DEF Stops, r, j
<1>4. CASE CreateEdge(t) \/ MergeEdge(t)
  <2>1. /\ r.rpc = "MergeHypothesis" /\ j - Len(r.nodes) \in DOMAIN r.edges
        /\ r.edges[j - Len(r.nodes)].type \in DOMAIN EdgeType
    BY <1>4 DEF CreateEdge, MergeEdge, AtEdge, Running, EdgeAt, EdgeIndex
  <2>2. r.nodes \in Seq(ProtoNode) /\ r.edges \in Seq(ProtoEdge)
    BY <1>2, <2>1, RequestForms
  <2> HIDE DEF r, j
  <2>3. j - Len(r.nodes) \in 1..Len(r.edges) /\ Len(r.nodes) \in Nat /\ Len(r.edges) \in Nat
    BY <2>1, <2>2
  <2>4. j \notin DOMAIN r.nodes
    BY <1>2, <2>2, <2>3
  <2>5. Steps(r) = Len(r.nodes) + Len(r.edges)
    BY <2>1 DEF Steps
  <2>6. j \in Nat
    BY <1>2 DEF j
  <2>7. j \in 1..(Len(r.nodes) + Len(r.edges))
    BY <2>3, <2>6, Positions
  <2> QED
    BY <2>1, <2>4, <2>5, <2>7 DEF Stops, r, j
<1>5. CASE TombstoneNode(t)
  <2>1. r.rpc = "MergeNodeTombstones" /\ j \in DOMAIN r.node_ids
    BY <1>5 DEF TombstoneNode, Running
  <2>2. r.node_ids \in Seq(Text)
    BY <1>2, <2>1, RequestForms
  <2> HIDE DEF r, j
  <2> QED
    BY <2>1, <2>2 DEF Steps, Stops, r, j
<1>6. CASE TombstoneEdge(t)
  <2>1. /\ r.rpc = "MergeEdgeTombstones" /\ j \in DOMAIN r.entries
        /\ r.entries[j].type \in DOMAIN EdgeType
    BY <1>6 DEF TombstoneEdge, AtEntry, Running, EntryAt
  <2>2. r.entries \in Seq(EdgeTombstoneEntry)
    BY <1>2, <2>1, RequestForms
  <2> HIDE DEF r, j
  <2> QED
    BY <2>1, <2>2 DEF Steps, Stops, r, j
<1>7. CASE CreateIncident(t)
  <2>1. r.rpc = "CreateIncident" /\ j = 1
    BY <1>7 DEF CreateIncident, Running
  <2> HIDE DEF r, j
  <2>2. Steps(r) = 1
    BY <2>1 DEF Steps
  <2> QED
    BY <2>1, <2>2 DEF Stops, r, j
<1> QED
  BY <1>3, <1>4, <1>5, <1>6, <1>7 DEF Write

\* The node at which a call is: what is stored after the step has absorbed it,
\* and what had absorbed it is not changed by the step.
LEMMA NodeWriteAbsorbs ==
  ASSUME TypeOK, Validated, SchemaConformance, NEW t \in Task,
         CreateNode(t) \/ MergeNode(t) \/ ConflictNode(t)
  PROVE  /\ Absorbed(state', task[t].req, task[t].at)
         /\ Absorbed(state, task[t].req, task[t].at) => state' = state
<1> DEFINE r == task[t].req
           j == task[t].at
           n == NodeAt(t)
           p == ProtoNodeToDomain(n)
           old == state.nodes[n.id]
<1>1. /\ AtNode(t) /\ n.type \in DOMAIN NodeType
      /\ r.rpc = "MergeHypothesis" /\ j \in DOMAIN r.nodes /\ n = r.nodes[j]
  BY DEF CreateNode, MergeNode, ConflictNode, AtNode, Running, NodeAt
<1>2. r \in Requests /\ IsNode(p)
  BY <1>1, NodeAtType, ProtoNodeToDomainType
<1>3. r.nodes \in Seq(ProtoNode) /\ r.edges \in Seq(ProtoEdge)
  BY <1>1, <1>2, RequestForms
<1>4. j - Len(r.nodes) \notin DOMAIN r.edges
  BY <1>1, <1>3
<1>5. \A s : Absorbed(s, r, j) <=> AbsorbedNode(s, n)
  BY <1>1, <1>4 DEF Absorbed
<1>6. CASE CreateNode(t)
  <2>1. n.id \notin DOMAIN state.nodes /\ state' = [state EXCEPT !.nodes = Put(@, n.id, p)]
    BY <1>6 DEF CreateNode
  <2>2. n.id \in DOMAIN state'.nodes /\ state'.nodes[n.id] = p
    BY <2>1, NodeStored
  <2>3. AbsorbedNode(state', n)
    BY <2>2 DEF AbsorbedNode
  <2> QED
    BY <1>5, <2>1, <2>3 DEF AbsorbedNode
<1>7. CASE MergeNode(t)
  <2> DEFINE l == NodeMerge(old, p)
  <2>1. /\ n.id \in DOMAIN state.nodes /\ ~ HasConflict(l)
        /\ state' = [state EXCEPT !.nodes = Put(@, n.id, l)]
    BY <1>7 DEF MergeNode, Candidate
  <2>2. IsNode(old) /\ WellFormedNode(old)
    BY <2>1, StoredNodeType DEF SchemaConformance
  <2>3. n.id \in DOMAIN state'.nodes /\ state'.nodes[n.id] = l
    BY <2>1, NodeStored
  <2>4. /\ l.hypothetical => p.hypothetical
        /\ DOMAIN p.provenance \subseteq DOMAIN l.provenance
    BY DEF NodeMerge, MinMerge, SetUnion
  <2>5. old.node_type = p.node_type /\ old.label = p.label
    BY <2>1, <2>2 DEF HasConflict, NodeMerge, ConflictMerge, WellFormedNode
  <2>6. AbsorbedNode(state', n)
    BY <2>3, <2>4 DEF AbsorbedNode
  <2>7. ASSUME AbsorbedNode(state, n)
        PROVE  state' = state
    <3>1. /\ old.hypothetical => p.hypothetical
          /\ DOMAIN p.provenance \subseteq DOMAIN old.provenance
      BY <2>5, <2>7 DEF AbsorbedNode
    <3> HIDE DEF p, n
    <3>2. l = old
      BY <1>2, <2>1, <2>2, <3>1, NodeMergeAbsorbed
    <3>3. Put(state.nodes, n.id, old) = state.nodes
      BY <2>1, PutStored DEF TypeOK, IsState
    <3>4. state' = [state EXCEPT !.nodes = state.nodes]
      BY <2>1, <3>2, <3>3
    <3> QED
      BY <3>4 DEF TypeOK, IsState
  <2> QED
    BY <1>5, <2>6, <2>7
<1>8. CASE ConflictNode(t)
  <2>1. /\ n.id \in DOMAIN state.nodes /\ HasConflict(NodeMerge(old, p))
        /\ state' = state
    BY <1>8 DEF ConflictNode, Candidate
  <2>2. old.node_type # Top /\ old.label # Top
    BY <2>1, DomainAssumption DEF SchemaConformance, WellFormedNode
  <2>3. old.node_type # p.node_type \/ old.label # p.label
    BY <2>1, <2>2 DEF HasConflict, NodeMerge, ConflictMerge
  <2>4. AbsorbedNode(state', n)
    BY <2>1, <2>3 DEF AbsorbedNode
  <2> QED
    BY <1>5, <2>1, <2>4
<1> QED
  BY <1>6, <1>7, <1>8

LEMMA EdgeWriteAbsorbs ==
  ASSUME TypeOK, NEW t \in Task, CreateEdge(t) \/ MergeEdge(t)
  PROVE  /\ Absorbed(state', task[t].req, task[t].at)
         /\ Absorbed(state, task[t].req, task[t].at) => state' = state
<1> DEFINE r == task[t].req
           j == task[t].at
           e == EdgeAt(t)
           k == ProtoEdgeKey(e)
           p == CollectProvenance(e.provenance)
           l == IF k \in DOMAIN state.edges THEN EdgeMerge(state.edges[k], p) ELSE p
<1>1. /\ AtEdge(t) /\ e.type \in DOMAIN EdgeType
      /\ r.rpc = "MergeHypothesis"
      /\ j - Len(r.nodes) \in DOMAIN r.edges /\ e = r.edges[j - Len(r.nodes)]
      /\ state' = [state EXCEPT !.edges = Put(@, k, l)]
  BY DEF CreateEdge, MergeEdge, AtEdge, Running, EdgeAt, EdgeIndex
<1>2. r \in Requests /\ task[t].pc = "running"
  BY <1>1, EdgeAtType
<1>3. r.nodes \in Seq(ProtoNode) /\ r.edges \in Seq(ProtoEdge) /\ j \in Nat \ {0}
  BY <1>1, <1>2, RequestForms, RunningCall DEF IsCall
<1>4. j \notin DOMAIN r.nodes
  <2> HIDE DEF r, j
  <2> QED
    BY <1>1, <1>3
<1>5. \A s : Absorbed(s, r, j) <=> AbsorbedEdge(s, e)
  BY <1>1, <1>4 DEF Absorbed
<1>6. DOMAIN p \subseteq DOMAIN l
  BY DEF EdgeMerge, SetUnion
<1>7. k \in DOMAIN state'.edges /\ state'.edges[k] = l
  <2> HIDE DEF k, l
  <2> QED
    BY <1>1, EdgeStored
<1>8. AbsorbedEdge(state', e)
  BY <1>6, <1>7 DEF AbsorbedEdge
<1>9. ASSUME AbsorbedEdge(state, e)
      PROVE  state' = state
  <2>1. k \in DOMAIN state.edges /\ DOMAIN p \subseteq DOMAIN state.edges[k]
    BY <1>9 DEF AbsorbedEdge
  <2>2. IsProvenance(state.edges[k])
    BY <2>1 DEF TypeOK, IsState
  <2>3. l = state.edges[k]
    BY <2>1, <2>2, SetUnionAbsorbed DEF EdgeMerge
  <2> HIDE DEF k, l
  <2>4. Put(state.edges, k, l) = state.edges
    BY <2>1, <2>3, PutStored DEF TypeOK, IsState
  <2>5. state' = [state EXCEPT !.edges = state.edges]
    BY <1>1, <2>4
  <2> QED
    BY <2>5 DEF TypeOK, IsState
<1> QED
  BY <1>5, <1>8, <1>9

\* An incident that has a tombstone is not changed by it.
LEMMA TombstoneAbsorbed ==
  ASSUME TypeOK, NEW i \in DOMAIN state.incidents, NEW x
  PROVE  /\ x \in state.incidents[i].node_tombstones =>
              [state EXCEPT !.incidents[i].node_tombstones = @ \cup {x}] = state
         /\ x \in state.incidents[i].edge_tombstones =>
              [state EXCEPT !.incidents[i].edge_tombstones = @ \cup {x}] = state
<1> DEFINE old == state.incidents[i]
<1>1. /\ state = [nodes |-> state.nodes, edges |-> state.edges,
                  incidents |-> state.incidents]
      /\ state.incidents = [j \in DOMAIN state.incidents |-> state.incidents[j]]
  BY DEF TypeOK, IsState, IsMap
<1>2. old = [ created_at |-> old.created_at, node_tombstones |-> old.node_tombstones,
              edge_tombstones |-> old.edge_tombstones ]
  BY IncidentType DEF IncidentState
<1>3. CASE x \in old.node_tombstones
  <2>1. old.node_tombstones \cup {x} = old.node_tombstones
    BY <1>3
  <2> QED
    BY <1>1, <1>2, <2>1
<1>4. CASE x \in old.edge_tombstones
  <2>1. old.edge_tombstones \cup {x} = old.edge_tombstones
    BY <1>4
  <2> QED
    BY <1>1, <1>2, <2>1
<1> QED
  BY <1>3, <1>4

LEMMA TombstoneWriteAbsorbs ==
  ASSUME TypeOK, NEW t \in Task, TombstoneNode(t) \/ TombstoneEdge(t)
  PROVE  /\ Absorbed(state', task[t].req, task[t].at)
         /\ Absorbed(state, task[t].req, task[t].at) => state' = state
<1> DEFINE r == task[t].req
           j == task[t].at
           i == r.incident_id
<1>1. i \in DOMAIN state.incidents
  BY DEF TombstoneNode, TombstoneEdge, AtEntry, Running, Registered, IncidentRpcs,
     TombstoneRpcs
<1>2. CASE TombstoneNode(t)
  <2> DEFINE id == r.node_ids[j]
  <2>1. /\ r.rpc = "MergeNodeTombstones" /\ j \in DOMAIN r.node_ids
        /\ state' = [state EXCEPT !.incidents[i].node_tombstones = @ \cup {id}]
    BY <1>2 DEF TombstoneNode, Running
  <2>2. \A s : Absorbed(s, r, j)
                 <=> i \in DOMAIN s.incidents /\ id \in s.incidents[i].node_tombstones
    BY <2>1 DEF Absorbed
  <2> HIDE DEF r, j, i, id
  <2>3. i \in DOMAIN state'.incidents /\ id \in state'.incidents[i].node_tombstones
    BY <1>1, <2>1, TombstoneStored
  <2>4. id \in state.incidents[i].node_tombstones => state' = state
    BY <1>1, <2>1, TombstoneAbsorbed
  <2> QED
    BY <2>2, <2>3, <2>4 DEF r, j
<1>3. CASE TombstoneEdge(t)
  <2> DEFINE k == ProtoEdgeKey(r.entries[j])
  <2>1. /\ r.rpc = "MergeEdgeTombstones" /\ j \in DOMAIN r.entries
        /\ state' = [state EXCEPT !.incidents[i].edge_tombstones = @ \cup {k}]
    BY <1>3 DEF TombstoneEdge, AtEntry, EntryAt, Running
  <2>2. \A s : Absorbed(s, r, j)
                 <=> i \in DOMAIN s.incidents /\ k \in s.incidents[i].edge_tombstones
    BY <2>1 DEF Absorbed
  <2> HIDE DEF r, j, i, k
  <2>3. i \in DOMAIN state'.incidents /\ k \in state'.incidents[i].edge_tombstones
    BY <1>1, <2>1, TombstoneStored
  <2>4. k \in state.incidents[i].edge_tombstones => state' = state
    BY <1>1, <2>1, TombstoneAbsorbed
  <2> QED
    BY <2>2, <2>3, <2>4 DEF r, j
<1> QED
  BY <1>2, <1>3

LEMMA IncidentWriteAbsorbs ==
  ASSUME TypeOK, NEW t \in Task, CreateIncident(t)
  PROVE  /\ Absorbed(state', task[t].req, task[t].at)
         /\ Absorbed(state, task[t].req, task[t].at) => state' = state
<1> DEFINE i == task[t].req.incident_id
<1>1. task[t].req.rpc = "CreateIncident"
  BY DEF CreateIncident, Running
<1>2. \/ i \in DOMAIN state.incidents /\ state' = state
      \/ /\ i \notin DOMAIN state.incidents
         /\ \E m : state' = [state EXCEPT !.incidents = Put(@, i, m)]
  BY DEF CreateIncident
<1>3. i \in DOMAIN state'.incidents
  <2>1. ASSUME NEW m, state' = [state EXCEPT !.incidents = Put(@, i, m)]
        PROVE  i \in DOMAIN state'.incidents
    BY <2>1 DEF TypeOK, IsState, Put
  <2> QED
    BY <1>2, <2>1
<1> QED
  BY <1>1, <1>2, <1>3 DEF Absorbed

LEMMA WriteAbsorbs ==
  ASSUME TypeOK, Validated, SchemaConformance, NEW t \in Task, Write(t)
  PROVE  /\ Absorbed(state', task[t].req, task[t].at)
         /\ Absorbed(state, task[t].req, task[t].at) => state' = state
BY NodeWriteAbsorbs, EdgeWriteAbsorbs, TombstoneWriteAbsorbs, IncidentWriteAbsorbs
   DEF Write

-----------------------------------------------------------------------------
(* One call, from its first step to its answer.                            *)

\* RetriesAreAbsorbed follows from this: the items that a write has passed are
\* absorbed, all of them when it was answered with success, those before the
\* one that stopped it when it was not; and it has passed none that stops it.
Progress(t) ==
  LET r == task[t].req
      done(n) == \A j \in 1..n : Absorbed(state, r, j)
  IN  /\ task[t].pc = "queued" => task[t].at = 1
      /\ Writing(t) =>
           /\ task[t].pc = "running" =>
                done(task[t].at - 1) /\ \A j \in 1..(task[t].at - 1) : ~ Stops(r, j)
           /\ task[t].pc = "Ok" => done(Steps(r))
           /\ task[t].pc = "Internal" =>
                \E p \in Nat \ {0} : Stops(r, p) /\ done(p - 1)

\* What a step does to a call.
LEMMA CallProgress ==
  ASSUME TypeOK, [Next]_vars, NEW u \in Task
  PROVE  \/ task'[u] = task[u]
         \/ task'[u].pc \in {"idle", "InvalidArgument", "NotFound"}
         \/ task'[u].pc = "queued" /\ task'[u].at = 1
         \/ Acquire(u) \/ Write(u) \/ Unconvertible(u) \/ Return(u)
         \/ ReadNodes(u) \/ ReadEdges(u)
<1> DEFINE Goal == \/ task'[u] = task[u]
                   \/ task'[u].pc \in {"idle", "InvalidArgument", "NotFound"}
                   \/ task'[u].pc = "queued" /\ task'[u].at = 1
                   \/ Acquire(u) \/ Write(u) \/ Unconvertible(u) \/ Return(u)
                   \/ ReadNodes(u) \/ ReadEdges(u)
<1>1. CASE UNCHANGED vars
  BY <1>1 DEF vars
<1>2. ASSUME NEW t \in Task, NEW r \in Requests, Receive(t, r) \/ Reject(t, r)
      PROVE  Goal
  BY <1>2 DEF Receive, Reject, Call, TypeOK
<1>3. ASSUME NEW t \in Task, Cancel(t) \/ Reply(t)
      PROVE  Goal
  BY <1>3 DEF Cancel, Reply, Idle, Call, TypeOK
<1>4. ASSUME NEW t \in Task, Acquire(t)
      PROVE  Goal
  BY <1>4, AcquireType
<1>5. ASSUME NEW t \in Task, IncidentMissing(t)
      PROVE  Goal
  BY <1>5 DEF IncidentMissing, Fail, Call, TypeOK
<1>6. ASSUME NEW t \in Task, Handler(t)
      PROVE  Goal
  <2>1. CASE t = u
    BY <1>5, <1>6, <2>1 DEF Handler
  <2>2. CASE t # u
    BY <1>6, <2>2, HandlerFrame
  <2> QED
    BY <2>1, <2>2
<1> QED
  BY <1>1, <1>2, <1>3, <1>4, <1>6 DEF Next

LEMMA StepsType ==
  ASSUME NEW r \in Requests
  PROVE  Steps(r) \in Nat
<1>1. CASE r.rpc = "MergeHypothesis"
  <2> DEFINE a == Len(r.nodes)
             b == Len(r.edges)
  <2>1. r.nodes \in Seq(ProtoNode) /\ r.edges \in Seq(ProtoEdge)
    BY <1>1, RequestForms
  <2>2. a \in Nat /\ b \in Nat
    BY <2>1
  <2>3. Steps(r) = a + b
    BY <1>1 DEF Steps
  <2> HIDE DEF a, b
  <2> QED
    BY <2>2, <2>3
<1>2. CASE r.rpc = "MergeNodeTombstones"
  <2>1. r.node_ids \in Seq(Text)
    BY <1>2, RequestForms
  <2>2. Len(r.node_ids) \in Nat
    BY <2>1
  <2>3. Steps(r) = Len(r.node_ids)
    BY <1>2 DEF Steps
  <2> QED
    BY <2>2, <2>3
<1>3. CASE r.rpc = "MergeEdgeTombstones"
  BY <1>3, RequestForms DEF Steps
<1>4. CASE r.rpc \notin {"MergeHypothesis", "MergeNodeTombstones", "MergeEdgeTombstones"}
  BY <1>4 DEF Steps
<1> QED
  BY <1>1, <1>2, <1>3, <1>4

LEMMA ProgressStep ==
  ASSUME TypeOK, Validated, SchemaConformance, Kept(state, state'), [Next]_vars,
         NEW u \in Task, Progress(u)
  PROVE  Progress(u)'
<1> DEFINE r == task[u].req
           j == task[u].at
<1>1. \A i : Absorbed(state, r, i) => Absorbed(state', r, i)
  BY AbsorbedOn
<1>2. CASE task'[u] = task[u]
  BY <1>1, <1>2 DEF Progress, Writing
<1>3. CASE task'[u].pc \in {"idle", "InvalidArgument", "NotFound"}
  BY <1>3 DEF Progress
<1>4. CASE task'[u].pc = "queued" /\ task'[u].at = 1
  BY <1>4 DEF Progress
<1>5. CASE Acquire(u)
  <2>1. task'[u].pc = "running" /\ task'[u].at = 1
    BY <1>5, AcquireType DEF Acquire, Progress
  <2>2. 1..(task'[u].at - 1) = {}
    BY <2>1
  <2> QED
    BY <2>1, <2>2 DEF Progress
<1>6. CASE Write(u)
  <2>1. /\ task[u].pc = "running" /\ r.rpc \in WriteRpcs
        /\ j \in Nat \ {0}
    BY <1>6, WriteEntry, RunningCall DEF IsCall
  <2>2. /\ \A i \in 1..(j - 1) : Absorbed(state, r, i)
        /\ \A i \in 1..(j - 1) : ~ Stops(r, i)
    BY <2>1 DEF Progress, Writing
  <2>3. Absorbed(state', r, j) /\ ~ Stops(r, j)
    BY <1>6, WriteAbsorbs, WritePosition
  <2>4. task'[u].pc = "running" /\ task'[u].req = r /\ task'[u].at = j + 1
    <3>1. PICK e : TrueEntry(u, e)
      BY <1>6, WriteEntry
    <3> QED
      BY <2>1, <3>1, RecordType DEF TrueEntry
  <2> HIDE DEF r, j
  <2>5. \A i \in 1..(j + 1 - 1) : i \in 1..(j - 1) \/ i = j
    BY <2>1
  <2>6. \A i \in 1..(task'[u].at - 1) : Absorbed(state', r, i) /\ ~ Stops(r, i)
    <3> SUFFICES ASSUME NEW i \in 1..(j + 1 - 1)
                 PROVE  Absorbed(state', r, i) /\ ~ Stops(r, i)
      BY <2>1, <2>4
    <3>1. CASE i = j
      BY <2>3, <3>1
    <3>2. CASE i \in 1..(j - 1)
      BY <1>1, <2>2, <3>2
    <3> QED
      BY <2>5, <3>1, <3>2
  <2> QED
    BY <2>4, <2>6 DEF Progress
<1>7. CASE Unconvertible(u)
  <2>1. /\ task[u].pc = "running" /\ r.rpc \in WriteRpcs
        /\ j \in Nat \ {0}
    BY <1>7, RunningCall DEF IsCall, Unconvertible, AtNode, AtEdge, AtEntry, Running,
       WriteRpcs, TombstoneRpcs
  <2>2. Stops(r, j)
    BY <1>7 DEF Unconvertible, Stops, AtNode, AtEdge, AtEntry, NodeAt, EdgeAt, EntryAt,
       EdgeIndex, Running
  <2>3. \A i \in 1..(j - 1) : Absorbed(state, r, i)
    BY <2>1 DEF Progress, Writing
  <2>4. task'[u].pc = "Internal" /\ task'[u].req = r
    <3>1. Fail(u, "Internal") /\ "Internal" \in Status
      BY <1>7 DEF Unconvertible, Status
    <3>2. task'[u] = Call("Internal", r)
      BY <2>1, <3>1, FailType
    <3> QED
      BY <3>2 DEF Call
  <2> HIDE DEF r, j
  <2> QED
    BY <1>1, <2>1, <2>2, <2>3, <2>4 DEF Progress
<1>8. CASE Return(u)
  <2>1. /\ task[u].pc = "running" /\ j > Steps(r)
        /\ task'[u].pc = "Ok" /\ task'[u].req = r
    <3>1. /\ task[u].pc = "running" /\ j > Steps(r)
          /\ task' = [task EXCEPT ![u].pc = "Ok"]
      BY <1>8 DEF Return
    <3>2. task'[u] = [task[u] EXCEPT !.pc = "Ok"]
      BY <3>1 DEF TypeOK
    <3>3. IsCall(task[u])
      BY <3>1, RunningCall
    <3> QED
      BY <3>1, <3>2, <3>3 DEF IsCall
  <2>2. j \in Nat \ {0} /\ Steps(r) \in Nat
    BY <2>1, RunningCall, StepsType DEF IsCall
  <2>3. Writing(u) => \A i \in 1..(j - 1) : Absorbed(state, r, i)
    BY <2>1 DEF Progress
  <2>4. Writing(u)' <=> Writing(u)
    BY <2>1 DEF Writing
  <2> HIDE DEF r, j
  <2>5. 1..Steps(r) \subseteq 1..(j - 1)
    BY <2>1, <2>2
  <2> QED
    BY <1>1, <2>1, <2>3, <2>4, <2>5 DEF Progress
<1>9. CASE ReadNodes(u) \/ ReadEdges(u)
  <2>1. r.rpc \in ReadRpcs /\ task'[u].req = r /\ task'[u].pc # "queued"
    BY <1>9, ReadStepType DEF ReadNodes, ReadEdges, Running
  <2>2. ~ Writing(u)'
    BY <2>1 DEF Writing, ReadRpcs, WriteRpcs, TombstoneRpcs
  <2> QED
    BY <2>1, <2>2 DEF Progress
<1> QED
  BY <1>2, <1>3, <1>4, <1>5, <1>6, <1>7, <1>8, <1>9, CallProgress

LEMMA ProgressIsMade == Spec => [](\A t \in Task : Progress(t))
<1> DEFINE Inv == \A t \in Task : Progress(t)
<1>1. Init => Inv
  BY DEF Init, Progress, Idle, Call
<1>2. TypeOK /\ Validated /\ SchemaConformance /\ SchemaConformance' /\ Inv /\ [Next]_vars
        => Inv'
  <2> SUFFICES ASSUME TypeOK, Validated, SchemaConformance, SchemaConformance', Inv,
                      [Next]_vars, NEW t \in Task
               PROVE  Progress(t)'
    OBVIOUS
  <2> QED
    BY StoreKeeps, ProgressStep
<1> HIDE DEF Inv
<1>3. Spec => []Inv
  BY <1>1, <1>2, TypeCorrect, ValidatedInvariant, SchemaKept, PTL DEF Spec
<1> QED
  BY <1>3, PTL DEF Inv

-----------------------------------------------------------------------------
\* A step that writes, while some call with the same request is answered.
LEMMA RetryStep ==
  ASSUME TypeOK, WritersExclude, Validated, SchemaConformance, [Next]_vars,
         NEW t \in Task, NEW u \in Task, Progress(t), Progress(u),
         task[u].pc \in {"Ok", "Internal"}, Writing(u),
         task[t].pc = "running", task[t].req = task[u].req
  PROVE  state' = state
<1> SUFFICES ASSUME state' # state
             PROVE  FALSE
  OBVIOUS
<1> DEFINE r == task[t].req
           j == task[t].at
<1>1. Write(t)
  <2>1. PICK w \in Task : Write(w)
    BY OnlyWritesWrite
  <2> QED
    BY <2>1, WriterAlone DEF Holders
<1>2. j \in 1..Steps(r) /\ ~ Stops(r, j) /\ j \in Nat \ {0}
  BY <1>1, WritePosition, RunningCall DEF IsCall
<1>3. \A i \in 1..(j - 1) : ~ Stops(r, i)
  BY DEF Progress, Writing
<1>4. Absorbed(state, r, j)
  <2>1. CASE task[u].pc = "Ok"
    BY <1>2, <2>1 DEF Progress
  <2>2. CASE task[u].pc = "Internal"
    <3>1. PICK p \in Nat \ {0} :
            Stops(r, p) /\ \A i \in 1..(p - 1) : Absorbed(state, r, i)
      BY <2>2 DEF Progress
    <3> HIDE DEF r, j
    <3>2. p \notin 1..(j - 1) /\ p # j
      BY <1>2, <1>3, <3>1
    <3>3. j \in 1..(p - 1)
      BY <1>2, <3>1, <3>2
    <3> QED
      BY <3>1, <3>3
  <2> QED
    BY <2>1, <2>2
<1> QED
  BY <1>1, <1>4, WriteAbsorbs

\* Retries: however often a write is repeated after it was answered, with
\* success or with an error, and whatever other calls do in between, the store
\* does not change.
THEOREM RepeatsAbsorbed == Spec => RetriesAreAbsorbed
<1> DEFINE Retry == \A t, u \in Task :
             (/\ task[u].pc \in {"Ok", "Internal"} /\ Writing(u)
              /\ task[t].pc = "running" /\ task[t].req = task[u].req)
               => state' = state
           Inv == /\ TypeOK /\ WritersExclude /\ Validated /\ SchemaConformance
                  /\ \A t \in Task : Progress(t)
<1>1. Inv /\ [Next]_vars => [Retry]_vars
  BY RetryStep
<1>2. Spec => []Inv
  BY TypeCorrect, MutualExclusion, ValidatedInvariant, SchemaKept, ProgressIsMade, PTL
<1> HIDE DEF Inv
<1>3. Spec => [][Retry]_vars
  BY <1>1, <1>2, PTL DEF Spec
<1> QED
  BY <1>3 DEF RetriesAreAbsorbed
=============================================================================
