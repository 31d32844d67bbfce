--------------------------- MODULE TeeService_proofs ---------------------------
(***************************************************************************)
(* Theorems about TeeService, for any set of tasks, any set of requests    *)
(* and any strings and instants.                                           *)
(***************************************************************************)
EXTENDS TeeService, TeeDomain_proofs

-----------------------------------------------------------------------------
(* Requests: the fields that the method of a request gives it.             *)

LEMMA RequestForms ==
  ASSUME NEW r \in Requests
  PROVE  /\ r.rpc = "MergeHypothesis" =>
              r.nodes \in Seq(ProtoNode) /\ r.edges \in Seq(ProtoEdge)
         /\ r.rpc = "MergeNodeTombstones" =>
              r.incident_id \in Text /\ r.node_ids \in Seq(Text)
         /\ r.rpc = "MergeEdgeTombstones" =>
              r.incident_id \in Text /\ r.entries \in Seq(EdgeTombstoneEntry)
         /\ r.rpc \in IncidentRpcs \cup {"CreateIncident"} => r.incident_id \in Text
BY RequestsAssumption, MessageForms

-----------------------------------------------------------------------------
(* What the writes do to the type of the store.                            *)

LEMMA NewStateType == IsState(NewState)
BY DEF IsState, NewState, EmptyMap, IsMap

LEMMA PutNodeType ==
  ASSUME NEW s, IsState(s), NEW id \in Text, NEW l, IsNode(l)
  PROVE  IsState([s EXCEPT !.nodes = Put(@, id, l)])
<1> DEFINE n == Put(s.nodes, id, l)
<1>1. /\ s = [nodes |-> s.nodes, edges |-> s.edges, incidents |-> s.incidents]
      /\ s.nodes = [x \in DOMAIN s.nodes |-> s.nodes[x]]
      /\ s.edges = [x \in DOMAIN s.edges |-> s.edges[x]]
      /\ DOMAIN s.nodes \subseteq Text
      /\ \A x \in DOMAIN s.nodes : IsNode(s.nodes[x])
      /\ DOMAIN s.edges \subseteq AnyEdgeKey
      /\ \A k \in DOMAIN s.edges : IsProvenance(s.edges[k])
      /\ IsMap(s.incidents, Text, IncidentState)
  BY DEF IsState
<1>2. [s EXCEPT !.nodes = Put(@, id, l)]
        = [nodes |-> n, edges |-> s.edges, incidents |-> s.incidents]
  BY <1>1
<1>3. /\ n = [x \in DOMAIN n |-> n[x]]
      /\ DOMAIN n \subseteq Text /\ \A x \in DOMAIN n : IsNode(n[x])
  BY <1>1 DEF Put
<1> HIDE DEF n
<1> QED
  BY <1>1, <1>2, <1>3 DEF IsState

LEMMA PutEdgeType ==
  ASSUME NEW s, IsState(s), NEW k \in AnyEdgeKey, NEW l, IsProvenance(l)
  PROVE  IsState([s EXCEPT !.edges = Put(@, k, l)])
<1> DEFINE e == Put(s.edges, k, l)
<1>1. /\ s = [nodes |-> s.nodes, edges |-> s.edges, incidents |-> s.incidents]
      /\ s.nodes = [x \in DOMAIN s.nodes |-> s.nodes[x]]
      /\ s.edges = [x \in DOMAIN s.edges |-> s.edges[x]]
      /\ DOMAIN s.nodes \subseteq Text
      /\ \A x \in DOMAIN s.nodes : IsNode(s.nodes[x])
      /\ DOMAIN s.edges \subseteq AnyEdgeKey
      /\ \A x \in DOMAIN s.edges : IsProvenance(s.edges[x])
      /\ IsMap(s.incidents, Text, IncidentState)
  BY DEF IsState
<1>2. [s EXCEPT !.edges = Put(@, k, l)]
        = [nodes |-> s.nodes, edges |-> e, incidents |-> s.incidents]
  BY <1>1
<1>3. /\ e = [x \in DOMAIN e |-> e[x]]
      /\ DOMAIN e \subseteq AnyEdgeKey /\ \A x \in DOMAIN e : IsProvenance(e[x])
  BY <1>1 DEF Put
<1> HIDE DEF e
<1> QED
  BY <1>1, <1>2, <1>3 DEF IsState

\* Any change of the incidents that keeps their type.
LEMMA IncidentsType ==
  ASSUME NEW s, IsState(s), NEW m, IsMap(m, Text, IncidentState)
  PROVE  IsState([s EXCEPT !.incidents = m])
BY DEF IsState

-----------------------------------------------------------------------------
(* What the actions do to the calls.                                       *)

\* Every action changes one call at most.
LEMMA OneCall ==
  ASSUME TypeOK, NEW t \in Task, NEW c, IsCall(c), task' = [task EXCEPT ![t] = c]
  PROVE  /\ task' = [u \in Task |-> task'[u]]
         /\ \A u \in Task : IsCall(task'[u])
         /\ task'[t] = c
         /\ \A u \in Task \ {t} : task'[u] = task[u]
BY DEF TypeOK

LEMMA IdleType == IsCall(Idle)
BY DEF IsCall, Idle, Call

\* A call that has ended without a result, or has not begun to make one.
LEMMA BareCallType ==
  ASSUME NEW status \in {"queued"} \cup Status, NEW r \in Requests
  PROVE  IsCall(Call(status, r))
BY DEF IsCall, Call

LEMMA RunningCall ==
  ASSUME TypeOK, NEW t \in Task, task[t].pc = "running"
  PROVE  /\ task[t].req \in Requests
         /\ IsCall(task[t])
BY DEF TypeOK, IsCall

LEMMA RecordType ==
  ASSUME TypeOK, NEW t \in Task, task[t].pc = "running", NEW e \in Entry, Record(t, e)
  PROVE  /\ task' = [u \in Task |-> task'[u]]
         /\ \A u \in Task : IsCall(task'[u])
         /\ task'[t].pc = "running" /\ task'[t].req = task[t].req
         /\ task'[t].at = task[t].at + 1
         /\ task'[t].report = Append(task[t].report, e)
         /\ \A u \in Task \ {t} : task'[u] = task[u]
         /\ queue' = queue
<1> DEFINE c == [task[t] EXCEPT !.at = @ + 1, !.report = Append(@, e)]
<1>1. IsCall(task[t])
  BY RunningCall
<1>2. task' = [task EXCEPT ![t] = c]
  BY DEF Record
<1>3. /\ c.pc = "running" /\ c.req = task[t].req /\ c.at = task[t].at + 1
      /\ c.report = Append(task[t].report, e) /\ c.view = task[t].view
  BY <1>1 DEF IsCall
<1>4. c.at \in Nat \ {0} /\ c.report \in Seq(Entry)
  BY <1>1, <1>3 DEF IsCall
<1>5. IsCall(c)
  BY <1>1, <1>3, <1>4 DEF IsCall
<1> HIDE DEF c
<1> QED
  BY <1>2, <1>3, <1>5, OneCall DEF Record

LEMMA FailType ==
  ASSUME TypeOK, NEW t \in Task, task[t].pc = "running",
         NEW status \in Status, Fail(t, status)
  PROVE  /\ TypeOK'
         /\ task'[t] = Call(status, task[t].req)
         /\ \A u \in Task \ {t} : task'[u] = task[u]
<1> DEFINE c == Call(status, task[t].req)
<1>1. IsCall(c)
  BY RunningCall, BareCallType
<1>2. task' = [task EXCEPT ![t] = c]
  BY DEF Fail
<1> HIDE DEF c
<1>3. /\ task' = [u \in Task |-> task'[u]]
      /\ \A u \in Task : IsCall(task'[u])
      /\ task'[t] = c
      /\ \A u \in Task \ {t} : task'[u] = task[u]
  BY <1>1, <1>2, OneCall
<1> QED
  BY <1>3 DEF Fail, TypeOK, c

-----------------------------------------------------------------------------
(* The type invariant, one lemma per group of actions.                     *)

\* What a recorded step has to show: the new entry and the new store.
LEMMA RecordedStepType ==
  ASSUME TypeOK, NEW t \in Task, task[t].pc = "running", NEW e \in Entry,
         Record(t, e), IsState(state')
  PROVE  TypeOK'
BY RecordType DEF TypeOK

LEMMA NodeAtType ==
  ASSUME TypeOK, NEW t \in Task, AtNode(t)
  PROVE  /\ task[t].pc = "running" /\ task[t].req \in Requests
         /\ NodeAt(t) \in ProtoNode
<1>1. task[t].pc = "running" /\ task[t].req.rpc = "MergeHypothesis"
  BY DEF AtNode, Running
<1>2. task[t].req \in Requests
  BY <1>1, RunningCall
<1>3. task[t].req.nodes \in Seq(ProtoNode)
  BY <1>1, <1>2, RequestForms
<1> QED
  BY <1>1, <1>2, <1>3, ElementType DEF AtNode, NodeAt

LEMMA EdgeAtType ==
  ASSUME TypeOK, NEW t \in Task, AtEdge(t)
  PROVE  /\ task[t].pc = "running" /\ task[t].req \in Requests
         /\ EdgeAt(t) \in ProtoEdge
<1>1. task[t].pc = "running" /\ task[t].req.rpc = "MergeHypothesis"
  BY DEF AtEdge, Running
<1>2. task[t].req \in Requests
  BY <1>1, RunningCall
<1>3. task[t].req.edges \in Seq(ProtoEdge)
  BY <1>1, <1>2, RequestForms
<1> QED
  BY <1>1, <1>2, <1>3, ElementType DEF AtEdge, EdgeAt

LEMMA EntryAtType ==
  ASSUME TypeOK, NEW t \in Task, AtEntry(t)
  PROVE  /\ task[t].pc = "running" /\ task[t].req \in Requests
         /\ task[t].req.incident_id \in DOMAIN state.incidents
         /\ EntryAt(t) \in EdgeTombstoneEntry
<1>1. task[t].pc = "running" /\ task[t].req.rpc = "MergeEdgeTombstones"
  BY DEF AtEntry, Running
<1>2. task[t].req \in Requests
  BY <1>1, RunningCall
<1>3. task[t].req.entries \in Seq(EdgeTombstoneEntry)
  BY <1>1, <1>2, RequestForms
<1>4. task[t].req.incident_id \in DOMAIN state.incidents
  BY <1>1 DEF AtEntry, Running, Registered, IncidentRpcs, TombstoneRpcs
<1> QED
  BY <1>1, <1>2, <1>3, <1>4, ElementType DEF AtEntry, EntryAt

LEMMA StoredNodeType ==
  ASSUME TypeOK, NEW id \in DOMAIN state.nodes
  PROVE  IsNode(state.nodes[id])
BY DEF TypeOK, IsState

LEMMA CreateNodeType ==
  ASSUME TypeOK, NEW t \in Task, CreateNode(t)
  PROVE  TypeOK'
<1>1. AtNode(t) /\ NodeAt(t).type \in DOMAIN NodeType
  BY DEF CreateNode
<1>2. NodeAt(t).id \in Text /\ IsNode(ProtoNodeToDomain(NodeAt(t)))
  BY <1>1, NodeAtType, ProtoNodeToDomainType
<1>3. IsState(state')
  BY <1>2, PutNodeType DEF CreateNode, TypeOK
<1>4. [id |-> NodeAt(t).id, outcome |-> "created"] \in Entry
  BY <1>2 DEF Entry, ItemId
<1> QED
  BY <1>1, <1>3, <1>4, NodeAtType, RecordedStepType DEF CreateNode

LEMMA MergeNodeType ==
  ASSUME TypeOK, NEW t \in Task, MergeNode(t)
  PROVE  TypeOK'
<1>1. /\ AtNode(t) /\ NodeAt(t).type \in DOMAIN NodeType
      /\ NodeAt(t).id \in DOMAIN state.nodes
  BY DEF MergeNode
<1>2. NodeAt(t).id \in Text /\ IsNode(ProtoNodeToDomain(NodeAt(t)))
  BY <1>1, NodeAtType, ProtoNodeToDomainType
<1>3. IsNode(Candidate(t))
  BY <1>1, <1>2, StoredNodeType, NodeMergeType DEF Candidate
<1>4. IsState(state')
  BY <1>2, <1>3, PutNodeType DEF MergeNode, TypeOK
<1>5. [id |-> NodeAt(t).id, outcome |-> "merged"] \in Entry
  BY <1>2 DEF Entry, ItemId
<1> QED
  BY <1>1, <1>4, <1>5, NodeAtType, RecordedStepType DEF MergeNode

LEMMA ConflictNodeType ==
  ASSUME TypeOK, NEW t \in Task, ConflictNode(t)
  PROVE  TypeOK'
<1> DEFINE old   == state.nodes[NodeAt(t).id]
           field == ConflictField(Candidate(t))
           e == [ id |-> NodeAt(t).id, outcome |-> "conflict", field |-> field,
                  existing_value |-> FieldValue(old, field) ]
<1>1. /\ AtNode(t) /\ NodeAt(t).type \in DOMAIN NodeType
      /\ NodeAt(t).id \in DOMAIN state.nodes
      /\ Record(t, e) /\ state' = state
  BY DEF ConflictNode
<1>2. NodeAt(t).id \in Text
  BY <1>1, NodeAtType, ProtoNodeToDomainType
<1>3. field \in {"type", "label"}
  BY DEF ConflictField
<1>4. FieldValue(old, field) \in NodeTypes \cup Text \cup {Top}
  BY <1>1, StoredNodeType DEF IsNode, FieldValue
<1>5. e \in Entry
  BY <1>2, <1>3, <1>4 DEF Entry
<1>6. IsState(state')
  BY <1>1 DEF TypeOK
<1> HIDE DEF e
<1> QED
  BY <1>1, <1>5, <1>6, NodeAtType, RecordedStepType

LEMMA EdgeItemType ==
  ASSUME TypeOK, NEW t \in Task, AtEdge(t), EdgeAt(t).type \in DOMAIN EdgeType
  PROVE  /\ ProtoEdgeKey(EdgeAt(t)) \in AnyEdgeKey
         /\ IsProvenance(CollectProvenance(EdgeAt(t).provenance))
<1>1. /\ EdgeAt(t).source \in Text /\ EdgeAt(t).target \in Text
      /\ EdgeAt(t).provenance \in Seq(ProtoProvenance)
  BY EdgeAtType DEF ProtoEdge
<1> QED
  BY <1>1, ProtoEdgeKeyType, CollectProvenanceType

LEMMA CreateEdgeType ==
  ASSUME TypeOK, NEW t \in Task, CreateEdge(t)
  PROVE  TypeOK'
<1>1. AtEdge(t) /\ EdgeAt(t).type \in DOMAIN EdgeType
  BY DEF CreateEdge
<1>2. IsState(state')
  BY <1>1, EdgeItemType, PutEdgeType DEF CreateEdge, TypeOK
<1>3. [id |-> ProtoEdgeKey(EdgeAt(t)), outcome |-> "created"] \in Entry
  BY <1>1, EdgeItemType DEF Entry, ItemId
<1> QED
  BY <1>1, <1>2, <1>3, EdgeAtType, RecordedStepType DEF CreateEdge

LEMMA MergeEdgeType ==
  ASSUME TypeOK, NEW t \in Task, MergeEdge(t)
  PROVE  TypeOK'
<1> DEFINE k == ProtoEdgeKey(EdgeAt(t))
           l == EdgeMerge(state.edges[k], CollectProvenance(EdgeAt(t).provenance))
<1>1. /\ AtEdge(t) /\ EdgeAt(t).type \in DOMAIN EdgeType
      /\ k \in DOMAIN state.edges
      /\ state' = [state EXCEPT !.edges = Put(@, k, l)]
      /\ Record(t, [id |-> k, outcome |-> "merged"])
  BY DEF MergeEdge
<1>2. k \in AnyEdgeKey /\ IsProvenance(CollectProvenance(EdgeAt(t).provenance))
  BY <1>1, EdgeItemType
<1>3. IsProvenance(state.edges[k])
  BY <1>1 DEF TypeOK, IsState
<1>4. IsProvenance(l)
  BY <1>2, <1>3, SetUnionType DEF EdgeMerge
<1>5. [id |-> k, outcome |-> "merged"] \in Entry
  BY <1>2 DEF Entry, ItemId
<1> HIDE DEF k, l
<1>6. IsState(state')
  BY <1>1, <1>2, <1>4, PutEdgeType DEF TypeOK
<1> QED
  BY <1>1, <1>5, <1>6, EdgeAtType, RecordedStepType

LEMMA IncidentType ==
  ASSUME TypeOK, NEW i \in DOMAIN state.incidents
  PROVE  i \in Text /\ state.incidents[i] \in IncidentState
BY DEF TypeOK, IsState, IsMap

\* A registered incident with more tombstones.
LEMMA TombstonesType ==
  ASSUME TypeOK, NEW i \in DOMAIN state.incidents,
         NEW N \in SUBSET Text, NEW E \in SUBSET AnyEdgeKey
  PROVE  /\ IsState([state EXCEPT !.incidents[i].node_tombstones = @ \cup N])
         /\ IsState([state EXCEPT !.incidents[i].edge_tombstones = @ \cup E])
<1> DEFINE old == state.incidents[i]
           mn  == [state.incidents EXCEPT ![i].node_tombstones = @ \cup N]
           me  == [state.incidents EXCEPT ![i].edge_tombstones = @ \cup E]
<1>1. old \in IncidentState /\ IsMap(state.incidents, Text, IncidentState)
  BY IncidentType DEF TypeOK, IsState
<1>2. /\ [old EXCEPT !.node_tombstones = @ \cup N] \in IncidentState
      /\ [old EXCEPT !.edge_tombstones = @ \cup E] \in IncidentState
  BY <1>1 DEF IncidentState
<1>3. IsMap(mn, Text, IncidentState) /\ IsMap(me, Text, IncidentState)
  BY <1>1, <1>2 DEF IsMap
<1>4. /\ [state EXCEPT !.incidents[i].node_tombstones = @ \cup N]
            = [state EXCEPT !.incidents = mn]
      /\ [state EXCEPT !.incidents[i].edge_tombstones = @ \cup E]
            = [state EXCEPT !.incidents = me]
  OBVIOUS
<1> HIDE DEF mn, me
<1> QED
  BY <1>3, <1>4, IncidentsType DEF TypeOK

LEMMA MarkingType ==
  ASSUME NEW id, NEW marked, NEW known
  PROVE  Marking(id, marked, known) \in {"applied", "already_tombstoned", "unmatched"}
BY DEF Marking

LEMMA TombstoneNodeType ==
  ASSUME TypeOK, NEW t \in Task, TombstoneNode(t)
  PROVE  TypeOK'
<1> DEFINE i  == task[t].req.incident_id
           id == task[t].req.node_ids[task[t].at]
           e  == [ id |-> id,
                   outcome |-> Marking(id, state.incidents[i].node_tombstones,
                                       DOMAIN state.nodes) ]
<1>1. /\ task[t].pc = "running" /\ task[t].req.rpc = "MergeNodeTombstones"
      /\ Registered(state, task[t].req)
      /\ task[t].at \in DOMAIN task[t].req.node_ids
      /\ state' = [state EXCEPT !.incidents[i].node_tombstones = @ \cup {id}]
      /\ Record(t, e)
  BY DEF TombstoneNode, Running
<1>2. task[t].req \in Requests
  BY <1>1, RunningCall
<1>3. id \in Text
  BY <1>1, <1>2, RequestForms, ElementType
<1>4. i \in DOMAIN state.incidents
  BY <1>1 DEF Registered, IncidentRpcs, TombstoneRpcs
<1>5. e \in Entry
  BY <1>3, MarkingType DEF Entry, ItemId
<1> HIDE DEF e, id, i
<1>6. IsState(state')
  BY <1>1, <1>3, <1>4, TombstonesType
<1> QED
  BY <1>1, <1>5, <1>6, RecordedStepType

LEMMA TombstoneEdgeType ==
  ASSUME TypeOK, NEW t \in Task, TombstoneEdge(t)
  PROVE  TypeOK'
<1> DEFINE i == task[t].req.incident_id
           k == ProtoEdgeKey(EntryAt(t))
           e == [ id |-> k,
                  outcome |-> Marking(k, state.incidents[i].edge_tombstones,
                                      DOMAIN state.edges) ]
<1>1. /\ AtEntry(t) /\ EntryAt(t).type \in DOMAIN EdgeType
      /\ state' = [state EXCEPT !.incidents[i].edge_tombstones = @ \cup {k}]
      /\ Record(t, e)
  BY DEF TombstoneEdge
<1>2. /\ task[t].pc = "running" /\ i \in DOMAIN state.incidents
      /\ EntryAt(t) \in EdgeTombstoneEntry
  BY <1>1, EntryAtType
<1>3. k \in AnyEdgeKey
  BY <1>1, <1>2, ProtoEdgeKeyType DEF EdgeTombstoneEntry
<1>4. e \in Entry
  BY <1>3, MarkingType DEF Entry, ItemId
<1> HIDE DEF e, k, i
<1>5. IsState(state')
  BY <1>1, <1>2, <1>3, TombstonesType
<1> QED
  BY <1>1, <1>2, <1>4, <1>5, RecordedStepType

LEMMA CreateIncidentType ==
  ASSUME TypeOK, NEW t \in Task, CreateIncident(t)
  PROVE  TypeOK'
<1> DEFINE i == task[t].req.incident_id
<1>1. task[t].pc = "running" /\ task[t].req.rpc = "CreateIncident"
  BY DEF CreateIncident, Running
<1>2. task[t].req \in Requests
  BY <1>1, RunningCall
<1>3. i \in Text
  BY <1>1, <1>2, RequestForms
<1>4. [id |-> i, outcome |-> "existed"] \in Entry /\ [id |-> i, outcome |-> "created"] \in Entry
  BY <1>3 DEF Entry, ItemId
<1>5. CASE Record(t, [id |-> i, outcome |-> "existed"]) /\ UNCHANGED state
  BY <1>1, <1>4, <1>5, RecordedStepType DEF TypeOK
<1>6. ASSUME Record(t, [id |-> i, outcome |-> "created"]), NEW now \in Time,
             state' = [state EXCEPT !.incidents = Put(@, i, NewIncident(now))]
      PROVE  TypeOK'
  <2>1. NewIncident(now) \in IncidentState
    BY DEF NewIncident, IncidentState
  <2>2. IsMap(Put(state.incidents, i, NewIncident(now)), Text, IncidentState)
    BY <1>3, <2>1 DEF Put, IsMap, TypeOK, IsState
  <2>3. IsState(state')
    BY <1>6, <2>2, IncidentsType DEF TypeOK
  <2> QED
    BY <1>1, <1>4, <1>6, <2>3, RecordedStepType
<1> QED
  BY <1>5, <1>6 DEF CreateIncident

-----------------------------------------------------------------------------
\* The steps that leave the store alone.
LEMMA CallStepType ==
  ASSUME TypeOK, NEW t \in Task, NEW c, IsCall(c), task' = [task EXCEPT ![t] = c],
         state' = state, queue' \in Seq(Task)
  PROVE  TypeOK'
BY OneCall DEF TypeOK

LEMMA CollectedType ==
  ASSUME NEW c, IsCall(c), NEW n \in Nat \ {0}, NEW v
  PROVE  /\ IsCall(Collected(c, n, v))
         /\ Collected(c, n, v)
              = [pc |-> c.pc, req |-> c.req, at |-> n, report |-> c.report, view |-> v]
<1>1. c = [ pc |-> c.pc, req |-> c.req, at |-> c.at, report |-> c.report,
            view |-> c.view ]
  BY DEF IsCall
<1>2. Collected(c, n, v)
        = [pc |-> c.pc, req |-> c.req, at |-> n, report |-> c.report, view |-> v]
  <2> SUFFICES ASSUME NEW d, d = Collected(c, n, v)
               PROVE  d = [ pc |-> c.pc, req |-> c.req, at |-> n,
                            report |-> c.report, view |-> v ]
    OBVIOUS
  <2> QED
    BY <1>1 DEF Collected
<1> QED
  BY <1>2 DEF IsCall

LEMMA ReadStepType ==
  ASSUME TypeOK, NEW t \in Task, ReadNodes(t) \/ ReadEdges(t) \/ Return(t)
  PROVE  /\ TypeOK'
         /\ \A u \in Task \ {t} : task'[u] = task[u]
         /\ task'[t].req = task[t].req /\ task'[t].report = task[t].report
         /\ task'[t].pc # "queued"
         /\ state' = state
<1> DEFINE old == task[t]
           rn  == Collected(old, 2, [NoView EXCEPT !.nodes = NodesRead(state, old.req)])
           re  == Collected(old, 3, [old.view EXCEPT
                                       !.edges = EdgesRead(state, old.req),
                                       !.created_at = CreatedAtRead(state, old.req)])
           ret == [old EXCEPT !.pc = "Ok"]
<1>1. old.pc = "running" /\ UNCHANGED <<state, queue>>
  BY DEF ReadNodes, ReadEdges, Return, Running
<1>2. IsCall(old)
  BY DEF TypeOK
<1>3. \/ task' = [task EXCEPT ![t] = rn]
      \/ task' = [task EXCEPT ![t] = re]
      \/ task' = [task EXCEPT ![t] = ret]
  BY DEF ReadNodes, ReadEdges, Return
<1>4. IsCall(rn) /\ rn.req = old.req /\ rn.report = old.report /\ rn.pc # "queued"
  BY <1>1, <1>2, CollectedType
<1>5. IsCall(re) /\ re.req = old.req /\ re.report = old.report /\ re.pc # "queued"
  BY <1>1, <1>2, CollectedType
<1>6. IsCall(ret) /\ ret.req = old.req /\ ret.report = old.report /\ ret.pc # "queued"
  BY <1>1, <1>2 DEF IsCall, Status
<1>7. PICK c : c \in {rn, re, ret} /\ task' = [task EXCEPT ![t] = c]
  BY <1>3
<1>8. IsCall(c) /\ c.req = old.req /\ c.report = old.report /\ c.pc # "queued"
  BY <1>4, <1>5, <1>6, <1>7
<1> HIDE DEF rn, re, ret
<1>9. TypeOK'
  BY <1>1, <1>7, <1>8, CallStepType DEF TypeOK
<1> QED
  BY <1>1, <1>7, <1>8, <1>9, OneCall

\* The queue without its i-th element.
LEMMA RemoveType ==
  ASSUME NEW S, NEW q \in Seq(S), NEW i \in DOMAIN q
  PROVE  SubSeq(q, 1, i - 1) \o SubSeq(q, i + 1, Len(q)) \in Seq(S)
<1>1. SubSeq(q, 1, i - 1) \in Seq(S)
  OBVIOUS
<1>2. SubSeq(q, i + 1, Len(q)) \in Seq(S)
  OBVIOUS
<1> QED
  BY <1>1, <1>2

LEMMA AdmissionType ==
  ASSUME TypeOK, NEW t \in Task, NEW r \in Requests, Receive(t, r) \/ Reject(t, r)
  PROVE  TypeOK'
<1>1. CASE Receive(t, r)
  <2>1. IsCall(Call("queued", r))
    BY BareCallType
  <2>2. queue' \in Seq(Task)
    BY <1>1 DEF Receive, TypeOK
  <2> QED
    BY <1>1, <2>1, <2>2, CallStepType DEF Receive
<1>2. CASE Reject(t, r)
  <2>1. IsCall(Call("InvalidArgument", r))
    BY BareCallType DEF Status
  <2> QED
    BY <1>2, <2>1, CallStepType DEF Reject, TypeOK
<1> QED
  BY <1>1, <1>2

LEMMA AcquireType ==
  ASSUME TypeOK, NEW t \in Task, Acquire(t)
  PROVE  /\ TypeOK'
         /\ task'[t].pc = "running" /\ task'[t].req = task[t].req
         /\ task'[t].at = task[t].at /\ task'[t].report = task[t].report
         /\ task'[t].view = task[t].view
         /\ \A u \in Task \ {t} : task'[u] = task[u]
<1> DEFINE c == [task[t] EXCEPT !.pc = "running"]
<1>1. IsCall(task[t]) /\ task[t].pc = "queued"
  BY DEF TypeOK, Acquire
<1>2. /\ IsCall(c) /\ c.pc = "running" /\ c.req = task[t].req /\ c.at = task[t].at
      /\ c.report = task[t].report /\ c.view = task[t].view
  BY <1>1 DEF IsCall
<1>3. task' = [task EXCEPT ![t] = c]
  BY DEF Acquire
<1>4. queue' \in Seq(Task)
  BY DEF Acquire, TypeOK
<1> HIDE DEF c
<1>5. TypeOK'
  BY <1>2, <1>3, <1>4, CallStepType DEF Acquire
<1> QED
  BY <1>2, <1>3, <1>5, OneCall

LEMMA ReleaseType ==
  ASSUME TypeOK, NEW t \in Task, Cancel(t) \/ Reply(t)
  PROVE  TypeOK'
<1>1. task' = [task EXCEPT ![t] = Idle] /\ state' = state
  BY DEF Cancel, Reply
<1>2. queue' \in Seq(Task)
  <2>1. queue \in Seq(Task)
    BY DEF TypeOK
  <2>2. CASE Cancel(t)
    BY <2>1, <2>2, RemoveType DEF Cancel
  <2>3. CASE Reply(t)
    BY <2>1, <2>3 DEF Reply
  <2> QED
    BY <2>2, <2>3
<1> QED
  BY <1>1, <1>2, IdleType, CallStepType

LEMMA FailureType ==
  ASSUME TypeOK, NEW t \in Task, Unconvertible(t) \/ IncidentMissing(t)
  PROVE  TypeOK'
<1>1. CASE Unconvertible(t)
  BY <1>1, FailType DEF Unconvertible, AtNode, AtEdge, AtEntry, Running, Status
<1>2. CASE IncidentMissing(t)
  BY <1>2, FailType DEF IncidentMissing, Status
<1> QED
  BY <1>1, <1>2

LEMMA WriteType ==
  ASSUME TypeOK, NEW t \in Task, Write(t)
  PROVE  TypeOK'
BY CreateNodeType, MergeNodeType, ConflictNodeType, CreateEdgeType, MergeEdgeType,
   TombstoneNodeType, TombstoneEdgeType, CreateIncidentType
   DEF Write

LEMMA InitType == Init => TypeOK
<1> SUFFICES ASSUME Init PROVE TypeOK
  OBVIOUS
<1>1. IsState(state)
  BY NewStateType DEF Init
<1>2. queue \in Seq(Task)
  BY DEF Init
<1>3. task = [t \in Task |-> task[t]] /\ \A t \in Task : IsCall(task[t])
  BY IdleType DEF Init
<1> QED
  BY <1>1, <1>2, <1>3 DEF TypeOK

LEMMA NextType ==
  ASSUME TypeOK, [Next]_vars
  PROVE  TypeOK'
<1>1. CASE UNCHANGED vars
  BY <1>1 DEF TypeOK, vars
<1>2. ASSUME NEW t \in Task, NEW r \in Requests, Receive(t, r) \/ Reject(t, r)
      PROVE  TypeOK'
  BY <1>2, AdmissionType
<1>3. ASSUME NEW t \in Task, Cancel(t) \/ Reply(t)
      PROVE  TypeOK'
  BY <1>3, ReleaseType
<1>4. ASSUME NEW t \in Task, Acquire(t)
      PROVE  TypeOK'
  BY <1>4, AcquireType
<1>5. ASSUME NEW t \in Task, Handler(t)
      PROVE  TypeOK'
  BY <1>5, WriteType, FailureType, ReadStepType DEF Handler
<1> QED
  BY <1>1, <1>2, <1>3, <1>4, <1>5 DEF Next

\* Types: the store of a service that runs is always made of well-typed nodes,
\* edges and incidents, and every result list of well-typed entries.
THEOREM TypeCorrect == Spec => []TypeOK
<1>1. Init => TypeOK
  BY InitType
<1>2. TypeOK /\ [Next]_vars => TypeOK'
  BY NextType
<1> QED
  BY <1>1, <1>2, PTL DEF Spec

-----------------------------------------------------------------------------
(* Mutual exclusion.                                                       *)

\* A handler's step is that of a call that holds the lock, and of no other.
LEMMA HandlerFrame ==
  ASSUME TypeOK, NEW t \in Task, Handler(t)
  PROVE  /\ task[t].pc = "running" /\ task'[t].pc # "queued"
         /\ task'[t].req = task[t].req
         /\ \A u \in Task \ {t} : task'[u] = task[u]
<1>1. CASE ReadNodes(t) \/ ReadEdges(t) \/ Return(t)
  <2>1. task[t].pc = "running"
    BY <1>1 DEF ReadNodes, ReadEdges, Return, Running
  <2> QED
    BY <1>1, <2>1, ReadStepType
<1>2. CASE Write(t) \/ Unconvertible(t) \/ IncidentMissing(t)
  <2>1. task[t].pc = "running"
    BY <1>2 DEF Write, CreateNode, MergeNode, ConflictNode, CreateEdge, MergeEdge,
       TombstoneNode, TombstoneEdge, CreateIncident, Unconvertible, IncidentMissing,
       AtNode, AtEdge, AtEntry, Running
  <2>2. CASE \E e : Record(t, e)
    <3> DEFINE old == task[t]
    <3>1. PICK e : task' = [task EXCEPT ![t] = [old EXCEPT !.at = @ + 1,
                                                           !.report = Append(@, e)]]
      BY <2>2 DEF Record
    <3>2. old = [ pc |-> old.pc, req |-> old.req, at |-> old.at,
                  report |-> old.report, view |-> old.view ]
      BY DEF TypeOK, IsCall
    <3>3. PICK c : c = [old EXCEPT !.at = @ + 1, !.report = Append(@, e)]
      OBVIOUS
    <3>4. c.pc = old.pc /\ c.req = old.req
      BY <3>2, <3>3
    <3>5. task' = [task EXCEPT ![t] = c]
      BY <3>1, <3>3
    <3> QED
      BY <2>1, <3>4, <3>5 DEF TypeOK
  <2>3. CASE \E s \in Status : Fail(t, s)
    BY <2>1, <2>3 DEF Fail, Call, TypeOK, Status
  <2>4. (\E e : Record(t, e)) \/ (\E s \in Status : Fail(t, s))
    BY <1>2 DEF Write, CreateNode, MergeNode, ConflictNode, CreateEdge, MergeEdge,
       TombstoneNode, TombstoneEdge, CreateIncident, Unconvertible, IncidentMissing,
       Status
  <2> QED
    BY <2>1, <2>2, <2>3, <2>4
<1> QED
  BY <1>1, <1>2 DEF Handler

\* The lock changes hands in Acquire only: a call that holds it after a step
\* held it before, for the same request, or acquired it.
LEMMA HoldersShrink ==
  ASSUME TypeOK, [Next]_vars, NEW u \in Task, task'[u].pc = "running"
  PROVE  /\ task'[u].req = task[u].req
         /\ task[u].pc = "running" \/ Acquire(u)
<1>1. CASE UNCHANGED vars
  BY <1>1 DEF vars
<1>2. ASSUME NEW t \in Task, NEW r \in Requests, Receive(t, r) \/ Reject(t, r)
      PROVE  task[u].pc = "running" /\ task'[u].req = task[u].req
  BY <1>2 DEF Receive, Reject, Call, TypeOK
<1>3. ASSUME NEW t \in Task, Cancel(t) \/ Reply(t)
      PROVE  task[u].pc = "running" /\ task'[u].req = task[u].req
  BY <1>3 DEF Cancel, Reply, Idle, Call, TypeOK
<1>4. ASSUME NEW t \in Task, Acquire(t)
      PROVE  (task[u].pc = "running" \/ Acquire(u)) /\ task'[u].req = task[u].req
  BY <1>4, AcquireType
<1>5. ASSUME NEW t \in Task, Handler(t)
      PROVE  task[u].pc = "running" /\ task'[u].req = task[u].req
  <2>1. CASE u = t
    BY <1>5, <2>1, HandlerFrame
  <2>2. CASE u # t
    BY <1>5, <2>2, HandlerFrame
  <2> QED
    BY <2>1, <2>2
<1> QED
  BY <1>1, <1>2, <1>3, <1>4, <1>5 DEF Next

\* What Acquire finds, and that it admits one call only.
LEMMA AcquireExclusive ==
  ASSUME TypeOK, NEW t \in Task, Acquire(t)
  PROVE  /\ task[t].pc = "queued"
         /\ \A h \in Holders : ~ Writing(h) /\ ~ Writing(t)
         /\ \A u \in Task : Acquire(u) => u = t
BY DEF Acquire

LEMMA WritersExcludeStep ==
  ASSUME TypeOK, WritersExclude, [Next]_vars
  PROVE  WritersExclude'
<1> SUFFICES ASSUME NEW t \in Task, task'[t].pc = "running", Writing(t)',
                    NEW u \in Task, task'[u].pc = "running"
             PROVE  t = u
  BY DEF WritersExclude, Holders
<1>1. Writing(t)
  BY HoldersShrink DEF Writing
<1>2. CASE task[t].pc = "running" /\ task[u].pc = "running"
  BY <1>1, <1>2 DEF WritersExclude, Holders
<1>3. CASE Acquire(t)
  <2>1. Holders = {}
    BY <1>1, <1>3, AcquireExclusive
  <2>2. Acquire(u)
    BY <2>1, HoldersShrink DEF Holders
  <2> QED
    BY <1>3, <2>2, AcquireExclusive
<1>4. CASE task[t].pc = "running" /\ Acquire(u)
  <2>1. t \in Holders
    BY <1>4 DEF Holders
  <2> QED
    BY <1>1, <1>4, <2>1, AcquireExclusive
<1> QED
  BY <1>2, <1>3, <1>4, HoldersShrink

\* Mutual exclusion: a write never holds the lock together with another call,
\* however many calls are in flight.
THEOREM MutualExclusion == Spec => []WritersExclude
<1>1. Init => WritersExclude
  BY DEF Init, WritersExclude, Holders, Idle, Call
<1>2. TypeOK /\ WritersExclude /\ [Next]_vars => WritersExclude'
  BY WritersExcludeStep
<1> QED
  BY <1>1, <1>2, TypeCorrect, PTL DEF Spec

-----------------------------------------------------------------------------
(* Well-formedness of what is stored.                                      *)

\* SchemaConformance is inductive together with this: a call that waits for
\* the lock or holds it has passed validation.
Validated ==
  \A t \in Task : task[t].pc \in {"queued", "running"} => Valid(task[t].req)

LEMMA ValidatedStep ==
  ASSUME TypeOK, Validated, [Next]_vars
  PROVE  Validated'
<1> SUFFICES ASSUME NEW u \in Task, task'[u].pc \in {"queued", "running"}
             PROVE  Valid(task'[u].req)
  BY DEF Validated
<1>1. CASE task'[u].pc = "running"
  <2>1. task'[u].req = task[u].req /\ (task[u].pc = "running" \/ Acquire(u))
    BY <1>1, HoldersShrink
  <2>2. task[u].pc \in {"queued", "running"}
    BY <2>1, AcquireExclusive
  <2> QED
    BY <2>1, <2>2 DEF Validated
<1>2. CASE task'[u] = task[u]
  BY <1>2 DEF Validated
<1>3. CASE task'[u].pc = "queued" /\ task'[u] # task[u]
  <2>1. ASSUME NEW t \in Task, NEW r \in Requests, Receive(t, r) \/ Reject(t, r)
        PROVE  Valid(task'[u].req)
    BY <1>3, <2>1 DEF Receive, Reject, Call, TypeOK
  <2>2. ASSUME NEW t \in Task, Cancel(t) \/ Reply(t)
        PROVE  FALSE
    BY <1>3, <2>2 DEF Cancel, Reply, Idle, Call, TypeOK
  <2>3. ASSUME NEW t \in Task, Acquire(t)
        PROVE  FALSE
    BY <1>3, <2>3, AcquireType
  <2>4. ASSUME NEW t \in Task, Handler(t)
        PROVE  FALSE
    <3>1. t = u
      BY <1>3, <2>4, HandlerFrame
    <3> QED
      BY <1>3, <2>4, <3>1, HandlerFrame
  <2> QED
    BY <1>3, <2>1, <2>2, <2>3, <2>4 DEF Next, vars
<1> QED
  BY <1>1, <1>2, <1>3

LEMMA ValidatedInvariant == Spec => []Validated
<1>1. Init => Validated
  BY DEF Init, Validated, Idle, Call
<1>2. TypeOK /\ Validated /\ [Next]_vars => Validated'
  BY ValidatedStep
<1> QED
  BY <1>1, <1>2, TypeCorrect, PTL DEF Spec

LEMMA NodeAtValid ==
  ASSUME TypeOK, Validated, NEW t \in Task, AtNode(t)
  PROVE  ValidNode(NodeAt(t))
BY DEF AtNode, NodeAt, Running, Validated, Valid

LEMMA EdgeAtValid ==
  ASSUME TypeOK, Validated, NEW t \in Task, AtEdge(t)
  PROVE  ValidEdge(EdgeAt(t))
BY DEF AtEdge, EdgeAt, Running, Validated, Valid

LEMMA SchemaWriteStep ==
  ASSUME TypeOK, Validated, SchemaConformance, NEW t \in Task, Write(t)
  PROVE  SchemaConformance'
<1>1. CASE CreateNode(t)
  <2> DEFINE id == NodeAt(t).id
             l  == ProtoNodeToDomain(NodeAt(t))
  <2>1. AtNode(t) /\ NodeAt(t).type \in DOMAIN NodeType
    BY <1>1 DEF CreateNode
  <2>2. id # "" /\ WellFormedNode(l)
    BY <2>1, NodeAtType, NodeAtValid, ProtoNodeToDomainType
  <2>3. state' = [state EXCEPT !.nodes = Put(@, id, l)]
    BY <1>1 DEF CreateNode
  <2> HIDE DEF id, l
  <2> QED
    BY <2>2, <2>3 DEF SchemaConformance, Put, TypeOK, IsState
<1>2. CASE MergeNode(t)
  <2> DEFINE id == NodeAt(t).id
             l  == Candidate(t)
  <2>1. /\ AtNode(t) /\ NodeAt(t).type \in DOMAIN NodeType
        /\ id \in DOMAIN state.nodes /\ ~ HasConflict(l)
        /\ state' = [state EXCEPT !.nodes = Put(@, id, l)]
    BY <1>2 DEF MergeNode
  <2>2. /\ WellFormedNode(ProtoNodeToDomain(NodeAt(t)))
        /\ IsNode(ProtoNodeToDomain(NodeAt(t)))
    BY <2>1, NodeAtType, NodeAtValid, ProtoNodeToDomainType
  <2>3. id # "" /\ WellFormedNode(state.nodes[id]) /\ IsNode(state.nodes[id])
    BY <2>1, StoredNodeType DEF SchemaConformance
  <2>4. WellFormedNode(l)
    BY <2>1, <2>2, <2>3, NodeMergeWithoutConflict DEF Candidate
  <2> HIDE DEF id, l
  <2> QED
    BY <2>1, <2>3, <2>4 DEF SchemaConformance, Put, TypeOK, IsState
<1>3. CASE CreateEdge(t) \/ MergeEdge(t)
  <2> DEFINE k == ProtoEdgeKey(EdgeAt(t))
             p == CollectProvenance(EdgeAt(t).provenance)
             l == IF k \in DOMAIN state.edges THEN EdgeMerge(state.edges[k], p) ELSE p
  <2>1. /\ AtEdge(t) /\ EdgeAt(t).type \in DOMAIN EdgeType
        /\ state' = [state EXCEPT !.edges = Put(@, k, l)]
    BY <1>3 DEF CreateEdge, MergeEdge
  <2>2. /\ ValidEdge(EdgeAt(t)) /\ EdgeAt(t) \in ProtoEdge
        /\ k \in AnyEdgeKey /\ IsProvenance(p)
    BY <2>1, EdgeAtType, EdgeAtValid, EdgeItemType
  <2>3. Attributed(p)
    BY <2>2, ValidProvenancesAttribute DEF ValidEdge, ProtoEdge
  <2>4. k[1] # "" /\ k[2] # "" /\ k[1] # k[2] /\ k[3] \in EdgeTypes
    BY <2>2 DEF ValidEdge, ProtoEdgeKey, EdgeKey, AnyEdgeKey
  <2>5. k \in DOMAIN state.edges =>
          Attributed(state.edges[k]) /\ IsProvenance(state.edges[k])
    BY DEF SchemaConformance, WellFormedEdge, TypeOK, IsState
  <2>6. Attributed(l)
    BY <2>2, <2>3, <2>5, SetUnionAttributed DEF EdgeMerge
  <2> HIDE DEF k, l
  <2> QED
    BY <2>1, <2>4, <2>6 DEF SchemaConformance, WellFormedEdge, Put, TypeOK, IsState
<1>4. CASE ConflictNode(t)
  BY <1>4 DEF ConflictNode, SchemaConformance
<1>5. CASE TombstoneNode(t) \/ TombstoneEdge(t)
  BY <1>5 DEF TombstoneNode, TombstoneEdge, SchemaConformance, TypeOK, IsState
<1>6. CASE CreateIncident(t)
  <2> DEFINE i == task[t].req.incident_id
  <2>1. i # ""
    BY <1>6 DEF CreateIncident, Running, Validated, Valid
  <2>2. \/ state' = state
        \/ \E now \in Time :
              state' = [state EXCEPT !.incidents = Put(@, i, NewIncident(now))]
    BY <1>6 DEF CreateIncident
  <2> HIDE DEF i
  <2>3. CASE state' = state
    BY <2>3 DEF SchemaConformance
  <2>4. ASSUME NEW now \in Time,
               state' = [state EXCEPT !.incidents = Put(@, i, NewIncident(now))]
        PROVE  SchemaConformance'
    <3> DEFINE m == Put(state.incidents, i, NewIncident(now))
    <3>1. DOMAIN m = DOMAIN state.incidents \cup {i}
      BY DEF Put
    <3> HIDE DEF m
    <3>2. state'.nodes = state.nodes /\ state'.edges = state.edges /\ state'.incidents = m
      BY <2>4 DEF TypeOK, IsState, m
    <3> QED
      BY <2>1, <3>1, <3>2 DEF SchemaConformance
  <2> QED
    BY <2>2, <2>3, <2>4
<1> QED
  BY <1>1, <1>2, <1>3, <1>4, <1>5, <1>6 DEF Write

\* Only writes change the store.
LEMMA OnlyWritesWrite ==
  ASSUME TypeOK, [Next]_vars, state' # state
  PROVE  \E t \in Task : Write(t)
BY DEF Next, vars, Handler, Receive, Reject, Cancel, Acquire, Reply, Unconvertible,
   IncidentMissing, Fail, ReadNodes, ReadEdges, Return

\* The schema: whatever clients send, no stored node or edge is ever nameless,
\* in conflict, a self-loop or without an author.
THEOREM SchemaKept == Spec => []SchemaConformance
<1>1. Init => SchemaConformance
  BY DEF Init, SchemaConformance, NewState, EmptyMap
<1>2. TypeOK /\ Validated /\ SchemaConformance /\ [Next]_vars => SchemaConformance'
  <2> SUFFICES ASSUME TypeOK, Validated, SchemaConformance, [Next]_vars
               PROVE  SchemaConformance'
    OBVIOUS
  <2>1. CASE state' = state
    BY <2>1 DEF SchemaConformance
  <2>2. CASE state' # state
    BY <2>2, SchemaWriteStep, OnlyWritesWrite
  <2> QED
    BY <2>1, <2>2
<1> QED
  BY <1>1, <1>2, TypeCorrect, ValidatedInvariant, PTL DEF Spec
-----------------------------------------------------------------------------
(* Consistent reads.                                                       *)

\* SnapshotReads with what a read has not collected yet: the exact view at
\* each position, and that a call enters the lock at the first.
ReadsInOrder ==
  /\ \A t \in Task : task[t].pc = "queued" => task[t].at = 1
  /\ \A t \in Holders : task[t].req.rpc \in ReadRpcs =>
       /\ task[t].at \in {1, 2, 3}
       /\ task[t].at = 2 =>
            task[t].view = [NoView EXCEPT !.nodes = NodesRead(state, task[t].req)]
       /\ task[t].at = 3 => task[t].view = View(state, task[t].req)

\* The view after the first collection, and after the second.
LEMMA FirstCollection ==
  ASSUME NEW n, NEW v, v = [NoView EXCEPT !.nodes = n]
  PROVE  v = [nodes |-> n, edges |-> {}, created_at |-> None] /\ v.nodes = n
BY DEF NoView

LEMMA SecondCollection ==
  ASSUME NEW n, NEW e, NEW c, NEW v, v = [NoView EXCEPT !.nodes = n]
  PROVE  [v EXCEPT !.edges = e, !.created_at = c]
           = [nodes |-> n, edges |-> e, created_at |-> c]
<1>1. v = [nodes |-> n, edges |-> {}, created_at |-> None]
  BY FirstCollection
<1> SUFFICES ASSUME NEW d, d = [v EXCEPT !.edges = e, !.created_at = c]
             PROVE  d = [nodes |-> n, edges |-> e, created_at |-> c]
  OBVIOUS
<1> QED
  BY <1>1

LEMMA ReadsInOrderSuffices == ReadsInOrder => SnapshotReads
<1> SUFFICES ASSUME ReadsInOrder, NEW t \in Holders, task[t].req.rpc \in ReadRpcs
             PROVE  /\ task[t].at > 1 => task[t].view.nodes = NodesRead(state, task[t].req)
                    /\ task[t].at > 2 => task[t].view = View(state, task[t].req)
  BY DEF SnapshotReads
<1>1. task[t].at \in {1, 2, 3}
  BY DEF ReadsInOrder
<1>2. CASE task[t].at = 2
  <2>1. task[t].view = [NoView EXCEPT !.nodes = NodesRead(state, task[t].req)]
    BY <1>2 DEF ReadsInOrder
  <2>2. task[t].view.nodes = NodesRead(state, task[t].req)
    BY <2>1, FirstCollection
  <2> QED
    BY <1>2, <2>2
<1>3. CASE task[t].at = 3
  <2>1. task[t].view = View(state, task[t].req)
    BY <1>3 DEF ReadsInOrder
  <2>2. task[t].view.nodes = NodesRead(state, task[t].req)
    BY <2>1 DEF View
  <2> QED
    BY <2>1, <2>2
<1> QED
  BY <1>1, <1>2, <1>3

\* A write of t is a step of the only call that holds the lock.
LEMMA WriterAlone ==
  ASSUME TypeOK, WritersExclude, NEW t \in Task, Write(t)
  PROVE  /\ task[t].req.rpc \in WriteRpcs
         /\ Holders = {t}
<1>1. task[t].pc = "running" /\ task[t].req.rpc \in WriteRpcs
  BY DEF Write, CreateNode, MergeNode, ConflictNode, CreateEdge, MergeEdge, TombstoneNode,
     TombstoneEdge, CreateIncident, AtNode, AtEdge, AtEntry, Running, WriteRpcs,
     TombstoneRpcs
<1> QED
  BY <1>1 DEF WritersExclude, Writing, Holders

\* Where the steps of a read leave it.
LEMMA ReadStepView ==
  ASSUME TypeOK, ReadsInOrder, NEW t \in Task, ReadNodes(t) \/ ReadEdges(t)
  PROVE  /\ task'[t].at \in {2, 3}
         /\ task'[t].at = 2 => task'[t].view
              = [NoView EXCEPT !.nodes = NodesRead(state, task[t].req)]
         /\ task'[t].at = 3 => task'[t].view = View(state, task[t].req)
<1> DEFINE old == task[t]
           first == [NoView EXCEPT !.nodes = NodesRead(state, old.req)]
           second == [old.view EXCEPT !.edges = EdgesRead(state, old.req),
                                      !.created_at = CreatedAtRead(state, old.req)]
<1>1. IsCall(old)
  BY DEF TypeOK
<1>2. CASE ReadNodes(t)
  <2>1. task' = [task EXCEPT ![t] = Collected(old, 2, first)]
    BY <1>2 DEF ReadNodes
  <2>2. task'[t] = Collected(old, 2, first)
    BY <2>1 DEF TypeOK
  <2> HIDE DEF first, old
  <2>3. Collected(old, 2, first).at = 2 /\ Collected(old, 2, first).view = first
    BY <1>1, CollectedType
  <2> QED
    BY <2>2, <2>3 DEF first, old
<1>3. CASE ReadEdges(t)
  <2>1. task' = [task EXCEPT ![t] = Collected(old, 3, second)]
    BY <1>3 DEF ReadEdges
  <2>2. task'[t] = Collected(old, 3, second)
    BY <2>1 DEF TypeOK
  <2>3. old.view = first
    BY <1>3 DEF ReadEdges, Running, ReadsInOrder, Holders
  <2>4. second = View(state, old.req)
    <3> DEFINE n == NodesRead(state, old.req)
               e == EdgesRead(state, old.req)
               c == CreatedAtRead(state, old.req)
               v == old.view
    <3>1. v = [NoView EXCEPT !.nodes = n]
      BY <2>3
    <3>2. second = [v EXCEPT !.edges = e, !.created_at = c]
      OBVIOUS
    <3>3. View(state, old.req) = [nodes |-> n, edges |-> e, created_at |-> c]
      BY DEF View
    <3> HIDE DEF n, e, c, v, second
    <3> QED
      BY <3>1, <3>2, <3>3, SecondCollection
  <2> HIDE DEF second, old
  <2>5. Collected(old, 3, second).at = 3 /\ Collected(old, 3, second).view = second
    BY <1>1, CollectedType
  <2> QED
    BY <2>2, <2>4, <2>5 DEF old
<1> QED
  BY <1>2, <1>3

\* A call that waits has not begun: it is new, or it was waiting before.
LEMMA QueuedFresh ==
  ASSUME TypeOK, [Next]_vars, NEW u \in Task, task'[u].pc = "queued"
  PROVE  task'[u] = task[u] \/ task'[u].at = 1
<1>1. CASE UNCHANGED vars
  BY <1>1 DEF vars
<1>2. ASSUME NEW t \in Task, NEW r \in Requests, Receive(t, r) \/ Reject(t, r)
      PROVE  task'[u] = task[u] \/ task'[u].at = 1
  BY <1>2 DEF Receive, Reject, Call, TypeOK
<1>3. ASSUME NEW t \in Task, Cancel(t) \/ Reply(t)
      PROVE  task'[u] = task[u] \/ task'[u].at = 1
  BY <1>3 DEF Cancel, Reply, Idle, Call, TypeOK
<1>4. ASSUME NEW t \in Task, Acquire(t)
      PROVE  task'[u] = task[u]
  BY <1>4, AcquireType
<1>5. ASSUME NEW t \in Task, Handler(t)
      PROVE  task'[u] = task[u]
  BY <1>5, HandlerFrame
<1> QED
  BY <1>1, <1>2, <1>3, <1>4, <1>5 DEF Next

\* What a step does to a call that holds the lock and goes on holding it.
LEMMA RunningStep ==
  ASSUME TypeOK, [Next]_vars, NEW u \in Task,
         task[u].pc = "running", task'[u].pc = "running"
  PROVE  \/ ReadNodes(u) \/ ReadEdges(u)
         \/ task'[u] = task[u] /\ state' = state
         \/ \E t \in Task : Write(t)
<1>1. CASE UNCHANGED vars
  BY <1>1 DEF vars
<1>2. ASSUME NEW t \in Task, NEW r \in Requests, Receive(t, r) \/ Reject(t, r)
      PROVE  task'[u] = task[u] /\ state' = state
  BY <1>2 DEF Receive, Reject, Call, TypeOK
<1>3. ASSUME NEW t \in Task, Cancel(t) \/ Reply(t)
      PROVE  task'[u] = task[u] /\ state' = state
  BY <1>3 DEF Cancel, Reply, Idle, Call, TypeOK, Status
<1>4. ASSUME NEW t \in Task, Acquire(t)
      PROVE  task'[u] = task[u] /\ state' = state
  <2>1. t # u /\ state' = state
    BY <1>4 DEF Acquire
  <2> QED
    BY <1>4, <2>1, AcquireType
<1>5. ASSUME NEW t \in Task, Unconvertible(t) \/ IncidentMissing(t)
      PROVE  task'[u] = task[u] /\ state' = state
  <2>1. PICK s \in Status : Fail(t, s)
    BY <1>5 DEF Unconvertible, IncidentMissing, Status
  <2>2. t # u
    BY <2>1 DEF Fail, Call, TypeOK, Status
  <2> QED
    BY <2>1, <2>2 DEF Fail, TypeOK
<1>6. ASSUME NEW t \in Task, Return(t)
      PROVE  task'[u] = task[u] /\ state' = state
  <2>1. t # u
    BY <1>6 DEF Return, TypeOK, IsCall
  <2> QED
    BY <1>6, <2>1, ReadStepType
<1>7. ASSUME NEW t \in Task, ReadNodes(t) \/ ReadEdges(t)
      PROVE  ReadNodes(u) \/ ReadEdges(u) \/ (task'[u] = task[u] /\ state' = state)
  BY <1>7, ReadStepType
<1> QED
  BY <1>1, <1>2, <1>3, <1>4, <1>5, <1>6, <1>7 DEF Next, Handler

LEMMA ReadsInOrderStep ==
  ASSUME TypeOK, WritersExclude, ReadsInOrder, [Next]_vars
  PROVE  ReadsInOrder'
<1>1. ASSUME NEW u \in Task, task'[u].pc = "queued"
      PROVE  task'[u].at = 1
  BY <1>1, QueuedFresh DEF ReadsInOrder
<1>2. ASSUME NEW u \in Task, task'[u].pc = "running", task'[u].req.rpc \in ReadRpcs
      PROVE  /\ task'[u].at \in {1, 2, 3}
             /\ task'[u].at = 2 => task'[u].view
                  = [NoView EXCEPT !.nodes = NodesRead(state', task'[u].req)]
             /\ task'[u].at = 3 => task'[u].view = View(state', task'[u].req)
  <2>1. task'[u].req = task[u].req /\ (task[u].pc = "running" \/ Acquire(u))
    BY <1>2, HoldersShrink
  <2>2. CASE Acquire(u)
    BY <2>2, AcquireType DEF Acquire, ReadsInOrder
  <2>3. CASE task[u].pc = "running" /\ (ReadNodes(u) \/ ReadEdges(u))
    <3>1. state' = state
      BY <2>3, ReadStepType
    <3> QED
      BY <2>1, <2>3, <3>1, ReadStepView
  <2>4. CASE task[u].pc = "running" /\ task'[u] = task[u] /\ state' = state
    BY <1>2, <2>4 DEF ReadsInOrder, Holders
  <2>5. CASE task[u].pc = "running" /\ \E t \in Task : Write(t)
    <3>1. u \in Holders
      BY <2>5 DEF Holders
    <3>2. task[u].req.rpc \in WriteRpcs
      BY <2>5, <3>1, WriterAlone
    <3> QED
      BY <1>2, <2>1, <3>2 DEF WriteRpcs, TombstoneRpcs, ReadRpcs
  <2>6. task[u].pc = "running" =>
          \/ ReadNodes(u) \/ ReadEdges(u)
          \/ task'[u] = task[u] /\ state' = state
          \/ \E t \in Task : Write(t)
    BY <1>2, RunningStep
  <2> QED
    BY <2>1, <2>2, <2>3, <2>4, <2>5, <2>6
<1> QED
  BY <1>1, <1>2 DEF ReadsInOrder, Holders

LEMMA ReadsKeepOrder == Spec => []ReadsInOrder
<1>1. Init => ReadsInOrder
  BY DEF Init, ReadsInOrder, Holders, Idle, Call
<1>2. TypeOK /\ WritersExclude /\ ReadsInOrder /\ [Next]_vars => ReadsInOrder'
  BY ReadsInOrderStep
<1> QED
  BY <1>1, <1>2, TypeCorrect, MutualExclusion, PTL DEF Spec

\* Consistent reads: what a read collects in two passes is one state of the
\* store, whatever writes are waiting meanwhile.
THEOREM ConsistentReads == Spec => []SnapshotReads
BY ReadsKeepOrder, ReadsInOrderSuffices, PTL
=============================================================================
